---------------------------- MODULE ChatRoomProofs ----------------------------
(***************************************************************************)
(* The table of users of chat_serv.cpp and the order of the messages it    *)
(* relays, for any number of clients, any USER_LIMIN and any number of     *)
(* messages.  Three invariants carry the table: it holds exactly the open  *)
(* connections.                                                            *)
(*   Kinds    the types, and i never leaves the table by more than one     *)
(*   Table    entries and connections correspond one to one, so the last   *)
(*            entry that takes the place of a leaver is the only one of    *)
(*            its connection, and a free descriptor is nobody's            *)
(*   Told     an entry with POLLOUT in events has a write_buf that was set *)
(* The order of messages rests on them and on                              *)
(*   Boxes    where write_buf may point and what poll may report           *)
(*   Order    until somebody leaves, the messages of a client are older    *)
(*            the further they have come: sent to a user, in the buffer of *)
(*            the client's descriptor, in its socket                       *)
(***************************************************************************)
EXTENDS ChatRoom, FiniteSetTheorems, FunctionTheorems, SequenceTheorems,
        WellFoundedInduction, TLAPS

CStates  == {"new", "calling", "in", "gone", "reset", "over"}
Events   == {"ERR", "RDHUP", "IN", "OUT"}
Entries  == [fd : Descriptors, out : BOOLEAN, revents : SUBSET Events]
Messages == Clients \X Nat
Records  == [write_buf : Int, buf : Seq(Messages)]

ClientKinds ==
  /\ state \in [Clients -> CStates] /\ fd \in [Clients -> Int]
  /\ sent \in [Clients -> Nat] /\ inbox \in [Clients -> Seq(Messages)]
  /\ users \in [Descriptors -> Records]

TableKinds == fds \in Seq(Entries) /\ i \in 0 .. Len(fds) + 1

Kinds == ClientKinds /\ TableKinds

Table ==
  /\ Len(fds) <= UserLimit
  /\ \A k, l \in 1 .. Len(fds) : fds[k].fd = fds[l].fd => k = l
  /\ \A k \in 1 .. Len(fds) : \E c \in Here : fd[c] = fds[k].fd
  /\ \A c \in Here : \E k \in 1 .. Len(fds) : fds[k].fd = fd[c]
  /\ \A c, e \in Here : fd[c] = fd[e] => c = e

Told == \A k \in 1 .. Len(fds) : fds[k].out => users[fds[k].fd].write_buf # Uninit

LEMMA Limit == UserLimit \in Nat \ {0}
BY UserLimitAssumption

LEMMA InitInv == Init => Kinds /\ Table /\ Told
<1> SUFFICES ASSUME Init PROVE Kinds /\ Table /\ Told
  OBVIOUS
<1>1. ClientKinds
  BY DEF Init, ClientKinds, CStates, Records, Uninit
<1>2. TableKinds
  BY DEF Init, TableKinds
<1>3. Here = {}
  BY DEF Init, Here
<1>4. Table /\ Told
  BY <1>3, Limit DEF Init, Table, Told
<1> QED  BY <1>1, <1>2, <1>4 DEF Kinds

-----------------------------------------------------------------------------
(* Facts about the table. *)

LEMMA EntryKind ==
  ASSUME TableKinds, NEW k \in 1 .. Len(fds)
  PROVE  /\ fds[k] \in Entries /\ fds[k].fd \in Descriptors /\ fds[k].fd \in Nat
         /\ fds[k].fd # 0 /\ fds[k].fd # Uninit
<1>1. fds[k] \in Entries
  BY DEF TableKinds
<1>2. fds[k].fd \in 1 .. UserLimit + 1
  BY <1>1 DEF Entries, Descriptors
<1> QED  BY <1>1, <1>2, Limit DEF Descriptors, Uninit

(* The client of an entry. *)
LEMMA OwnerOf ==
  ASSUME Table, NEW k \in 1 .. Len(fds)
  PROVE  /\ Owner(fds[k].fd) \in Here /\ fd[Owner(fds[k].fd)] = fds[k].fd
         /\ Owner(fds[k].fd) \in Clients
<1>1. \E c \in Here : fd[c] = fds[k].fd
  BY DEF Table
<1>2. Owner(fds[k].fd) \in Here /\ fd[Owner(fds[k].fd)] = fds[k].fd
  BY <1>1, Zenon DEF Owner
<1> QED  BY <1>2 DEF Here

(* The same descriptors for the same connections. *)
LEMMA TableKept ==
  ASSUME Table, Len(fds') = Len(fds), \A k \in 1 .. Len(fds) : fds'[k].fd = fds[k].fd,
         Here' = Here, fd' = fd
  PROVE  Table'
BY DEF Table

(* A set of natural numbers that is not empty has a least element. *)
LEMMA MinNat ==
  ASSUME NEW T \in SUBSET Nat, T # {}
  PROVE  Min(T) \in T
<1> DEFINE R == {ss \in Nat \X Nat : ss[1] < ss[2]}
<1>1. IsWellFoundedOn(R, Nat)
  BY NatLessThanWellFounded DEF OpToRel
<1> HIDE DEF R
<1>2. PICK x \in T : \A y \in T : ~(<<y, x>> \in R)
  BY <1>1, WFMin
<1>3. ASSUME NEW y \in T PROVE x <= y
  <2>1. x \in Nat /\ y \in Nat
    OBVIOUS
  <2>2. <<y, x>> \in R <=> y < x
    BY <2>1 DEF R
  <2>3. <<y, x>> \notin R
    BY <1>2
  <2> QED  BY <2>1, <2>2, <2>3
<1>4. \E z \in T : \A y \in T : z <= y
  BY <1>3
<1> QED  BY <1>4, Zenon DEF Min

LEMMA UpTo == ASSUME NEW m \in Nat PROVE IsFiniteSet(1 .. m) /\ Cardinality(1 .. m) = m
BY FS_Interval

(* Below the limit accept finds a descriptor that no entry has. *)
LEMMA FreeDescriptor ==
  ASSUME TableKinds, Len(fds) < UserLimit
  PROVE  Min(Descriptors \ {fds[k].fd : k \in 1 .. Len(fds)})
           \in Descriptors \ {fds[k].fd : k \in 1 .. Len(fds)}
<1> DEFINE K == 1 .. Len(fds)
           F == Descriptors \ {fds[k].fd : k \in K}
<1>1. F \in SUBSET Nat
  BY Limit DEF Descriptors
<1>2. F # {}
  <2> SUFFICES ASSUME F = {} PROVE FALSE
    OBVIOUS
  <2>1. \A d \in Descriptors : \E k \in K : fds[k].fd = d
    OBVIOUS
  <2> DEFINE at == [d \in Descriptors |-> CHOOSE k \in K : fds[k].fd = d]
  <2>2. at \in [Descriptors -> K] /\ \A d \in Descriptors : fds[at[d]].fd = d
    <3> HIDE DEF K
    <3> QED  BY <2>1
  <2>3. IsFiniteSet(K) /\ Cardinality(K) = Len(fds)
    <3>1. Len(fds) \in Nat
      BY DEF TableKinds
    <3> QED  BY <3>1, UpTo
  <2>4. IsFiniteSet(Descriptors) /\ Cardinality(Descriptors) = UserLimit + 1
    <3>1. UserLimit + 1 \in Nat
      BY Limit
    <3> QED  BY <3>1, UpTo DEF Descriptors
  <2>5. Cardinality(K) < Cardinality(Descriptors)
    BY <2>3, <2>4, Limit DEF TableKinds
  <2> HIDE DEF at, K
  <2>6. \E d, e \in Descriptors : d # e /\ at[d] = at[e]
    BY <2>2, <2>3, <2>4, <2>5, FS_PigeonHole
  <2> QED  BY <2>2, <2>6
<1> HIDE DEF F
<1>3. Min(F) \in F
  BY <1>1, <1>2, MinNat
<1> QED  BY <1>3 DEF F

-----------------------------------------------------------------------------
(* A user departs: the last entry takes its place. *)

Moved(k) == IF k = i THEN Len(fds) ELSE k

LEMMA MovedTable ==
  ASSUME Kinds, i \in 1 .. Len(fds), RemoveUser
  PROVE  /\ fds' \in Seq(Entries) /\ Len(fds') = Len(fds) - 1
         /\ \A k \in 1 .. Len(fds') :
              fds'[k] = fds[Moved(k)] /\ Moved(k) \in 1 .. Len(fds) /\ Moved(k) # i
<1> DEFINE n == Len(fds)
           g == [fds EXCEPT ![i] = fds[n]]
<1>1. fds \in Seq(Entries) /\ n \in Nat /\ i \in 1 .. n /\ n \in 1 .. n
  BY DEF Kinds, TableKinds
<1>2. g \in Seq(Entries) /\ Len(g) = n /\ \A k \in 1 .. n : g[k] = fds[Moved(k)]
  BY <1>1 DEF Moved
<1>3. fds' = SubSeq(g, 1, n - 1)
  BY DEF RemoveUser, user_counter
<1> HIDE DEF g
<1>4. /\ fds' \in Seq(Entries) /\ Len(fds') = n - 1
      /\ \A k \in 1 .. n - 1 : fds'[k] = g[k]
  BY <1>1, <1>2, <1>3
<1>5. ASSUME NEW k \in 1 .. n - 1 PROVE k \in 1 .. n /\ Moved(k) \in 1 .. n /\ Moved(k) # i
  BY <1>1 DEF Moved
<1> QED  BY <1>2, <1>4, <1>5

LEMMA RemoveKeeps ==
  ASSUME Kinds, Table, Told, i \in 1 .. Len(fds), RemoveUser
  PROVE  Kinds' /\ Table' /\ Told'
<1> DEFINE d0 == fds[i].fd
           c0 == Owner(d0)
<1>1. /\ fds' \in Seq(Entries) /\ Len(fds') = Len(fds) - 1 /\ Len(fds) \in Nat
      /\ \A k \in 1 .. Len(fds') :
           fds'[k] = fds[Moved(k)] /\ Moved(k) \in 1 .. Len(fds) /\ Moved(k) # i
  BY MovedTable DEF Kinds, TableKinds
<1>0. Len(fds') = Len(fds) - 1 /\ Len(fds) \in Nat
  BY <1>1
<1>2. /\ c0 \in Here /\ fd[c0] = d0 /\ c0 \in Clients /\ d0 \in Descriptors
  BY OwnerOf, EntryKind DEF Kinds
<1>3. /\ state' = [state EXCEPT ![c0] = "over"] /\ fd' = [fd EXCEPT ![c0] = 0]
      /\ users' = [users EXCEPT ![d0] = users[fds[Len(fds)].fd]]
      /\ UNCHANGED <<i, sent, inbox>>
  BY DEF RemoveUser, user_counter
<1>4. Len(fds) \in 1 .. Len(fds)
  BY <1>1
<1>5. fds[Len(fds)].fd \in Descriptors
  BY <1>4, EntryKind DEF Kinds
<1> HIDE DEF c0, d0
<1>6. Here' = Here \ {c0} /\ \A c \in Here' : fd'[c] = fd[c]
  BY <1>2, <1>3 DEF Here, Kinds, ClientKinds
<1>7. \A k \in 1 .. Len(fds') : fds'[k].fd # d0
  BY <1>1 DEF Table, d0
<1>8. Kinds'
  <2>1. ClientKinds'
    <3>1. ClientKinds /\ "over" \in CStates /\ 0 \in Int
      BY DEF Kinds, CStates
    <3> QED  BY <1>2, <1>3, <1>5, <3>1 DEF ClientKinds
  <2>2. i' \in 0 .. Len(fds') + 1
    BY <1>1, <1>3
  <2> QED  BY <1>1, <2>1, <2>2 DEF Kinds, TableKinds
<1>9. Table'
  <2>1. Len(fds') <= UserLimit
    BY <1>1, Limit DEF Table
  <2>2. ASSUME NEW k \in 1 .. Len(fds'), NEW l \in 1 .. Len(fds'), fds'[k].fd = fds'[l].fd
        PROVE  k = l
    <3>1. Moved(k) = Moved(l)
      <4>1. fds[Moved(k)].fd = fds[Moved(l)].fd /\ Moved(k) \in 1 .. Len(fds) /\ Moved(l) \in 1 .. Len(fds)
        BY <1>1, <2>2
      <4> HIDE DEF Moved
      <4> QED  BY <4>1 DEF Table
    <3>2. k # Len(fds) /\ l # Len(fds)
      BY <1>0
    <3> QED  BY <3>1, <3>2 DEF Moved
  <2>3. ASSUME NEW k \in 1 .. Len(fds') PROVE \E c \in Here' : fd'[c] = fds'[k].fd
    <3>1. PICK c \in Here : fd[c] = fds[Moved(k)].fd
      BY <1>1 DEF Table
    <3>2. c # c0
      BY <1>1, <1>2, <1>7, <3>1
    <3> QED  BY <1>1, <1>6, <3>1, <3>2
  <2>4. ASSUME NEW c \in Here' PROVE \E k \in 1 .. Len(fds') : fds'[k].fd = fd'[c]
    <3>1. c \in Here /\ c # c0 /\ fd'[c] = fd[c]
      BY <1>6
    <3>2. PICK l \in 1 .. Len(fds) : fds[l].fd = fd[c]
      BY <3>1 DEF Table
    <3>3. l # i
      BY <1>2, <3>1, <3>2 DEF Table, d0
    <3>4. CASE l = Len(fds)
      <4>1. i \in 1 .. Len(fds') /\ Moved(i) = l
        BY <1>0, <3>3, <3>4 DEF Moved
      <4> QED  BY <1>1, <3>1, <3>2, <4>1
    <3>5. CASE l # Len(fds)
      <4>1. l \in 1 .. Len(fds') /\ Moved(l) = l
        BY <1>0, <3>3, <3>5 DEF Moved
      <4> QED  BY <1>1, <3>1, <3>2, <4>1
    <3> QED  BY <3>4, <3>5
  <2>5. \A c, e \in Here' : fd'[c] = fd'[e] => c = e
    BY <1>6 DEF Table
  <2> QED  BY <2>1, <2>2, <2>3, <2>4, <2>5 DEF Table
<1>10. Told'
  <2> SUFFICES ASSUME NEW k \in 1 .. Len(fds'), fds'[k].out
               PROVE  users'[fds'[k].fd].write_buf # Uninit
    BY DEF Told, Uninit
  <2>1. fds'[k] = fds[Moved(k)] /\ Moved(k) \in 1 .. Len(fds) /\ fds'[k].fd # d0
    BY <1>1, <1>7
  <2>2. fds[Moved(k)].fd \in Descriptors
    BY <2>1, EntryKind DEF Kinds
  <2>3. users'[fds'[k].fd] = users[fds[Moved(k)].fd]
    BY <1>3, <2>1, <2>2 DEF Kinds, ClientKinds
  <2> QED  BY <2>1, <2>3 DEF Told
<1> QED  BY <1>8, <1>9, <1>10

-----------------------------------------------------------------------------
(* The other steps of the server. *)

Good == Kinds /\ Table /\ Told

(* No entry and no record changes. *)
LEMMA GoodKept ==
  ASSUME Good, UNCHANGED <<fd, fds, users>>, i' \in 0 .. Len(fds) + 1,
         state' \in [Clients -> CStates], sent' \in [Clients -> Nat],
         inbox' \in [Clients -> Seq(Messages)], Here' = Here
  PROVE  Good'
<1>1. Kinds'
  BY DEF Good, Kinds, ClientKinds, TableKinds
<1>2. Table'
  BY TableKept DEF Good
<1>3. Told'
  BY DEF Good, Told, Uninit
<1> QED  BY <1>1, <1>2, <1>3 DEF Good

LEMMA Indices ==
  ASSUME Good
  PROVE  /\ Len(fds) \in Nat /\ i \in 0 .. Len(fds) + 1
         /\ \A event : Entry(event) => i \in 1 .. Len(fds) /\ i + 1 \in 0 .. Len(fds) + 1
<1>1. Len(fds) \in Nat /\ i \in 0 .. Len(fds) + 1
  BY DEF Good, Kinds, TableKinds
<1>2. i \in 1 .. Len(fds) => i + 1 \in 0 .. Len(fds) + 1
  BY <1>1
<1> QED  BY <1>1, <1>2 DEF Entry, user_counter

LEMMA ClientGood ==
  ASSUME Good, NEW c \in Clients, ClientStep(c)
  PROVE  Good'
<1>1. ClientKinds /\ i \in 0 .. Len(fds) + 1
  BY Indices DEF Good, Kinds
<1>2. CASE Connect(c)
  <2>1. state' \in [Clients -> CStates] /\ Here' = Here
    BY <1>1, <1>2 DEF Connect, ClientKinds, CStates, Here
  <2> QED  BY <1>1, <1>2, <2>1, GoodKept DEF Connect, ClientKinds
<1>3. CASE Type(c)
  <2>1. sent' \in [Clients -> Nat] /\ sent'[c] \in Nat
    BY <1>1, <1>3 DEF Type, ClientKinds
  <2>2. inbox' \in [Clients -> Seq(Messages)]
    <3>1. inbox' = [inbox EXCEPT ![c] = Append(@, <<c, sent'[c]>>)] /\ <<c, sent'[c]>> \in Messages
      BY <1>3, <2>1 DEF Type, Messages
    <3>2. inbox[c] \in Seq(Messages)
      BY <1>1 DEF ClientKinds
    <3>3. Append(inbox[c], <<c, sent'[c]>>) \in Seq(Messages)
      BY <3>1, <3>2, AppendProperties
    <3> QED  BY <1>1, <3>1, <3>3 DEF ClientKinds
  <2>3. UNCHANGED <<state, fd, fds, users, i>>
    BY <1>3 DEF Type
  <2>4. Here' = Here
    BY <2>3 DEF Here
  <2> QED  BY <1>1, <2>1, <2>2, <2>3, <2>4, GoodKept DEF ClientKinds
<1>4. CASE PrintReceived(c)
  <2>1. UNCHANGED <<state, fd, fds, users, i, sent, inbox>>
    BY <1>4 DEF PrintReceived
  <2>2. Here' = Here
    BY <2>1 DEF Here
  <2> QED  BY <1>1, <2>1, <2>2, GoodKept DEF ClientKinds
<1>5. CASE Leave(c)
  <2>1. state' \in [Clients -> CStates] /\ Here' = Here
    BY <1>1, <1>5 DEF Leave, ClientKinds, CStates, Here
  <2> QED  BY <1>1, <1>5, <2>1, GoodKept DEF Leave, ClientKinds
<1> QED  BY <1>2, <1>3, <1>4, <1>5 DEF ClientStep

(* Entries keep their descriptors and only gain POLLOUT where write_buf is set. *)
LEMMA EntriesKept ==
  ASSUME Good, UNCHANGED <<fd, state, sent>>,
         inbox' \in [Clients -> Seq(Messages)], users' \in [Descriptors -> Records],
         fds' \in Seq(Entries), Len(fds') = Len(fds), i' \in 0 .. Len(fds) + 1,
         \A k \in 1 .. Len(fds) :
           /\ fds'[k].fd = fds[k].fd
           /\ fds'[k].out => users'[fds[k].fd].write_buf # Uninit
  PROVE  Good'
<1>1. Kinds'
  BY DEF Good, Kinds, ClientKinds, TableKinds
<1>2. Here' = Here
  BY DEF Here
<1>3. Table'
  BY <1>2, TableKept DEF Good
<1>4. Told'
  BY DEF Told, Uninit
<1> QED  BY <1>1, <1>3, <1>4 DEF Good

LEMMA PollGood == ASSUME Good, Poll PROVE Good'
<1> DEFINE new(k) == [fds[k] EXCEPT !.revents = EventsOf(fds[k])]
<1>1. /\ fds' = [k \in 1 .. Len(fds) |-> new(k)] /\ i' = 0
      /\ UNCHANGED <<fd, state, sent, inbox, users>>
  BY DEF Poll, clientVars, user_counter
<1>2. Len(fds) \in Nat
  BY Indices
<1>3. \A k \in 1 .. Len(fds) : EventsOf(fds[k]) \in SUBSET Events
  BY DEF EventsOf, Events
<1>4. ASSUME NEW k \in 1 .. Len(fds)
      PROVE  new(k) \in Entries /\ new(k).fd = fds[k].fd /\ new(k).out = fds[k].out
  <2>1. fds[k] \in Entries
    BY EntryKind DEF Good, Kinds
  <2>2. EventsOf(fds[k]) \in SUBSET Events
    BY <1>3
  <2> QED  BY <2>1, <2>2 DEF Entries
<1> HIDE DEF new
<1>5. fds' \in Seq(Entries) /\ Len(fds') = Len(fds) /\ \A k \in 1 .. Len(fds) : fds'[k] = new(k)
  BY <1>1, <1>2, <1>4
<1>6. ASSUME NEW k \in 1 .. Len(fds)
      PROVE  /\ fds'[k].fd = fds[k].fd
             /\ fds'[k].out => users'[fds[k].fd].write_buf # Uninit
  BY <1>1, <1>4, <1>5 DEF Good, Told
<1>7. i' \in 0 .. Len(fds) + 1
  BY <1>1, <1>2
<1>8. inbox' \in [Clients -> Seq(Messages)] /\ users' \in [Descriptors -> Records]
  BY <1>1 DEF Good, Kinds, ClientKinds
<1> QED  BY <1>1, <1>5, <1>6, <1>7, <1>8, EntriesKept

(* What Read does, for the entry with descriptor d of client c. *)
LEMMA ReadEffect ==
  ASSUME Good, Read, NEW d, d = fds[i].fd, NEW c, c = Owner(d)
  PROVE  /\ i \in 1 .. Len(fds) /\ d \in Descriptors /\ c \in Here /\ fd[c] = d
         /\ inbox' = [inbox EXCEPT ![c] = <<>>]
         /\ fds' \in Seq(Entries) /\ Len(fds') = Len(fds)
         /\ users' \in [Descriptors -> Records]
         /\ \A k \in 1 .. Len(fds) :
              /\ fds'[k].fd = fds[k].fd /\ fds'[k].revents = fds[k].revents
              /\ fds'[k].out <=> fds[k].out \/ (fds[k].fd # d /\ inbox[c] # <<>>)
         /\ \A u \in Descriptors :
              /\ users'[u].buf = IF u = d THEN inbox[c] ELSE users[u].buf
              /\ users'[u].write_buf = IF /\ inbox[c] # <<>> /\ u # d
                                         /\ \E k \in 1 .. Len(fds) : fds[k].fd = u
                                      THEN d ELSE users[u].write_buf
<1> DEFINE some == inbox[c] # <<>>
           told == {fds[k].fd : k \in Others(d)}
           new(k) == [fds[k] EXCEPT !.out = @ \/ (k \in Others(d) /\ some)]
           rec(u) == [write_buf |-> IF u \in told /\ some THEN d ELSE users[u].write_buf,
                      buf |-> IF u = d THEN inbox[c] ELSE users[u].buf]
<1>1. /\ inbox' = [inbox EXCEPT ![c] = <<>>]
      /\ users' = [u \in Descriptors |-> rec(u)]
      /\ fds' = [k \in 1 .. Len(fds) |-> new(k)]
  BY DEF Read, user_counter
<1>2. Len(fds) \in Nat /\ i \in 1 .. Len(fds)
  BY Indices DEF Read, Readable
<1>3. d \in Descriptors /\ d \in Nat /\ c \in Here /\ c \in Clients /\ fd[c] = d /\ ClientKinds
  BY <1>2, EntryKind, OwnerOf DEF Good, Kinds
<1>4. \A k \in 1 .. Len(fds) : k \in Others(d) <=> fds[k].fd # d
  BY DEF Others, user_counter
<1>5. \A u : u \in told <=> u # d /\ \E k \in 1 .. Len(fds) : fds[k].fd = u
  BY DEF Others, user_counter
<1>6. ASSUME NEW k \in 1 .. Len(fds)
      PROVE  /\ new(k) \in Entries /\ new(k).fd = fds[k].fd /\ new(k).revents = fds[k].revents
             /\ new(k).out <=> fds[k].out \/ (k \in Others(d) /\ some)
  <2>1. fds[k] \in Entries
    BY EntryKind DEF Good, Kinds
  <2>2. (fds[k].out \/ (k \in Others(d) /\ some)) \in BOOLEAN
    BY <2>1 DEF Entries
  <2> HIDE DEF some
  <2> QED  BY <2>1, <2>2 DEF Entries
<1>7. ASSUME NEW u \in Descriptors
      PROVE  /\ rec(u) \in Records
             /\ rec(u).buf = IF u = d THEN inbox[c] ELSE users[u].buf
             /\ rec(u).write_buf = IF u \in told /\ some THEN d ELSE users[u].write_buf
  <2>1. users[u] \in Records /\ inbox[c] \in Seq(Messages)
    BY <1>3 DEF ClientKinds
  <2> HIDE DEF told, some
  <2> QED  BY <1>3, <2>1 DEF Records
<1> HIDE DEF new, rec
<1>8. fds' \in Seq(Entries) /\ Len(fds') = Len(fds) /\ \A k \in 1 .. Len(fds) : fds'[k] = new(k)
  BY <1>1, <1>2, <1>6
<1>9. users' \in [Descriptors -> Records] /\ \A u \in Descriptors : users'[u] = rec(u)
  BY <1>1, <1>7
<1> HIDE DEF told
<1>10. ASSUME NEW u \in Descriptors
       PROVE  /\ users'[u].buf = IF u = d THEN inbox[c] ELSE users[u].buf
              /\ users'[u].write_buf = IF /\ inbox[c] # <<>> /\ u # d
                                         /\ \E k \in 1 .. Len(fds) : fds[k].fd = u
                                      THEN d ELSE users[u].write_buf
  BY <1>5, <1>7, <1>9
<1>11. ASSUME NEW k \in 1 .. Len(fds)
       PROVE  /\ fds'[k].fd = fds[k].fd /\ fds'[k].revents = fds[k].revents
              /\ fds'[k].out <=> fds[k].out \/ (fds[k].fd # d /\ inbox[c] # <<>>)
  BY <1>4, <1>6, <1>8
<1> QED  BY <1>1, <1>2, <1>3, <1>8, <1>9, <1>10, <1>11

LEMMA ReadGood == ASSUME Good, Read PROVE Good'
<1>1. PICK d, c : d = fds[i].fd /\ c = Owner(d)
  OBVIOUS
<1>2. /\ d \in Descriptors /\ c \in Here /\ inbox' = [inbox EXCEPT ![c] = <<>>]
      /\ fds' \in Seq(Entries) /\ Len(fds') = Len(fds) /\ users' \in [Descriptors -> Records]
  BY <1>1, ReadEffect
<1>3. i' \in 0 .. Len(fds) + 1 /\ UNCHANGED <<fd, state, sent>>
  BY Indices DEF Read, Readable
<1>4. d # Uninit
  BY <1>2, Limit DEF Descriptors, Uninit
<1>5. ASSUME NEW k \in 1 .. Len(fds), fds'[k].out
      PROVE  users'[fds[k].fd].write_buf # Uninit
  <2>1. fds[k].fd \in Descriptors
    BY EntryKind DEF Good, Kinds
  <2>2. fds[k].out \/ (fds[k].fd # d /\ inbox[c] # <<>>)
    BY <1>1, <1>5, ReadEffect
  <2>3. users'[fds[k].fd].write_buf =
          IF inbox[c] # <<>> /\ fds[k].fd # d THEN d ELSE users[fds[k].fd].write_buf
    BY <1>1, <2>1, ReadEffect
  <2> QED  BY <1>4, <2>2, <2>3 DEF Good, Told
<1>6. inbox' \in [Clients -> Seq(Messages)]
  BY <1>2 DEF Good, Kinds, ClientKinds, Here
<1>7. \A k \in 1 .. Len(fds) : fds'[k].fd = fds[k].fd
  BY <1>1, ReadEffect
<1> QED  BY <1>2, <1>3, <1>5, <1>6, <1>7, EntriesKept

(* The connection of an entry ends, or has its error cleared: it is still
   one the server has open. *)
LEMMA StillHere ==
  ASSUME Good, NEW c \in Here, NEW s \in {"in", "gone", "reset"}, state' = [state EXCEPT ![c] = s]
  PROVE  Here' = Here /\ state' \in [Clients -> CStates]
<1>1. state \in [Clients -> CStates] /\ c \in Clients /\ s \in CStates
  BY DEF Good, Kinds, ClientKinds, Here, CStates
<1> QED  BY <1>1 DEF Here

(* What Write does, for the entry with descriptor d of client c. *)
Grows(c, q) == outbox' = [outbox EXCEPT ![c] = outbox[c] \o q]

SendsTo(d, c, from) ==
  /\ Entry("OUT") /\ i \in 1 .. Len(fds)
  /\ d = fds[i].fd /\ d \in Descriptors /\ from = users[d].write_buf
  /\ c \in Here /\ fd[c] = d
  /\ UNCHANGED outbox \/ (from # NULL /\ Grows(c, users[from].buf))
  /\ users' \in [Descriptors -> Records]
  /\ \A u \in Descriptors :
       /\ users'[u].buf = users[u].buf
       /\ users'[u].write_buf = IF u = d THEN NULL ELSE users[u].write_buf
  /\ i' = i + 1 /\ Here' = Here /\ state' \in [Clients -> CStates]
  /\ UNCHANGED <<got, fds, fd, sent, inbox>>

LEMMA WriteEffect == ASSUME Good, Write PROVE \E d, c, from : SendsTo(d, c, from)
<1> DEFINE d == fds[i].fd
           c == Owner(d)
           from == users[d].write_buf
           r == [users[d] EXCEPT !.write_buf = NULL]
           s == IF from # NULL /\ state[c] = "reset" THEN "gone" ELSE state[c]
<1>1. outbox' = IF from = NULL \/ (from # NULL /\ state[c] = "reset") THEN outbox
                ELSE [outbox EXCEPT ![c] = outbox[c] \o users[from].buf]
  BY DEF Write
<1>2. /\ users' = [users EXCEPT ![d] = r] /\ Entry("OUT")
      /\ state' = [state EXCEPT ![c] = s] /\ i' = i + 1
      /\ UNCHANGED <<got, fds, fd, sent, inbox>>
  BY DEF Write
<1>3. i \in 1 .. Len(fds)
  BY <1>2, Indices
<1>4. c \in Here /\ fd[c] = d /\ d \in Descriptors /\ ClientKinds
  BY <1>3, EntryKind, OwnerOf DEF Good, Kinds
<1>5. users \in [Descriptors -> Records] /\ users[d] \in Records
  BY <1>4 DEF ClientKinds
<1>6. r \in Records /\ r.write_buf = NULL /\ r.buf = users[d].buf
  BY <1>5 DEF Records, NULL
<1>7. d = fds[i].fd /\ from = users[d].write_buf
  OBVIOUS
<1>8. s \in {"in", "gone", "reset"}
  BY <1>4 DEF Here
<1> HIDE DEF r, c, d, from, s
<1>9. Here' = Here /\ state' \in [Clients -> CStates]
  BY <1>2, <1>4, <1>8, StillHere
<1>10. /\ users' \in [Descriptors -> Records]
      /\ \A u \in Descriptors :
           /\ users'[u].buf = users[u].buf
           /\ users'[u].write_buf = IF u = d THEN NULL ELSE users[u].write_buf
  BY <1>2, <1>4, <1>5, <1>6
<1>11. UNCHANGED outbox \/ (from # NULL /\ Grows(c, users[from].buf))
  <2>1. CASE from = NULL \/ state[c] = "reset"
    BY <1>1, <2>1
  <2>2. CASE ~(from = NULL \/ state[c] = "reset")
    BY <1>1, <2>2 DEF Grows
  <2> QED  BY <2>1, <2>2
<1>12. SendsTo(d, c, from)
  BY <1>2, <1>3, <1>4, <1>7, <1>9, <1>10, <1>11, Zenon DEF SendsTo
<1> QED  BY <1>12

LEMMA WriteGood == ASSUME Good, Write PROVE Good'
<1>1. PICK d, c, from : SendsTo(d, c, from)
  BY WriteEffect
<1>2. /\ i \in 1 .. Len(fds) /\ i' = i + 1 /\ UNCHANGED <<fd, sent, inbox, fds>>
      /\ Here' = Here /\ state' \in [Clients -> CStates] /\ users' \in [Descriptors -> Records]
      /\ \A u \in Descriptors : users'[u].write_buf \in {NULL, users[u].write_buf}
  BY <1>1 DEF SendsTo
<1>3. i' \in 0 .. Len(fds) + 1
  BY <1>2, Indices
<1>4. Kinds'
  BY <1>2, <1>3 DEF Good, Kinds, ClientKinds, TableKinds
<1>5. Table'
  BY <1>2, TableKept DEF Good
<1>6. ASSUME NEW k \in 1 .. Len(fds), fds[k].out PROVE users'[fds[k].fd].write_buf # Uninit
  <2>1. fds[k].fd \in Descriptors
    BY EntryKind DEF Good, Kinds
  <2>2. users[fds[k].fd].write_buf # Uninit
    BY <1>6 DEF Good, Told
  <2>3. NULL # Uninit
    BY DEF NULL, Uninit
  <2> QED  BY <1>2, <2>1, <2>2, <2>3
<1>7. Told'
  BY <1>2, <1>6 DEF Told, Uninit
<1> QED  BY <1>4, <1>5, <1>7 DEF Good

LEMMA ClearGood == ASSUME Good, ClearError PROVE Good'
<1> DEFINE c == Owner(fds[i].fd)
<1>1. state' = [state EXCEPT ![c] = "gone"] /\ i' = i + 1 /\ UNCHANGED <<fd, sent, inbox, fds, users>>
  BY DEF ClearError
<1>2. i \in 1 .. Len(fds) /\ i' \in 0 .. Len(fds) + 1
  BY <1>1, Indices DEF ClearError
<1>3. c \in Here
  BY <1>2, OwnerOf DEF Good
<1> HIDE DEF c
<1>4. Here' = Here /\ state' \in [Clients -> CStates]
  BY <1>1, <1>3, StillHere
<1> QED  BY <1>1, <1>2, <1>4, GoodKept DEF Good, Kinds, ClientKinds

LEMMA AcceptGood == ASSUME Good, Accept PROVE Good'
<1> DEFINE K == 1 .. Len(fds)
           d == Min(Descriptors \ {fds[k].fd : k \in K})
<1>1. PICK c \in Calling :
        IF Len(fds) >= UserLimit
          THEN state' = [state EXCEPT ![c] = "over"] /\ UNCHANGED <<fd, fds>>
          ELSE /\ state' = [state EXCEPT ![c] = "in"]
               /\ fd' = [fd EXCEPT ![c] = d]
               /\ fds' = Append(fds, [fd |-> d, out |-> FALSE, revents |-> {}])
  BY DEF Accept, user_counter
<1>2. i' = 1 /\ UNCHANGED <<sent, inbox, users>>
  BY DEF Accept
<1>3. Len(fds) \in Nat /\ ClientKinds /\ TableKinds /\ c \in Clients /\ c \notin Here
      /\ UserLimit \in Nat
  BY Indices, Limit DEF Good, Kinds, Calling, Here
<1> HIDE DEF d
<1>4. CASE Len(fds) >= UserLimit
  <2>1. state' = [state EXCEPT ![c] = "over"] /\ UNCHANGED <<fd, fds>>
    BY <1>1, <1>4
  <2>2. Here' = Here /\ state' \in [Clients -> CStates]
    BY <1>3, <2>1 DEF ClientKinds, CStates, Here
  <2>3. i' \in 0 .. Len(fds) + 1
    BY <1>2, <1>3
  <2> QED  BY <1>2, <1>3, <2>1, <2>2, <2>3, GoodKept DEF ClientKinds
<1>5. CASE Len(fds) < UserLimit
  <2> DEFINE e == [fd |-> d, out |-> FALSE, revents |-> {}]
             n == Len(fds) + 1
  <2>1. /\ state' = [state EXCEPT ![c] = "in"] /\ fd' = [fd EXCEPT ![c] = d]
        /\ fds' = Append(fds, e)
    BY <1>1, <1>3, <1>5
  <2>2. d \in Descriptors /\ \A k \in K : fds[k].fd # d
    BY <1>3, <1>5, FreeDescriptor DEF d
  <2>3. d \in Int /\ e \in Entries /\ e.fd = d /\ e.out = FALSE
    BY <2>2, Limit DEF Entries, Descriptors
  <2> HIDE DEF e
  <2>4. /\ fds' \in Seq(Entries) /\ Len(fds') = n /\ fds'[n] = e
        /\ \A k \in K : fds'[k] = fds[k]
    BY <1>3, <2>1, <2>3 DEF TableKinds
  <2>5. 1 .. n = K \cup {n} /\ n \notin K /\ n <= UserLimit /\ n \in Nat
    BY <1>3, <1>5
  <2>6. Here' = Here \cup {c} /\ fd'[c] = d /\ \A b \in Here : fd'[b] = fd[b]
    BY <1>3, <2>1 DEF ClientKinds, Here
  <2>7. Kinds'
    <3>1. ClientKinds'
      BY <1>2, <1>3, <2>1, <2>3 DEF ClientKinds, CStates
    <3>2. i' \in 0 .. n + 1
      BY <1>2, <2>5
    <3> QED  BY <2>4, <3>1, <3>2 DEF Kinds, TableKinds
  <2> HIDE DEF n, K
  <2>8. Table'
    <3>1. \A b \in Here : fd[b] # d
      BY <2>2 DEF Good, Table, K
    <3>2. \A k, l \in 1 .. n : fds'[k].fd = fds'[l].fd => k = l
      BY <2>2, <2>3, <2>4, <2>5 DEF Good, Table, K
    <3>3. \A k \in 1 .. n : \E b \in Here' : fd'[b] = fds'[k].fd
      BY <2>3, <2>4, <2>5, <2>6 DEF Good, Table, K
    <3>4. \A b \in Here' : \E k \in 1 .. n : fds'[k].fd = fd'[b]
      <4>1. ASSUME NEW b \in Here PROVE \E k \in K : fds[k].fd = fd[b]
        BY DEF Good, Table, K
      <4> QED  BY <2>3, <2>4, <2>5, <2>6, <4>1
    <3>5. \A a, b \in Here' : fd'[a] = fd'[b] => a = b
      BY <2>6, <3>1 DEF Good, Table
    <3> QED  BY <2>4, <2>5, <3>2, <3>3, <3>4, <3>5 DEF Table
  <2>9. Told'
    <3>1. ASSUME NEW k \in 1 .. n, fds'[k].out PROVE users[fds'[k].fd].write_buf # Uninit
      <4>1. k \in K
        BY <2>3, <2>4, <2>5, <3>1
      <4>2. fds'[k] = fds[k]
        BY <2>4, <4>1
      <4> QED  BY <3>1, <4>1, <4>2 DEF Good, Told, K
    <3> QED  BY <1>2, <2>4, <3>1 DEF Told, Uninit
  <2> QED  BY <2>7, <2>8, <2>9 DEF Good
<1> QED  BY <1>3, <1>4, <1>5

LEMMA NextGood == Good /\ [Next]_vars => Good'
<1> SUFFICES ASSUME Good, [Next]_vars PROVE Good'
  OBVIOUS
<1>1. CASE Fail \/ Quiet \/ UNCHANGED vars \/ Skip
  <2>1. UNCHANGED <<state, sent, inbox, fd, fds, users>>
    BY <1>1 DEF Fail, Quiet, Skip, vars, clientVars
  <2>2. i' \in 0 .. Len(fds) + 1
    <3>1. Len(fds) \in Nat /\ i \in 0 .. Len(fds) + 1
      BY Indices
    <3>2. CASE Fail \/ Quiet \/ UNCHANGED vars
      BY <3>1, <3>2 DEF Fail, Quiet, vars
    <3>3. CASE Skip
      BY <3>1, <3>3 DEF Skip, user_counter
    <3> QED  BY <1>1, <3>2, <3>3
  <2>3. Here' = Here
    BY <2>1 DEF Here
  <2> QED  BY <2>1, <2>2, <2>3, GoodKept DEF Good, Kinds, ClientKinds
<1>2. CASE Departed \/ ReadFails
  <2>1. RemoveUser /\ i \in 1 .. Len(fds)
    BY <1>2, Indices DEF Departed, ReadFails, Readable
  <2> QED  BY <2>1, RemoveKeeps DEF Good
<1> QED  BY <1>1, <1>2, ClientGood, PollGood, AcceptGood, ClearGood, ReadGood, WriteGood
         DEF Next, ServerStep

(* No two connections share a descriptor. *)
LEMMA HereCounted ==
  ASSUME Good
  PROVE  Cardinality({fd[c] : c \in Here}) = Cardinality(Here)
<1> DEFINE T == {fd[c] : c \in Here}
           f == [c \in Here |-> fd[c]]
<1>1. IsFiniteSet(Here)
  BY ClientsAssumption, FS_Subset DEF Here
<1>2. f \in [Here -> T] /\ (\A a, b \in Here : f[a] = f[b] => a = b)
      /\ \A t \in T : \E c \in Here : f[c] = t
  BY DEF Good, Table
<1> HIDE DEF T, f
<1>3. f \in Injection(Here, T) /\ f \in Surjection(Here, T)
  BY <1>2, Fun_IsInj, Fun_IsSurj
<1>4. Cardinality(T) = Cardinality(Here)
  BY <1>1, <1>3, FS_Surjection
<1> QED  BY <1>4 DEF T

(* The table of the server holds exactly the open connections, each once,
   in every state between two turns of its loop; it never has more than
   USER_LIMIN entries, a descriptor accept hands out is nobody else's, and
   POLLOUT is asked for only where write_buf was set. *)
THEOREM TableExactHolds == Spec => []TableExact
<1>1. Good => TableExact
  <2> SUFFICES ASSUME Good PROVE TableExact
    OBVIOUS
  <2>1. Table /\ Told
    BY DEF Good
  <2>2. {fds[k].fd : k \in 1 .. user_counter} = {fd[c] : c \in Here}
    BY <2>1 DEF Table, user_counter
  <2>3. /\ user_counter <= UserLimit
        /\ \A k, l \in 1 .. user_counter : fds[k].fd = fds[l].fd => k = l
    BY <2>1 DEF Table, user_counter
  <2>4. \A k \in 1 .. user_counter : fds[k].out => users[fds[k].fd].write_buf # Uninit
    BY <2>1 DEF Told, user_counter
  <2> QED  BY <2>2, <2>3, <2>4, HereCounted DEF TableExact
<1>2. Init => Good
  BY InitInv DEF Good
<1> QED  BY <1>1, <1>2, NextGood, PTL DEF Spec

-----------------------------------------------------------------------------
(* The order of messages.  First, what poll may report, where write_buf may *)
(* point, and what a client is sent.                                        *)

Boxes ==
  /\ got \in [Clients -> Seq(Messages)] /\ outbox \in [Clients -> Seq(Messages)]
  /\ \A d \in Descriptors : users[d].write_buf \in {NULL, Uninit} \cup Descriptors
  /\ \A k \in 1 .. Len(fds) : "OUT" \in fds[k].revents => fds[k].out

LEMMA InitBoxes == Init => Boxes
BY DEF Init, Boxes

(* The buffer a user with POLLOUT reported is sent. *)
LEMMA Sendable ==
  ASSUME Good, Boxes, Entry("OUT")
  PROVE  LET from == users[fds[i].fd].write_buf
         IN  from # NULL => from \in Descriptors /\ users[from].buf \in Seq(Messages)
<1>1. i \in 1 .. Len(fds)
  BY Indices
<1>2. fds[i].fd \in Descriptors /\ "OUT" \in fds[i].revents
  BY <1>1, EntryKind DEF Entry, Good, Kinds
<1>3. users[fds[i].fd].write_buf # Uninit
  BY <1>1, <1>2 DEF Boxes, Good, Told
<1>4. \A d \in Descriptors : users[d].buf \in Seq(Messages)
  BY DEF Good, Kinds, ClientKinds, Records
<1> QED  BY <1>2, <1>3, <1>4 DEF Boxes

LEMMA BoxesKept ==
  ASSUME Boxes, UNCHANGED <<got, outbox, users, fds>>
  PROVE  Boxes'
BY DEF Boxes, NULL, Uninit, Descriptors

LEMMA BoxesAgain ==
  ASSUME got' \in [Clients -> Seq(Messages)], outbox' \in [Clients -> Seq(Messages)],
         \A d \in Descriptors : users'[d].write_buf \in {NULL, Uninit} \cup Descriptors,
         \A k \in 1 .. Len(fds') : "OUT" \in fds'[k].revents => fds'[k].out
  PROVE  Boxes'
BY DEF Boxes, NULL, Uninit, Descriptors

LEMMA NextBoxes == Good /\ Boxes /\ [Next]_vars => Boxes'
<1> SUFFICES ASSUME Good, Boxes, [Next]_vars PROVE Boxes'
  OBVIOUS
<1>1. ASSUME NEW c \in Clients, Connect(c) \/ Type(c) \/ Leave(c) PROVE Boxes'
  BY <1>1, BoxesKept DEF Connect, Type, Leave
<1>2. CASE Fail \/ Quiet \/ UNCHANGED vars \/ Skip \/ ClearError
  BY <1>2, BoxesKept DEF Fail, Quiet, Skip, ClearError, vars, clientVars
<1>3. ASSUME NEW c \in Clients, PrintReceived(c) PROVE Boxes'
  <2>1. got[c] \o outbox[c] \in Seq(Messages) /\ <<>> \in Seq(Messages)
    BY ConcatProperties DEF Boxes
  <2>2. got' \in [Clients -> Seq(Messages)] /\ outbox' \in [Clients -> Seq(Messages)]
    BY <1>3, <2>1 DEF PrintReceived, Boxes
  <2> QED  BY <1>3, <2>2, BoxesAgain DEF PrintReceived, Boxes
<1>4. CASE Poll
  <2>1. /\ fds' = [k \in 1 .. Len(fds) |-> [fds[k] EXCEPT !.revents = EventsOf(fds[k])]]
        /\ UNCHANGED <<got, outbox, users>>
    BY <1>4 DEF Poll, clientVars, user_counter
  <2>2. Len(fds) \in Nat
    BY Indices
  <2>3. Len(fds') = Len(fds)
    BY <2>1, <2>2
  <2>4. ASSUME NEW k \in 1 .. Len(fds'), "OUT" \in fds'[k].revents PROVE fds'[k].out
    <3>1. fds[k] \in Entries /\ fds'[k] = [fds[k] EXCEPT !.revents = EventsOf(fds[k])]
      BY <2>1, <2>3, EntryKind DEF Good, Kinds
    <3>2. fds'[k].revents = EventsOf(fds[k]) /\ fds'[k].out = fds[k].out
      BY <3>1 DEF Entries
    <3> QED  BY <2>4, <3>2 DEF EventsOf
  <2> QED  BY <2>1, <2>4, BoxesAgain DEF Boxes
<1>5. CASE Accept
  <2>1. /\ UNCHANGED <<got, outbox, users>>
        /\ \/ fds' = fds
           \/ \E d : fds' = Append(fds, [fd |-> d, out |-> FALSE, revents |-> {}])
    BY <1>5 DEF Accept
  <2>2. fds \in Seq(Entries) /\ Len(fds) \in Nat
    BY DEF Good, Kinds, TableKinds
  <2>3. CASE fds' = fds
    BY <2>1, <2>3, BoxesKept
  <2>4. ASSUME NEW d, fds' = Append(fds, [fd |-> d, out |-> FALSE, revents |-> {}])
        PROVE  \A k \in 1 .. Len(fds') : "OUT" \in fds'[k].revents => fds'[k].out
    <3> DEFINE e == [fd |-> d, out |-> FALSE, revents |-> {}]
    <3>1. e.revents = {}
      OBVIOUS
    <3> HIDE DEF e
    <3>2. \A k \in 1 .. Len(fds') : (k \in 1 .. Len(fds) /\ fds'[k] = fds[k]) \/ fds'[k] = e
      BY <2>2, <2>4 DEF e
    <3> QED  BY <3>1, <3>2 DEF Boxes
  <2> QED  BY <2>1, <2>3, <2>4, BoxesAgain DEF Boxes
<1>6. CASE Departed \/ ReadFails
  <2>1. RemoveUser /\ i \in 1 .. Len(fds)
    BY <1>6, Indices DEF Departed, ReadFails, Readable
  <2>2. /\ \A k \in 1 .. Len(fds') : fds'[k] = fds[Moved(k)] /\ Moved(k) \in 1 .. Len(fds)
        /\ Len(fds) \in 1 .. Len(fds)
    BY <2>1, MovedTable, Indices DEF Good
  <2>3. users' = [users EXCEPT ![fds[i].fd] = users[fds[Len(fds)].fd]] /\ UNCHANGED <<got, outbox>>
    BY <2>1 DEF RemoveUser, user_counter
  <2>4. fds[Len(fds)].fd \in Descriptors
    BY <2>2, EntryKind DEF Good, Kinds
  <2>5. \A d \in Descriptors : users'[d] = users[d] \/ users'[d] = users[fds[Len(fds)].fd]
    BY <2>3 DEF Good, Kinds, ClientKinds
  <2>6. \A d \in Descriptors : users'[d].write_buf \in {NULL, Uninit} \cup Descriptors
    BY <2>4, <2>5 DEF Boxes
  <2>7. \A k \in 1 .. Len(fds') : "OUT" \in fds'[k].revents => fds'[k].out
    BY <2>2 DEF Boxes
  <2> QED  BY <2>3, <2>6, <2>7, BoxesAgain DEF Boxes
<1>7. CASE Write
  <2>1. PICK d, c, from : SendsTo(d, c, from)
    BY <1>7, WriteEffect
  <2>2. /\ c \in Clients /\ Entry("OUT") /\ UNCHANGED <<got, fds>>
        /\ d = fds[i].fd /\ from = users[d].write_buf
        /\ UNCHANGED outbox \/ (from # NULL /\ Grows(c, users[from].buf))
    BY <2>1 DEF SendsTo, Here
  <2>3. from # NULL => users[from].buf \in Seq(Messages)
    BY <2>2, Sendable
  <2>4. ASSUME from # NULL PROVE outbox[c] \o users[from].buf \in Seq(Messages)
    <3>1. outbox[c] \in Seq(Messages) /\ users[from].buf \in Seq(Messages)
      BY <2>2, <2>3, <2>4 DEF Boxes
    <3> QED  BY <3>1, ConcatProperties
  <2>5. outbox' \in [Clients -> Seq(Messages)]
    <3>1. CASE UNCHANGED outbox
      BY <3>1 DEF Boxes
    <3>2. CASE from # NULL /\ Grows(c, users[from].buf)
      <4>1. \E q \in Seq(Messages) : outbox' = [outbox EXCEPT ![c] = q]
        BY <2>4, <3>2 DEF Grows
      <4> QED  BY <4>1 DEF Boxes
    <3> QED  BY <2>2, <3>1, <3>2
  <2>6. \A u \in Descriptors : users'[u].write_buf \in {NULL, users[u].write_buf}
    BY <2>1 DEF SendsTo
  <2>7. \A u \in Descriptors : users'[u].write_buf \in {NULL, Uninit} \cup Descriptors
    BY <2>6 DEF Boxes
  <2> QED  BY <2>2, <2>5, <2>7, BoxesAgain DEF Boxes
<1>8. CASE Read
  <2>1. PICK d, c : d = fds[i].fd /\ c = Owner(d)
    OBVIOUS
  <2>2. d \in Descriptors /\ Len(fds') = Len(fds)
    BY <1>8, <2>1, ReadEffect
  <2>3. \A u \in Descriptors : users'[u].write_buf \in {d, users[u].write_buf}
    BY <1>8, <2>1, ReadEffect
  <2>4. \A k \in 1 .. Len(fds) : fds'[k].revents = fds[k].revents /\ (fds[k].out => fds'[k].out)
    BY <1>8, <2>1, ReadEffect
  <2>5. UNCHANGED <<got, outbox>>
    BY <1>8 DEF Read
  <2> QED  BY <2>2, <2>3, <2>4, <2>5, BoxesAgain DEF Boxes
<1> QED  BY <1>1, <1>2, <1>3, <1>4, <1>5, <1>6, <1>7, <1>8 DEF Next, ServerStep, ClientStep

-----------------------------------------------------------------------------
(* As long as nobody has left: the messages of one client pass through its  *)
(* inbox, the buffer of its descriptor and what the others are sent, and at *)
(* every point the ones ahead are older.                                    *)

Rising(q)    == \A a, b \in 1 .. Len(q) : a < b /\ q[a][1] = q[b][1] => q[a][2] < q[b][2]
Before(q, p) == \A m \in ToSet(q), n \in ToSet(p) : m[1] = n[1] => m[2] < n[2]
All(c)       == got[c] \o outbox[c]
Complete     == \A c \in Clients : state[c] \in {"new", "calling", "in"}

InboxOrder ==
  \A c \in Clients : Rising(inbox[c]) /\ \A m \in ToSet(inbox[c]) : m[1] = c /\ m[2] <= sent[c]

\* A buffer holds messages of the owner of its descriptor.
BufferOrder ==
  \A d \in Descriptors :
    /\ Rising(users[d].buf)
    /\ \A m \in ToSet(users[d].buf) : m[1] \in Here /\ fd[m[1]] = d /\ m[2] <= sent[m[1]]

PrintOrder ==
  \A c \in Clients : Rising(All(c)) /\ \A m \in ToSet(All(c)) : m[1] # c /\ m[2] <= sent[m[1]]

ReadBefore == \A c \in Here : Before(users[fd[c]].buf, inbox[c])

SentBefore == \A r, c \in Clients : Before(All(r), inbox[c])

\* What write_buf points to is another's, and newer than all the user was sent.
Pointed ==
  \A r \in Here : \A d \in Descriptors :
    users[fd[r]].write_buf = d => d # fd[r] /\ Before(All(r), users[d].buf)

Unowned == \A d \in Descriptors : (\A c \in Here : fd[c] # d) => users[d].write_buf = Uninit

Order ==
  /\ InboxOrder /\ BufferOrder /\ PrintOrder
  /\ ReadBefore /\ SentBefore /\ Pointed /\ Unowned

LEMMA Members ==
  ASSUME NEW q \in Seq(Messages)
  PROVE  /\ \A m : m \in ToSet(q) <=> \E a \in 1 .. Len(q) : q[a] = m
         /\ \A m \in ToSet(q) : m[1] \in Clients /\ m[2] \in Nat
<1>1. \A m : m \in ToSet(q) <=> \E a \in 1 .. Len(q) : q[a] = m
  BY DEF ToSet
<1>2. \A a \in 1 .. Len(q) : q[a] \in Messages
  OBVIOUS
<1> QED  BY <1>1, <1>2 DEF Messages

LEMMA NoMembers == ToSet(<<>>) = {} /\ Rising(<<>>)
BY DEF ToSet, Rising

(* One sequence of messages after another. *)
LEMMA Join ==
  ASSUME NEW q \in Seq(Messages), NEW p \in Seq(Messages)
  PROVE  /\ q \o p \in Seq(Messages)
         /\ \A m : m \in ToSet(q \o p) <=> m \in ToSet(q) \/ m \in ToSet(p)
         /\ Rising(q) /\ Rising(p) /\ Before(q, p) => Rising(q \o p)
<1> DEFINE w == q \o p
<1>1. /\ w \in Seq(Messages) /\ Len(w) = Len(q) + Len(p) /\ Len(q) \in Nat /\ Len(p) \in Nat
      /\ \A a \in 1 .. Len(w) : w[a] = IF a <= Len(q) THEN q[a] ELSE p[a - Len(q)]
  BY ConcatProperties
<1> HIDE DEF w
<1>2. ASSUME NEW m PROVE m \in ToSet(w) <=> m \in ToSet(q) \/ m \in ToSet(p)
  <2>1. ASSUME NEW a \in 1 .. Len(w)
        PROVE  (\E b \in 1 .. Len(q) : q[b] = w[a]) \/ (\E b \in 1 .. Len(p) : p[b] = w[a])
    <3>1. CASE a <= Len(q)
      BY <1>1, <3>1
    <3>2. CASE a > Len(q)
      <4>1. a - Len(q) \in 1 .. Len(p) /\ w[a] = p[a - Len(q)]
        BY <1>1, <3>2
      <4> QED  BY <4>1
    <3> QED  BY <1>1, <3>1, <3>2
  <2>2. ASSUME NEW b \in 1 .. Len(q) PROVE b \in 1 .. Len(w) /\ w[b] = q[b]
    BY <1>1
  <2>3. ASSUME NEW b \in 1 .. Len(p) PROVE Len(q) + b \in 1 .. Len(w) /\ w[Len(q) + b] = p[b]
    <3> DEFINE a == Len(q) + b
    <3>1. a \in 1 .. Len(w) /\ ~(a <= Len(q)) /\ a - Len(q) = b
      BY <1>1
    <3> HIDE DEF a
    <3>2. w[a] = p[b]
      BY <1>1, <3>1
    <3> QED  BY <3>1, <3>2 DEF a
  <2>4. /\ m \in ToSet(w) <=> \E a \in 1 .. Len(w) : w[a] = m
        /\ m \in ToSet(q) <=> \E a \in 1 .. Len(q) : q[a] = m
        /\ m \in ToSet(p) <=> \E a \in 1 .. Len(p) : p[a] = m
    BY <1>1, Members
  <2>5. ASSUME m \in ToSet(w) PROVE m \in ToSet(q) \/ m \in ToSet(p)
    BY <2>1, <2>4, <2>5
  <2>6. ASSUME m \in ToSet(q) \/ m \in ToSet(p) PROVE m \in ToSet(w)
    <3>1. CASE m \in ToSet(q)
      BY <2>2, <2>4, <3>1
    <3>2. CASE m \in ToSet(p)
      <4>1. PICK b \in 1 .. Len(p) : p[b] = m
        BY <2>4, <3>2
      <4> QED  BY <2>3, <2>4, <4>1
    <3> QED  BY <2>6, <3>1, <3>2
  <2> QED  BY <2>5, <2>6
<1>3. ASSUME Rising(q), Rising(p), Before(q, p) PROVE Rising(w)
  <2> SUFFICES ASSUME NEW a \in 1 .. Len(w), NEW b \in 1 .. Len(w), a < b, w[a][1] = w[b][1]
               PROVE  w[a][2] < w[b][2]
    BY DEF Rising
  <2>1. CASE b <= Len(q)
    <3>1. a \in 1 .. Len(q) /\ b \in 1 .. Len(q) /\ w[a] = q[a] /\ w[b] = q[b]
      BY <1>1, <2>1
    <3> QED  BY <1>3, <3>1 DEF Rising
  <2>2. CASE a <= Len(q) /\ b > Len(q)
    <3>1. a \in 1 .. Len(q) /\ b - Len(q) \in 1 .. Len(p) /\ w[a] = q[a] /\ w[b] = p[b - Len(q)]
      BY <1>1, <2>2
    <3>2. w[a] \in ToSet(q) /\ w[b] \in ToSet(p)
      BY <3>1, Members
    <3> QED  BY <1>3, <3>2 DEF Before
  <2>3. CASE a > Len(q)
    <3> DEFINE e == a - Len(q)
               f == b - Len(q)
    <3>1. e \in 1 .. Len(p) /\ f \in 1 .. Len(p) /\ e < f /\ w[a] = p[e] /\ w[b] = p[f]
      BY <1>1, <2>3
    <3> HIDE DEF e, f
    <3> QED  BY <1>3, <3>1 DEF Rising
  <2> QED  BY <1>1, <2>1, <2>2, <2>3
<1> QED  BY <1>1, <1>2, <1>3 DEF w

LEMMA SeqKinds ==
  ASSUME Good, Boxes
  PROVE  /\ \A c \in Clients : /\ got[c] \in Seq(Messages) /\ outbox[c] \in Seq(Messages)
                               /\ inbox[c] \in Seq(Messages) /\ All(c) \in Seq(Messages)
                               /\ sent[c] \in Nat
         /\ \A d \in Descriptors : users[d].buf \in Seq(Messages)
         /\ \A c \in Here : c \in Clients /\ fd[c] \in Descriptors
<1>1. ClientKinds
  BY DEF Good, Kinds
<1>2. \A c \in Clients : got[c] \in Seq(Messages) /\ outbox[c] \in Seq(Messages)
  BY DEF Boxes
<1>3. \A c \in Clients : All(c) \in Seq(Messages)
  BY <1>2, ConcatProperties DEF All
<1>4. \A d \in Descriptors : users[d].buf \in Seq(Messages)
  BY <1>1 DEF ClientKinds, Records
<1>5. \A k \in 1 .. Len(fds) : fds[k].fd \in Descriptors
  BY EntryKind DEF Good, Kinds
<1>6. \A c \in Here : c \in Clients /\ fd[c] \in Descriptors
  BY <1>5 DEF Good, Table, Here
<1> QED  BY <1>1, <1>2, <1>3, <1>4, <1>6 DEF ClientKinds

LEMMA InitOrder == Init => Order
<1> SUFFICES ASSUME Init PROVE Order
  OBVIOUS
<1>1. /\ \A c \in Clients : inbox[c] = <<>> /\ got[c] = <<>> /\ outbox[c] = <<>>
      /\ \A d \in Descriptors : users[d].buf = <<>> /\ users[d].write_buf = Uninit
      /\ Here = {}
  BY DEF Init, Here
<1>2. \A c \in Clients : All(c) = <<>>
  BY <1>1 DEF All
<1> QED  BY <1>1, <1>2, NoMembers
         DEF Order, InboxOrder, BufferOrder, PrintOrder, ReadBefore, SentBefore, Pointed, Unowned, Before

(* Nothing that is on its way moves, or only from the socket to the screen. *)
LEMMA OrderKept ==
  ASSUME Order, UNCHANGED <<sent, inbox, fd, users>>, Here' = Here,
         \A c \in Clients : All(c)' = All(c)
  PROVE  Order'
<1>1. InboxOrder'
  BY DEF Order, InboxOrder, Rising
<1>2. BufferOrder'
  BY DEF Order, BufferOrder, Rising, Descriptors
<1>3. PrintOrder'
  BY DEF Order, PrintOrder, Rising
<1>4. ReadBefore'
  BY DEF Order, ReadBefore, Before
<1>5. SentBefore'
  BY DEF Order, SentBefore, Before
<1>6. Pointed'
  <2>1. \A r \in Here : r \in Clients
    BY DEF Here
  <2> QED  BY <2>1 DEF Order, Pointed, Before, Descriptors
<1>7. Unowned'
  BY DEF Order, Unowned, Descriptors, Uninit
<1> QED  BY <1>1, <1>2, <1>3, <1>4, <1>5, <1>6, <1>7 DEF Order

LEMMA PrintOrdered ==
  ASSUME Good, Boxes, Order, NEW c \in Clients, PrintReceived(c)
  PROVE  Order'
<1>1. UNCHANGED <<state, sent, inbox, fd, users>>
  BY DEF PrintReceived
<1>2. Here' = Here
  BY <1>1 DEF Here
<1>3. ASSUME NEW b \in Clients PROVE All(b)' = All(b)
  <2>1. got[b] \in Seq(Messages) /\ outbox[b] \in Seq(Messages) /\ All(b) \in Seq(Messages)
    BY SeqKinds
  <2>2. got \in [Clients -> Seq(Messages)] /\ outbox \in [Clients -> Seq(Messages)]
    BY DEF Boxes
  <2>3. CASE b = c
    <3>1. got'[b] = All(b) /\ outbox'[b] = <<>>
      BY <2>2, <2>3 DEF PrintReceived, All
    <3>2. All(b) \o <<>> = All(b)
      BY <2>1, ConcatEmptySeq
    <3>3. All(b)' = got'[b] \o outbox'[b]
      BY DEF All
    <3> QED  BY <3>1, <3>2, <3>3
  <2>4. CASE b # c
    BY <2>2, <2>4 DEF PrintReceived, All
  <2> QED  BY <2>3, <2>4
<1> QED  BY <1>1, <1>2, <1>3, OrderKept

LEMMA TypeOrdered ==
  ASSUME Good, Boxes, Order, NEW c \in Clients, Type(c)
  PROVE  Order'
<1> DEFINE m0 == <<c, sent[c] + 1>>
<1>1. /\ sent' = [sent EXCEPT ![c] = sent[c] + 1]
      /\ inbox' = [inbox EXCEPT ![c] = Append(inbox[c], <<c, sent'[c]>>)]
      /\ UNCHANGED <<state, fd, users, got, outbox>>
  BY DEF Type
<1>2. Here' = Here /\ \A b \in Clients : All(b)' = All(b)
  BY <1>1 DEF Here, All
<1>3. /\ sent \in [Clients -> Nat] /\ inbox \in [Clients -> Seq(Messages)]
      /\ sent'[c] = sent[c] + 1 /\ \A b \in Clients : sent[b] <= sent'[b] /\ sent'[b] \in Nat
  BY <1>1 DEF Good, Kinds, ClientKinds
<1>4. ASSUME NEW b \in Clients, NEW x \in Nat, x <= sent[b] PROVE x <= sent'[b]
  <2>1. sent[b] \in Nat /\ sent'[b] \in Nat /\ sent[b] <= sent'[b]
    BY <1>3
  <2> QED  BY <1>4, <2>1
<1>5. m0 \in Messages /\ m0[1] = c /\ m0[2] = sent[c] + 1 /\ m0 = <<c, sent'[c]>>
  BY <1>3 DEF Messages
<1> HIDE DEF m0
<1>6. inbox'[c] = Append(inbox[c], m0) /\ \A b \in Clients \ {c} : inbox'[b] = inbox[b]
  BY <1>1, <1>3, <1>5
<1>7. /\ inbox[c] \in Seq(Messages) /\ <<m0>> \in Seq(Messages) /\ inbox'[c] = inbox[c] \o <<m0>>
      /\ \A m : m \in ToSet(<<m0>>) <=> m = m0
      /\ Rising(<<m0>>)
  <2>1. inbox[c] \in Seq(Messages) /\ <<m0>> \in Seq(Messages)
    BY <1>3, <1>5
  <2>2. Append(inbox[c], m0) = inbox[c] \o <<m0>>
    BY <1>5, <2>1, AppendIsConcat
  <2>3. Len(<<m0>>) = 1 /\ <<m0>>[1] = m0
    OBVIOUS
  <2>4. \A m : m \in ToSet(<<m0>>) <=> m = m0
    BY <2>1, <2>3, Members
  <2>5. Rising(<<m0>>)
    BY <2>3 DEF Rising
  <2> QED  BY <1>6, <2>1, <2>2, <2>4, <2>5
<1>8. \A m : m \in ToSet(inbox'[c]) <=> m \in ToSet(inbox[c]) \/ m = m0
  <2>1. \A m : m \in ToSet(inbox[c] \o <<m0>>) <=> m \in ToSet(inbox[c]) \/ m \in ToSet(<<m0>>)
    BY <1>7, Join
  <2> QED  BY <1>7, <2>1
<1>9. Rising(inbox'[c])
  <2>1. Before(inbox[c], <<m0>>)
    <3> SUFFICES ASSUME NEW m \in ToSet(inbox[c]) PROVE m[2] < m0[2]
      BY <1>7 DEF Before
    <3>1. m[2] <= sent[c] /\ m[2] \in Nat /\ sent[c] \in Nat
      BY <1>3, <1>7, Members DEF Order, InboxOrder
    <3> QED  BY <1>5, <3>1
  <2>2. Rising(inbox[c])
    BY DEF Order, InboxOrder
  <2> QED  BY <1>7, <2>1, <2>2, Join
<1>10. \A b \in Clients : \A n : n \in ToSet(inbox'[b]) => n \in ToSet(inbox[b]) \/ (b = c /\ n = m0)
  BY <1>6, <1>8
<1>11. ASSUME NEW q \in Seq(Messages), NEW b \in Clients, Before(q, inbox[b]),
              \A m \in ToSet(q) : m[2] <= sent[m[1]]
       PROVE  Before(q, inbox'[b])
  <2> SUFFICES ASSUME NEW m \in ToSet(q), NEW n \in ToSet(inbox'[b]), m[1] = n[1]
               PROVE  m[2] < n[2]
    BY DEF Before
  <2>1. m[2] \in Nat /\ m[2] <= sent[m[1]]
    BY <1>11, Members
  <2>2. CASE n \in ToSet(inbox[b])
    BY <1>11, <2>2 DEF Before
  <2>3. CASE n = m0
    BY <1>3, <1>5, <2>1, <2>3
  <2> QED  BY <1>10, <2>2, <2>3
<1>12. InboxOrder'
  <2>1. ASSUME NEW b \in Clients
        PROVE  Rising(inbox'[b]) /\ \A m \in ToSet(inbox'[b]) : m[1] = b /\ m[2] <= sent'[b]
    <3>1. Rising(inbox'[b])
      BY <1>6, <1>9 DEF Order, InboxOrder
    <3>2. ASSUME NEW m \in ToSet(inbox'[b]) PROVE m[1] = b /\ m[2] <= sent'[b]
      <4>1. CASE m \in ToSet(inbox[b])
        <5>1. m[1] = b /\ m[2] <= sent[b] /\ m[2] \in Nat
          BY <1>3, <4>1, Members DEF Order, InboxOrder
        <5> QED  BY <1>3, <5>1
      <4>2. CASE b = c /\ m = m0
        BY <1>3, <1>5, <4>2
      <4> QED  BY <1>10, <4>1, <4>2
    <3> QED  BY <3>1, <3>2
  <2> QED  BY <2>1 DEF InboxOrder, Rising
<1>13. BufferOrder'
  <2>1. ASSUME NEW d \in Descriptors, NEW m \in ToSet(users[d].buf)
        PROVE  m[1] \in Here /\ fd[m[1]] = d /\ m[2] <= sent'[m[1]]
    <3>1. m[2] \in Nat /\ m[1] \in Clients /\ m[1] \in Here /\ fd[m[1]] = d /\ m[2] <= sent[m[1]]
      BY SeqKinds, Members DEF Order, BufferOrder
    <3> QED  BY <1>4, <3>1
  <2>2. \A d \in Descriptors : Rising(users[d].buf)
    BY DEF Order, BufferOrder
  <2> QED  BY <1>1, <1>2, <2>1, <2>2 DEF BufferOrder, Rising, Descriptors
<1>14. PrintOrder'
  <2>1. ASSUME NEW b \in Clients, NEW m \in ToSet(All(b)) PROVE m[1] # b /\ m[2] <= sent'[m[1]]
    <3>1. m[2] \in Nat /\ m[1] \in Clients /\ m[1] # b /\ m[2] <= sent[m[1]]
      BY SeqKinds, Members DEF Order, PrintOrder
    <3> QED  BY <1>4, <3>1
  <2>2. \A b \in Clients : Rising(All(b))
    BY DEF Order, PrintOrder
  <2> QED  BY <1>2, <2>1, <2>2 DEF PrintOrder, Rising
<1>15. ReadBefore'
  <2>1. ASSUME NEW b \in Here PROVE Before(users[fd[b]].buf, inbox'[b])
    <3>1. b \in Clients /\ fd[b] \in Descriptors /\ users[fd[b]].buf \in Seq(Messages)
      BY SeqKinds
    <3>2. \A m \in ToSet(users[fd[b]].buf) : m[2] <= sent[m[1]]
      BY <3>1 DEF Order, BufferOrder
    <3> QED  BY <1>11, <3>1, <3>2 DEF Order, ReadBefore
  <2> QED  BY <1>1, <1>2, <2>1 DEF ReadBefore, Before
<1>16. SentBefore'
  <2>1. ASSUME NEW r \in Clients, NEW b \in Clients PROVE Before(All(r), inbox'[b])
    <3>1. All(r) \in Seq(Messages) /\ \A m \in ToSet(All(r)) : m[2] <= sent[m[1]]
      BY SeqKinds DEF Order, PrintOrder
    <3> QED  BY <1>11, <3>1 DEF Order, SentBefore
  <2> QED  BY <1>2, <2>1 DEF SentBefore, Before
<1>17. Pointed' /\ Unowned'
  <2>1. \A r \in Here : r \in Clients
    BY DEF Here
  <2> QED  BY <1>1, <1>2, <2>1 DEF Order, Pointed, Unowned, Before, Descriptors, Uninit
<1> QED  BY <1>12, <1>13, <1>14, <1>15, <1>16, <1>17 DEF Order

LEMMA AcceptOrdered ==
  ASSUME Good, Boxes, Order, Accept, Complete'
  PROVE  Order'
<1> DEFINE d == Min(Descriptors \ {fds[k].fd : k \in 1 .. Len(fds)})
<1>1. PICK c \in Calling :
        IF Len(fds) >= UserLimit
          THEN state' = [state EXCEPT ![c] = "over"] /\ UNCHANGED <<fd, fds>>
          ELSE /\ state' = [state EXCEPT ![c] = "in"]
               /\ fd' = [fd EXCEPT ![c] = d]
               /\ fds' = Append(fds, [fd |-> d, out |-> FALSE, revents |-> {}])
  BY DEF Accept, user_counter
<1>2. /\ UNCHANGED <<sent, inbox, users, got, outbox>>
      /\ ClientKinds /\ c \in Clients /\ c \notin Here /\ Len(fds) \in Nat
  BY Indices DEF Accept, Good, Kinds, Calling, Here
<1>3. ~(Len(fds) >= UserLimit)
  BY <1>1, <1>2 DEF Complete, ClientKinds
<1>4. state' = [state EXCEPT ![c] = "in"] /\ fd' = [fd EXCEPT ![c] = d]
  BY <1>1, <1>3
<1>5. d \in Descriptors /\ \A k \in 1 .. Len(fds) : fds[k].fd # d
  <2>1. Len(fds) < UserLimit /\ TableKinds
    BY <1>2, <1>3, Limit DEF Good, Kinds
  <2>2. d \in Descriptors \ {fds[k].fd : k \in 1 .. Len(fds)}
    BY <2>1, FreeDescriptor
  <2> HIDE DEF d
  <2> QED  BY <2>2
<1> HIDE DEF d
<1>6. /\ Here' = Here \cup {c} /\ fd'[c] = d /\ \A b \in Here : fd'[b] = fd[b]
      /\ \A b \in Here : fd[b] # d
  <2>1. Here' = Here \cup {c} /\ fd'[c] = d /\ \A b \in Here : fd'[b] = fd[b]
    BY <1>2, <1>4 DEF Here, ClientKinds
  <2>2. \A b \in Here : fd[b] # d
    BY <1>5 DEF Good, Table
  <2> QED  BY <2>1, <2>2
<1>7. ToSet(users[d].buf) = {} /\ users[d].write_buf = Uninit
  BY <1>5, <1>6 DEF Order, BufferOrder, Unowned
<1>8. \A b \in Clients : All(b)' = All(b)
  BY <1>2 DEF All
<1>9. InboxOrder'
  BY <1>2 DEF Order, InboxOrder, Rising
<1>10. BufferOrder'
  BY <1>2, <1>6 DEF Order, BufferOrder, Rising, Descriptors
<1>11. PrintOrder'
  BY <1>2, <1>8 DEF Order, PrintOrder, Rising
<1>12. ReadBefore'
  BY <1>2, <1>6, <1>7 DEF Order, ReadBefore, Before
<1>13. SentBefore'
  BY <1>2, <1>8 DEF Order, SentBefore, Before
<1>14. Pointed'
  <2> SUFFICES ASSUME NEW r \in Here', NEW e \in Descriptors, users[fd'[r]].write_buf = e
               PROVE  e # fd'[r] /\ Before(All(r), users[e].buf)
    <3>1. \A r \in Here' : r \in Clients
      BY <1>2, <1>6 DEF Here
    <3> QED  BY <1>2, <1>8, <3>1 DEF Pointed, Before, Descriptors
  <2>1. e # Uninit
    BY Limit DEF Descriptors, Uninit
  <2>2. r # c
    BY <1>6, <1>7, <2>1
  <2> QED  BY <1>6, <2>2 DEF Order, Pointed
<1>15. Unowned'
  BY <1>2, <1>6 DEF Order, Unowned, Descriptors, Uninit
<1> QED  BY <1>9, <1>10, <1>11, <1>12, <1>13, <1>14, <1>15 DEF Order

LEMMA ReadOrdered ==
  ASSUME Good, Boxes, Order, Read
  PROVE  Order'
<1>1. PICK d, c : d = fds[i].fd /\ c = Owner(d)
  OBVIOUS
<1>2. d \in Descriptors /\ c \in Here /\ fd[c] = d /\ inbox' = [inbox EXCEPT ![c] = <<>>]
  BY <1>1, ReadEffect
<1>3. \A u \in Descriptors : users'[u].buf = IF u = d THEN inbox[c] ELSE users[u].buf
  BY <1>1, ReadEffect
<1>4. /\ \A u \in Descriptors : users'[u].write_buf = users[u].write_buf \/ (users'[u].write_buf = d /\ u # d)
      /\ \A u \in Descriptors : (\A k \in 1 .. Len(fds) : fds[k].fd # u)
                                  => users'[u].write_buf = users[u].write_buf
  BY <1>1, ReadEffect
<1>5. UNCHANGED <<state, fd, sent, got, outbox>>
  BY DEF Read
<1>6. Here' = Here /\ \A b \in Clients : All(b)' = All(b)
  BY <1>5 DEF Here, All
<1>7. c \in Clients /\ \A b \in Here : b \in Clients /\ fd[b] \in Descriptors /\ (fd[b] = d => b = c)
  BY <1>2, SeqKinds DEF Good, Table
<1>8. inbox'[c] = <<>> /\ \A b \in Clients \ {c} : inbox'[b] = inbox[b]
  BY <1>2, <1>7 DEF Good, Kinds, ClientKinds
<1>9. ToSet(inbox'[c]) = {} /\ Rising(inbox'[c])
  BY <1>8, NoMembers
<1>10. InboxOrder'
  <2>1. \A b \in Clients : Rising(inbox'[b]) /\ \A m \in ToSet(inbox'[b]) : m[1] = b /\ m[2] <= sent[b]
    BY <1>8, <1>9 DEF Order, InboxOrder
  <2> QED  BY <1>5, <2>1 DEF InboxOrder, Rising
<1>11. BufferOrder'
  <2>1. ASSUME NEW u \in Descriptors
        PROVE  /\ Rising(users'[u].buf)
               /\ \A m \in ToSet(users'[u].buf) : m[1] \in Here /\ fd[m[1]] = u /\ m[2] <= sent[m[1]]
    <3>1. CASE u = d
      BY <1>2, <1>3, <1>7, <3>1 DEF Order, InboxOrder
    <3>2. CASE u # d
      BY <1>3, <3>2 DEF Order, BufferOrder
    <3> QED  BY <3>1, <3>2
  <2> QED  BY <1>5, <1>6, <2>1 DEF BufferOrder, Rising, Descriptors
<1>12. PrintOrder'
  BY <1>5, <1>6 DEF Order, PrintOrder, Rising
<1>13. ReadBefore'
  <2>1. ASSUME NEW b \in Here PROVE Before(users'[fd[b]].buf, inbox'[b])
    <3>1. CASE b = c
      BY <1>9, <3>1 DEF Before
    <3>2. CASE b # c
      <4>1. users'[fd[b]].buf = users[fd[b]].buf /\ inbox'[b] = inbox[b]
        BY <1>3, <1>7, <1>8, <3>2
      <4> QED  BY <4>1 DEF Order, ReadBefore
    <3> QED  BY <3>1, <3>2
  <2> QED  BY <1>5, <1>6, <2>1 DEF ReadBefore, Before
<1>14. SentBefore'
  <2>1. ASSUME NEW r \in Clients, NEW b \in Clients PROVE Before(All(r), inbox'[b])
    BY <1>8, <1>9 DEF Order, SentBefore, Before
  <2> QED  BY <1>6, <2>1 DEF SentBefore, Before
<1>15. Pointed'
  <2>1. ASSUME NEW r \in Here, NEW e \in Descriptors, users'[fd[r]].write_buf = e
        PROVE  e # fd[r] /\ Before(All(r), users'[e].buf)
    <3>1. r \in Clients /\ fd[r] \in Descriptors
      BY <1>7
    <3>2. e # fd[r]
      BY <1>4, <2>1, <3>1 DEF Order, Pointed
    <3>3. CASE e = d
      <4>1. users'[e].buf = inbox[c]
        BY <1>3, <3>3
      <4> QED  BY <1>7, <3>1, <3>2, <4>1 DEF Order, SentBefore
    <3>4. CASE e # d
      <4>1. users[fd[r]].write_buf = e /\ users'[e].buf = users[e].buf
        BY <1>3, <1>4, <2>1, <3>1, <3>4
      <4> QED  BY <3>2, <4>1 DEF Order, Pointed
    <3> QED  BY <3>2, <3>3, <3>4
  <2> QED  BY <1>5, <1>6, <1>7, <2>1 DEF Pointed, Before, Descriptors
<1>16. Unowned'
  <2>1. ASSUME NEW u \in Descriptors, \A b \in Here : fd[b] # u PROVE users'[u].write_buf = Uninit
    <3>1. \A k \in 1 .. Len(fds) : fds[k].fd # u
      BY <2>1 DEF Good, Table
    <3> QED  BY <1>4, <2>1, <3>1 DEF Order, Unowned
  <2> QED  BY <1>5, <1>6, <2>1 DEF Unowned, Descriptors, Uninit
<1> QED  BY <1>10, <1>11, <1>12, <1>13, <1>14, <1>15, <1>16 DEF Order

LEMMA JoinThree ==
  ASSUME NEW M, NEW q \in Seq(M), NEW p \in Seq(M), NEW w \in Seq(M)
  PROVE  (q \o p) \o w = q \o (p \o w)
BY ConcatAssociative

LEMMA GrownBox ==
  ASSUME Boxes, NEW c \in Clients, NEW p, Grows(c, p)
  PROVE  /\ outbox'[c] = outbox[c] \o p
         /\ \A b \in Clients \ {c} : outbox'[b] = outbox[b]
<1> DEFINE w == outbox[c] \o p
<1>1. outbox' = [outbox EXCEPT ![c] = w]
  BY Zenon DEF Grows
<1>2. outbox \in [Clients -> Seq(Messages)]
  BY DEF Boxes
<1> HIDE DEF w
<1>3. outbox'[c] = w /\ \A b \in Clients \ {c} : outbox'[b] = outbox[b]
  BY <1>1, <1>2
<1> QED  BY <1>3 DEF w

LEMMA WriteOrdered ==
  ASSUME Good, Boxes, Order, Write
  PROVE  Order'
<1>1. PICK d, c, from : SendsTo(d, c, from)
  BY WriteEffect
<1>2. /\ d \in Descriptors /\ c \in Here /\ fd[c] = d /\ from = users[d].write_buf
      /\ Entry("OUT") /\ d = fds[i].fd
      /\ UNCHANGED <<got, fd, sent, inbox>>
  BY <1>1 DEF SendsTo
<1>3. \A u \in Descriptors :
        /\ users'[u].buf = users[u].buf
        /\ users'[u].write_buf = IF u = d THEN NULL ELSE users[u].write_buf
  BY <1>1 DEF SendsTo
<1>4. UNCHANGED outbox \/ (from # NULL /\ Grows(c, users[from].buf))
  BY <1>1 DEF SendsTo
<1>5. Here' = Here
  BY <1>1 DEF SendsTo
<1>6. c \in Clients /\ \A b \in Here : b \in Clients /\ fd[b] \in Descriptors /\ (fd[b] = d => b = c)
  BY <1>2, SeqKinds DEF Good, Table
<1>7. ASSUME NEW b \in Clients
      PROVE  /\ Rising(All(b)')
             /\ \A m \in ToSet(All(b)') : m[1] # b /\ m[2] <= sent[m[1]]
             /\ \A e \in Clients : Before(All(b)', inbox[e])
             /\ b # c => All(b)' = All(b)
  <2>1. CASE All(b)' = All(b)
    BY <2>1 DEF Order, PrintOrder, SentBefore
  <2>2. CASE b = c /\ from # NULL /\ Grows(c, users[from].buf)
    <3> DEFINE p == users[from].buf
               q == All(b)
    <3>1. from \in Descriptors /\ p \in Seq(Messages) /\ q \in Seq(Messages)
      BY <1>2, <2>2, Sendable, SeqKinds
    <3>2. All(b)' = q \o p
      <4>1. outbox'[c] = outbox[c] \o p /\ got'[c] = got[c]
        BY <1>2, <1>6, <2>2, GrownBox
      <4>2. got[c] \in Seq(Messages) /\ outbox[c] \in Seq(Messages)
        BY <1>6, SeqKinds
      <4>3. (got[c] \o outbox[c]) \o p = got[c] \o (outbox[c] \o p)
        <5>1. \A x, y, z \in Seq(Messages) : (x \o y) \o z = x \o (y \o z)
          BY JoinThree
        <5> HIDE DEF p
        <5> QED  BY <3>1, <4>2, <5>1, Zenon
      <4>4. All(c)' = got'[c] \o outbox'[c] /\ q = got[c] \o outbox[c]
        BY <2>2 DEF All
      <4> HIDE DEF p, q
      <4>5. All(c)' = q \o p
        BY <4>1, <4>3, <4>4
      <4> QED  BY <2>2, <4>5
    <3>3. from # fd[c] /\ Before(q, p)
      BY <1>2, <2>2, <3>1 DEF Order, Pointed
    <3>4. /\ Rising(p) /\ \A m \in ToSet(p) : m[1] \in Here /\ fd[m[1]] = from /\ m[2] <= sent[m[1]]
      BY <3>1 DEF Order, BufferOrder
    <3>5. Rising(q) /\ \A m \in ToSet(q) : m[1] # b /\ m[2] <= sent[m[1]]
      BY DEF Order, PrintOrder
    <3> HIDE DEF p, q
    <3>6. Rising(q \o p) /\ \A m : m \in ToSet(q \o p) <=> m \in ToSet(q) \/ m \in ToSet(p)
      BY <3>1, <3>3, <3>4, <3>5, Join
    <3>7. \A m \in ToSet(q \o p) : m[1] # b /\ m[2] <= sent[m[1]]
      BY <2>2, <3>3, <3>4, <3>5, <3>6
    <3>8. ASSUME NEW e \in Clients PROVE Before(q \o p, inbox[e])
      <4> SUFFICES ASSUME NEW m \in ToSet(q \o p), NEW n \in ToSet(inbox[e]), m[1] = n[1]
                   PROVE  m[2] < n[2]
        BY DEF Before
      <4>1. CASE m \in ToSet(q)
        BY <4>1 DEF Order, SentBefore, Before, q
      <4>2. CASE m \in ToSet(p)
        <5>1. m[1] = e
          BY DEF Order, InboxOrder
        <5>2. e \in Here /\ fd[e] = from
          BY <3>4, <4>2, <5>1
        <5> QED  BY <4>2, <5>2 DEF Order, ReadBefore, Before, p
      <4> QED  BY <3>6, <4>1, <4>2
    <3> QED  BY <2>2, <3>2, <3>6, <3>7, <3>8
  <2>3. (UNCHANGED outbox \/ b # c) => All(b)' = All(b)
    <3>1. CASE UNCHANGED outbox
      BY <1>2, <3>1 DEF All
    <3>2. CASE b # c
      <4>1. outbox'[b] = outbox[b]
        BY <1>4, <1>6, <3>2, GrownBox
      <4> QED  BY <1>2, <4>1 DEF All
    <3> QED  BY <3>1, <3>2
  <2> QED  BY <1>4, <2>1, <2>2, <2>3
<1>8. InboxOrder'
  BY <1>2 DEF Order, InboxOrder, Rising
<1>9. BufferOrder'
  BY <1>2, <1>3, <1>5 DEF Order, BufferOrder, Rising, Descriptors
<1>10. PrintOrder'
  BY <1>2, <1>7 DEF PrintOrder, Rising
<1>11. ReadBefore'
  BY <1>2, <1>3, <1>5, <1>6 DEF Order, ReadBefore, Before
<1>12. SentBefore'
  BY <1>2, <1>7 DEF SentBefore, Before
<1>13. Pointed'
  <2>1. ASSUME NEW r \in Here, NEW e \in Descriptors, users'[fd[r]].write_buf = e
        PROVE  e # fd[r] /\ Before(All(r)', users'[e].buf)
    <3>1. e # NULL
      BY Limit DEF Descriptors, NULL
    <3>2. r # c
      BY <1>2, <1>3, <2>1, <3>1
    <3>3. users[fd[r]].write_buf = e /\ All(r)' = All(r) /\ users'[e].buf = users[e].buf
      BY <1>3, <1>6, <1>7, <2>1, <3>2
    <3> QED  BY <3>3 DEF Order, Pointed
  <2> QED  BY <1>2, <1>5, <2>1 DEF Pointed, Before, Descriptors
<1>14. Unowned'
  <2>1. ASSUME NEW u \in Descriptors, \A b \in Here : fd[b] # u PROVE users'[u].write_buf = Uninit
    BY <1>2, <1>3, <2>1 DEF Order, Unowned
  <2> QED  BY <1>2, <1>5, <2>1 DEF Unowned, Descriptors, Uninit
<1> QED  BY <1>8, <1>9, <1>10, <1>11, <1>12, <1>13, <1>14 DEF Order

LEMMA NextOrdered ==
  Good /\ Boxes /\ (Complete => Order) /\ [Next]_vars => (Complete' => Order')
<1> SUFFICES ASSUME Good, Boxes, Complete => Order, [Next]_vars, Complete' PROVE Order'
  OBVIOUS
<1>1. state \in [Clients -> CStates]
  BY DEF Good, Kinds, ClientKinds
<1>2. ASSUME NEW c \in Clients, Leave(c) PROVE FALSE
  <2>1. state'[c] \in {"gone", "reset"}
    BY <1>1, <1>2 DEF Leave
  <2> QED  BY <2>1 DEF Complete
<1>3. ASSUME ClearError \/ Departed \/ ReadFails PROVE FALSE
  <2> DEFINE c == Owner(fds[i].fd)
  <2>1. i \in 1 .. Len(fds)
    BY <1>3, Indices DEF ClearError, Departed, ReadFails, Readable
  <2>2. c \in Clients
    BY <2>1, OwnerOf DEF Good
  <2>3. state' = [state EXCEPT ![c] = "gone"] \/ state' = [state EXCEPT ![c] = "over"]
    BY <1>3 DEF ClearError, Departed, ReadFails, RemoveUser
  <2> HIDE DEF c
  <2>4. state'[c] \in {"gone", "over"}
    BY <1>1, <2>2, <2>3
  <2> QED  BY <2>2, <2>4 DEF Complete
<1>4. ASSUME NEW c \in Clients, Connect(c) PROVE Order'
  <2>1. /\ state[c] = "new" /\ state' = [state EXCEPT ![c] = "calling"]
        /\ UNCHANGED <<sent, inbox, fd, users, got, outbox>>
    BY <1>4 DEF Connect
  <2>2. Complete /\ Here' = Here
    BY <1>1, <2>1 DEF Complete, Here
  <2>3. \A b \in Clients : All(b)' = All(b)
    BY <2>1 DEF All
  <2> QED  BY <2>1, <2>2, <2>3, OrderKept
<1>5. ASSUME NEW c \in Clients, Type(c) PROVE Order'
  <2>1. Complete
    BY <1>5 DEF Type, Complete
  <2> QED  BY <1>5, <2>1, TypeOrdered
<1>6. ASSUME NEW c \in Clients, PrintReceived(c) PROVE Order'
  <2>1. Complete
    BY <1>6 DEF PrintReceived, Complete
  <2> QED  BY <1>6, <2>1, PrintOrdered
<1>7. CASE Fail \/ Quiet \/ UNCHANGED vars \/ Skip \/ Poll
  <2>1. UNCHANGED <<state, sent, inbox, fd, users, got, outbox>>
    BY <1>7 DEF Fail, Quiet, Skip, Poll, vars, clientVars
  <2>2. Complete /\ Here' = Here
    BY <2>1 DEF Complete, Here
  <2>3. \A b \in Clients : All(b)' = All(b)
    BY <2>1 DEF All
  <2> QED  BY <2>1, <2>2, <2>3, OrderKept
<1>8. CASE Accept
  <2>1. \E c \in Calling, s \in {"in", "over"} : state' = [state EXCEPT ![c] = s]
    BY <1>8 DEF Accept
  <2>2. Complete
    BY <1>1, <2>1 DEF Complete, Calling
  <2> QED  BY <1>8, <2>2, AcceptOrdered
<1>9. CASE Read
  <2>1. Complete
    BY <1>9 DEF Read, Complete
  <2> QED  BY <1>9, <2>1, ReadOrdered
<1>10. CASE Write
  <2> DEFINE c == Owner(fds[i].fd)
             lost == users[fds[i].fd].write_buf # NULL /\ state[c] = "reset"
  <2>1. state' = [state EXCEPT ![c] = IF lost THEN "gone" ELSE state[c]]
    BY <1>10 DEF Write
  <2>2. lost => state[c] = "reset"
    OBVIOUS
  <2> HIDE DEF c, lost
  <2>3. Complete
    BY <1>1, <2>1, <2>2 DEF Complete
  <2> QED  BY <1>10, <2>3, WriteOrdered
<1> QED  BY <1>2, <1>3, <1>4, <1>5, <1>6, <1>7, <1>8, <1>9, <1>10 DEF Next, ServerStep, ClientStep

(* As long as nobody has left, a user is sent the messages of each other user
   in the order they were typed, none twice and none of its own: a message may
   be lost when the buffer write_buf points to is read into again, but what
   takes its place is newer than all that was sent before. *)
THEOREM RelayedInOrderHolds == Spec => []RelayedInOrder
<1> DEFINE Inv == Good /\ Boxes /\ (Complete => Order)
<1>1. Init => Inv
  BY InitInv, InitBoxes, InitOrder DEF Good
<1>2. Inv /\ [Next]_vars => Inv'
  <2>1. (Complete => Order)' <=> (Complete' => Order')
    BY DEF Complete
  <2> QED  BY <2>1, NextGood, NextBoxes, NextOrdered
<1>3. Inv => RelayedInOrder
  BY DEF Complete, Order, PrintOrder, RelayedInOrder, Rising, All
<1> QED  BY <1>1, <1>2, <1>3, PTL DEF Spec
=============================================================================
