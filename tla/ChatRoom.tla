------------------------------- MODULE ChatRoom -------------------------------
(***************************************************************************)
(* chat_serv.cpp and the chat_client.cpp processes that talk to it.  The   *)
(* server is one loop: poll fills revents, then a for loop visits the      *)
(* listening socket (i = 0) and the table of users (i = 1, 2, ...).  A     *)
(* step is one turn of that for loop; connections, messages and departures *)
(* come between any two turns.  users is indexed by descriptor, and        *)
(* write_buf points into the record of another descriptor.                 *)
(*                                                                         *)
(* A message fits into the buffer of 63 bytes; POLLOUT is reported while   *)
(* there is room for one, so send does not cut it.                         *)
(***************************************************************************)
EXTENDS Integers, Sequences, FiniteSets, FiniteSetsExt, SequencesExt

CONSTANTS
  Clients,     \* the client processes
  UserLimit,   \* USER_LIMIN
  MaxSent      \* bound: how many messages are typed at each client

ASSUME UserLimitAssumption == UserLimit \in Nat \ {0}
ASSUME ClientsAssumption == IsFiniteSet(Clients)

VARIABLES
  state,       \* of a client: "new", "calling", "in", "gone", "reset" or "over"
  fd,          \* its descriptor at the server, 0 for none
  sent,        \* how many messages it has sent
  inbox,       \* messages on their way to the server
  outbox, got, \* messages on their way back, and those printed
  fds,         \* the table: descriptor, is POLLOUT in events, revents
  listening,   \* revents of the listening socket has POLLIN
  i,           \* the entry whose turn it is
  users,       \* client_data of every descriptor
  up           \* the server has not called exit

clientVars == <<state, sent, inbox, outbox, got>>
vars       == <<clientVars, fd, fds, listening, i, users, up>>

NULL         == 0
Uninit       == -1          \* the pointer new[] leaves in write_buf
Descriptors  == 1 .. UserLimit + 1
user_counter == Len(fds)
Here         == {c \in Clients : state[c] \in {"in", "gone", "reset"}}
Owner(d)     == CHOOSE c \in Here : fd[c] = d

Init ==
  /\ state = [c \in Clients |-> "new"]
  /\ fd = [c \in Clients |-> 0]
  /\ sent = [c \in Clients |-> 0]
  /\ inbox = [c \in Clients |-> <<>>]
  /\ outbox = [c \in Clients |-> <<>>]
  /\ got = [c \in Clients |-> <<>>]
  /\ fds = <<>> /\ listening = FALSE /\ i = 1
  /\ users = [d \in Descriptors |-> [write_buf |-> Uninit, buf |-> <<>>]]
  /\ up = TRUE

-----------------------------------------------------------------------------
(* chat_client.cpp *)

\* connect: the kernel completes it before the server accepts.
Connect(c) ==
  /\ state[c] = "new" /\ up
  /\ state' = [state EXCEPT ![c] = "calling"]
  /\ UNCHANGED <<fd, sent, inbox, outbox, got, fds, listening, i, users, up>>

\* A typed line is spliced through the pipe to the socket.
Type(c) ==
  /\ state[c] \in {"calling", "in"} /\ up
  /\ sent[c] < MaxSent[c]
  /\ sent' = [sent EXCEPT ![c] = @ + 1]
  /\ inbox' = [inbox EXCEPT ![c] = Append(@, <<c, sent'[c]>>)]
  /\ UNCHANGED <<state, fd, outbox, got, fds, listening, i, users, up>>

\* poll reports POLLIN without POLLRDHUP: what has come is printed.
PrintReceived(c) ==
  /\ state[c] = "in" /\ outbox[c] # <<>> /\ up
  /\ got' = [got EXCEPT ![c] = @ \o outbox[c]]
  /\ outbox' = [outbox EXCEPT ![c] = <<>>]
  /\ UNCHANGED <<state, fd, sent, inbox, fds, listening, i, users, up>>

\* The process ends; with data unread in its socket the connection is reset.
Leave(c) ==
  /\ state[c] = "in" /\ up
  /\ state' = [state EXCEPT ![c] = IF outbox[c] = <<>> THEN "gone" ELSE "reset"]
  /\ UNCHANGED <<fd, sent, inbox, outbox, got, fds, listening, i, users, up>>

-----------------------------------------------------------------------------
(* chat_serv.cpp *)

\* Mutant of EventsOf: POLLRDHUP was not asked for.
EventsWithoutHup(e) ==
  LET c == Owner(e.fd)
  IN  (IF state[c] = "reset" THEN {"ERR"} ELSE {})
      \cup (IF inbox[c] # <<>> \/ state[c] # "in" THEN {"IN"} ELSE {})
      \cup (IF e.out THEN {"OUT"} ELSE {})

\* What poll reports of an entry.
EventsOf(e) ==
  LET c == Owner(e.fd)
  IN  (IF state[c] = "reset" THEN {"ERR"} ELSE {})
      \cup (IF state[c] # "in" THEN {"RDHUP"} ELSE {})
      \cup (IF inbox[c] # <<>> \/ state[c] # "in" THEN {"IN"} ELSE {})
      \cup (IF e.out THEN {"OUT"} ELSE {})

Calling == {c \in Clients : state[c] = "calling"}

Reported == Calling # {} \/ \E k \in 1 .. user_counter : EventsOf(fds[k]) # {}

\* The for loop is over and there is something to report.
Poll ==
  /\ up /\ i = user_counter + 1 /\ Reported
  /\ fds' = [k \in 1 .. user_counter |-> [fds[k] EXCEPT !.revents = EventsOf(fds[k])]]
  /\ listening' = (Calling # {})
  /\ i' = 0
  /\ UNCHANGED <<clientVars, fd, users, up>>

\* accept takes the lowest free descriptor.  A user too many is told so and its
\* connection closed; the client notices the end before it reads the notice.
Accept ==
  /\ up /\ i = 0 /\ listening
  /\ \E c \in Calling :
       LET d == Min(Descriptors \ {fds[k].fd : k \in 1 .. user_counter})
       IN  IF user_counter >= UserLimit
             THEN /\ state' = [state EXCEPT ![c] = "over"]
                  /\ UNCHANGED <<fd, fds>>
             ELSE /\ state' = [state EXCEPT ![c] = "in"]
                  /\ fd' = [fd EXCEPT ![c] = d]
                  /\ fds' = Append(fds, [fd |-> d, out |-> FALSE, revents |-> {}])
  /\ i' = 1
  /\ UNCHANGED <<sent, inbox, outbox, got, listening, users, up>>

\* poll or accept returns an error: exit(1).
Fail ==
  /\ up /\ (i = user_counter + 1 \/ (i = 0 /\ listening))
  /\ up' = FALSE
  /\ UNCHANGED <<clientVars, fd, fds, listening, i, users>>

Entry(event) == up /\ i \in 1 .. user_counter /\ event \in fds[i].revents

\* Nothing to do for this entry.
Skip ==
  /\ up
  /\ (i = 0 /\ ~listening) \/ (i \in 1 .. user_counter /\ fds[i].revents = {})
  /\ i' = i + 1
  /\ UNCHANGED <<clientVars, fd, fds, listening, users, up>>

\* POLLERR: getsockopt takes the error off the socket; the entry stays.
ClearError ==
  /\ Entry("ERR")
  /\ state' = [state EXCEPT ![Owner(fds[i].fd)] = "gone"]
  /\ i' = i + 1
  /\ UNCHANGED <<fd, sent, inbox, outbox, got, fds, listening, users, up>>

\* Mutant of RemoveUser: the last entry is dropped without being moved.
RemoveLast ==
  /\ fds' = SubSeq(fds, 1, user_counter - 1)
  /\ users' = [users EXCEPT ![fds[i].fd] = users[fds[user_counter].fd]]
  /\ state' = [state EXCEPT ![Owner(fds[i].fd)] = "over"]
  /\ fd' = [fd EXCEPT ![Owner(fds[i].fd)] = 0]
  /\ UNCHANGED <<i, sent, inbox, outbox, got, listening, up>>

\* The connection is closed, the last entry takes the place of this one and is
\* visited next.  The record of the last user is copied over the leaver's.
RemoveUser ==
  /\ fds' = SubSeq([fds EXCEPT ![i] = fds[user_counter]], 1, user_counter - 1)
  /\ users' = [users EXCEPT ![fds[i].fd] = users[fds[user_counter].fd]]
  /\ state' = [state EXCEPT ![Owner(fds[i].fd)] = "over"]
  /\ fd' = [fd EXCEPT ![Owner(fds[i].fd)] = 0]
  /\ UNCHANGED <<i, sent, inbox, outbox, got, listening, up>>

Departed == Entry("RDHUP") /\ ~Entry("ERR") /\ RemoveUser

Readable == Entry("IN") /\ ~Entry("ERR") /\ ~Entry("RDHUP")

\* recv fails on a connection that was reset since poll.
ReadFails ==
  /\ Readable
  /\ state[Owner(fds[i].fd)] = "reset"
  /\ RemoveUser

\* Mutant of Others: the sender is not left out.
Everybody(d) == 1 .. user_counter

\* The entries that are told of a message that came on descriptor d.
Others(d) == {k \in 1 .. user_counter : fds[k].fd # d}

\* recv returns what has come; every other user is to be sent the buffer it was
\* read into.
Read ==
  /\ Readable
  /\ LET d == fds[i].fd
         c == Owner(d)
         told == {fds[k].fd : k \in Others(d)}
     IN  /\ inbox' = [inbox EXCEPT ![c] = <<>>]
         /\ users' = [u \in Descriptors |->
                        [write_buf |-> IF u \in told /\ inbox[c] # <<>> THEN d ELSE users[u].write_buf,
                         buf |-> IF u = d THEN inbox[c] ELSE users[u].buf]]
         /\ fds' = [k \in 1 .. user_counter |->
                      [fds[k] EXCEPT !.out = @ \/ (k \in Others(d) /\ inbox[c] # <<>>)]]
  /\ i' = i + 1
  /\ UNCHANGED <<state, fd, sent, outbox, got, listening, up>>

\* POLLOUT: what write_buf points to now is sent, if it points anywhere; on a
\* connection reset since poll, send fails and takes the error off the socket.
\* events keeps POLLOUT: the bits are only ever added.
Write ==
  /\ Entry("OUT") /\ ~Entry("IN") /\ ~Entry("ERR") /\ ~Entry("RDHUP")
  /\ LET d == fds[i].fd
         from == users[d].write_buf
         lost == from # NULL /\ state[Owner(d)] = "reset"
     IN  /\ outbox' = IF from = NULL \/ lost THEN outbox
                      ELSE [outbox EXCEPT ![Owner(d)] = @ \o users[from].buf]
         /\ state' = [state EXCEPT ![Owner(d)] = IF lost THEN "gone" ELSE @]
         /\ users' = [users EXCEPT ![d].write_buf = NULL]
  /\ i' = i + 1
  /\ UNCHANGED <<fd, sent, inbox, got, fds, listening, up>>

-----------------------------------------------------------------------------
ServerStep ==
  Poll \/ Accept \/ Skip \/ ClearError \/ Departed \/ ReadFails \/ Read \/ Write

ClientStep(c) == Connect(c) \/ Type(c) \/ PrintReceived(c) \/ Leave(c)

\* The server is gone, or waits in poll for clients that are not coming.
Quiet == (~up \/ (i = user_counter + 1 /\ ~Reported)) /\ UNCHANGED vars

Next == (\E c \in Clients : ClientStep(c)) \/ ServerStep \/ Fail \/ Quiet

Spec == Init /\ [][Next]_vars

\* The server is one thread that runs; clients need not do anything.
FairSpec == Spec /\ WF_vars(ServerStep)

-----------------------------------------------------------------------------
(* Properties. *)

\* The table holds exactly the open connections, each once, through every
\* accept and departure in the middle of a round; and no user is sent what a
\* pointer nobody has set points to.
TableExact ==
  up =>
  /\ user_counter <= UserLimit
  /\ \A k, l \in 1 .. user_counter : fds[k].fd = fds[l].fd => k = l
  /\ {fds[k].fd : k \in 1 .. user_counter} = {fd[c] : c \in Here}
  /\ Cardinality({fd[c] : c \in Here}) = Cardinality(Here)
  /\ \A k \in 1 .. user_counter : fds[k].out => users[fds[k].fd].write_buf # Uninit

\* As long as nobody has left, a user is sent the messages of each other user
\* in the order they were sent, none twice, and none of its own, although
\* write_buf is a pointer into a buffer that the sender goes on using.
RelayedInOrder ==
  (\A c \in Clients : state[c] \in {"new", "calling", "in"}) =>
    \A c \in Clients :
      LET all == got[c] \o outbox[c]
      IN  /\ \A m \in ToSet(all) : m[1] # c
          /\ \A a, b \in 1 .. Len(all) : a < b /\ all[a][1] = all[b][1] => all[a][2] < all[b][2]

Pending(c) ==
  c \in Here /\ \E k \in 1 .. user_counter :
    fds[k].fd = fd[c] /\ fds[k].out /\ users[fd[c]].write_buf # NULL

\* A connection that ended is removed from the table, though POLLERR is only
\* looked at.  A user with something to be sent is served or leaves, unless it
\* writes itself: an entry has one branch per round, and POLLIN goes before
\* POLLOUT, so only its own typing can keep a user from being sent to.
NobodyForgotten ==
  \A c \in Clients :
    /\ (state[c] \in {"gone", "reset"}) ~> (state[c] = "over" \/ ~up)
    /\ Pending(c) ~> (~Pending(c) \/ ~up \/ inbox[c] # <<>>)

=============================================================================
