------------------------------ MODULE Reactor ------------------------------
(***************************************************************************)
(* The epoll server of reactor/reactor.hpp: one thread that waits for      *)
(* ready descriptors and runs one callback per reported event.             *)
(***************************************************************************)
EXTENDS Tcp

CONSTANTS
  BufferLength,  \* BUFFER_LENGTH, the size of rbuffer (1024)
  MaxEvents,     \* MAX_EVENTS_SIZE, events per epoll_wait (1024)
  ResponseLength,\* the bytes of the answer send_cb formats (201 with its 0)
  Faults         \* why accept may fail besides, and what connlist[-1] may do

ASSUME ReactorAssumption ==
  /\ BufferLength \in Nat
  /\ MaxEvents \in Nat \ {0}
  /\ ResponseLength \in Nat /\ ResponseLength < BufferLength
  /\ Faults \subseteq {"nofile", "index"}

VARIABLES
  status,    \* "boot", then "run"; "exited" by init, "killed" by SIGPIPE,
             \* "crashed" by what connlist[-1] wrote into events
  interest,  \* interest[fd]: the event fd is registered for with epoll
  callback,  \* connlist[fd].ar_func: what an EPOLLIN event calls
  rlen,      \* connlist[fd].rlen
  rbuf,      \* connlist[fd].rbuffer, byte by byte
  events,    \* events[i..nready-1]: reported and not yet handled
  replies    \* history: replies[c], the lengths of the answers sent to c

srvVars == <<status, interest, callback, rlen, rbuf, events, replies>>
vars == <<tcpVars, srvVars>>

AllFds == Fds \cup {ListenFd}

\* conn is history: the connection the event was reported for.
Event == [fd : AllFds, ev : {"in", "out"}, conn : Conns \cup {NoConn}]

ConnOf(fd) == IF fd = ListenFd THEN NoConn ELSE fdtab[fd]

\* A byte in rbuffer: the i-th of connection c, or a 0, or one of the answer's
\* (which are not told apart).
Byte == (Conns \cup {NoConn}) \X Nat
ByteOf(c, i) == <<c, i>>
Zero == <<NoConn, 0>>
Text == <<NoConn, 1>>
Positions == 1..BufferLength
Zeros == [k \in Positions |-> Zero]

Init ==
  /\ TcpInit
  /\ status = "boot"
  /\ interest = [fd \in AllFds |-> "none"]
  /\ callback = [fd \in AllFds |-> "none"]
  /\ rlen = [fd \in Fds |-> 0]
  /\ rbuf = [fd \in Fds |-> Zeros]
  /\ events = <<>>
  /\ replies = [c \in Conns |-> <<>>]

-----------------------------------------------------------------------------
(* set_event, and the registration that close removes. *)

SetEvent(fd, event) == interest' = [interest EXCEPT ![fd] = event]
Unregister(fd) == interest' = [interest EXCEPT ![fd] = "none"]

\* Bind and Listen exit the process when they fail.
BindOrListenFails == status' = "exited" /\ UNCHANGED <<interest, callback>>

\* init
Boot ==
  /\ status = "boot"
  /\ \/ BindOrListenFails
     \/ /\ status' = "run"
        /\ SetEvent(ListenFd, "in")
        /\ callback' = [callback EXCEPT ![ListenFd] = "accept_cb"]
  /\ UNCHANGED <<tcpVars, rlen, rbuf, events, replies>>

-----------------------------------------------------------------------------
(* epoll_wait: level triggered, in any order, each descriptor once. *)

Ready(fd) ==
  IF fd = ListenFd
  THEN interest[fd] = "in" /\ backlog # <<>>
  ELSE \/ interest[fd] = "in" /\ Readable(fdtab[fd])
       \/ interest[fd] = "out" /\ Writable(fdtab[fd])

ReadyFds == {fd \in AllFds : Ready(fd)}

NumReady ==
  IF Cardinality(ReadyFds) < MaxEvents THEN Cardinality(ReadyFds) ELSE MaxEvents

ReportOrders ==
  {order \in [1..NumReady -> ReadyFds] :
     \A i, j \in 1..NumReady : order[i] = order[j] => i = j}

EpollWait ==
  /\ status = "run"
  /\ events = <<>>
  /\ ReadyFds # {}
  /\ \E order \in ReportOrders :
       events' = [i \in 1..NumReady |-> [fd |-> order[i],
                                         ev |-> interest[order[i]],
                                         conn |-> ConnOf(order[i])]]
  /\ UNCHANGED <<tcpVars, status, interest, callback, rlen, rbuf, replies>>

-----------------------------------------------------------------------------
(* The callbacks. *)

\* accept_cb makes the item of a new descriptor ready for its connection.
\* variants: the item keeps its rlen; its rbuffer is not cleared
Cleared(fd) == rbuf' = [rbuf EXCEPT ![fd] = Zeros]
ResetItemForgotten(fd) == Cleared(fd) /\ UNCHANGED rlen
ResetItemKeepsBytes(fd) == rlen' = [rlen EXCEPT ![fd] = 0] /\ UNCHANGED rbuf
ResetItem(fd) == rlen' = [rlen EXCEPT ![fd] = 0] /\ Cleared(fd)

AcceptCb ==
  /\ \E fd \in Fds :
       /\ AcceptConn(fd)
       /\ SetEvent(fd, "in")
       /\ ResetItem(fd)
       /\ callback' = [callback EXCEPT ![fd] = "receive_cb"]
  /\ UNCHANGED <<peer, sent, nread, unread, done, status, replies>>

\* EMFILE, or ENFILE and the like: set_event(-1) fails, and the item
\* connlist[-1] that is reset lies over the last 177 entries of events.
AcceptCbFails ==
  /\ FreeFds = {} \/ "nofile" \in Faults
  /\ UNCHANGED <<tcpVars, interest, rlen, rbuf, callback, replies>>

\* The free part of rbuffer, after everything received on the descriptor.
RoomOneLess(fd) == BufferLength - rlen[fd] - 1  \* variant: keeps a byte for a 0
Room(fd) == BufferLength - rlen[fd]

\* cnt = 0: no longer registered, and closed.
\* variants: only one of "the two functions" is called; 0 is not told apart
HangupWithoutClose(fd) == Unregister(fd) /\ UNCHANGED <<fdtab, done, rlen>>
HangupMissed(fd) == SetEvent(fd, "out") /\ UNCHANGED <<fdtab, done, rlen>>
Hangup(fd) == Unregister(fd) /\ CloseFd(fd) /\ UNCHANGED rlen

\* Any other result, an error's -1 as well, is added to rlen.
\* variants: the descriptor stays registered for EPOLLIN; a 0 is counted too
ReceivedStillListening(fd, cnt) ==
  /\ rlen' = [rlen EXCEPT ![fd] = @ + cnt]
  /\ UNCHANGED <<interest, fdtab, done>>
ReceivedWithZero(fd, cnt) ==
  /\ rlen' = [rlen EXCEPT ![fd] = @ + cnt + 1]
  /\ SetEvent(fd, "out")
  /\ UNCHANGED <<fdtab, done>>
Received(fd, cnt) ==
  /\ rlen' = [rlen EXCEPT ![fd] = @ + cnt]
  /\ SetEvent(fd, "out")
  /\ UNCHANGED <<fdtab, done>>

\* recv stores what it reads after the first rlen bytes.
Stored(fd, cnt) ==
  LET c == fdtab[fd] IN
  rbuf' = [rbuf EXCEPT ![fd] = [k \in Positions |->
             IF k \in (rlen[fd] + 1)..(rlen[fd] + cnt)
             THEN ByteOf(c, nread[c] + k - rlen[fd])
             ELSE @[k]]]

ReceiveCb(fd) ==
  /\ \E cnt \in -1..BufferLength :
       /\ Recv(fdtab[fd], Room(fd), cnt)
       /\ Stored(fd, cnt)
       /\ IF cnt = 0 THEN Hangup(fd) ELSE Received(fd, cnt)
  /\ UNCHANGED <<sent, unread, backlog, status, callback, replies>>

\* sprintf writes the answer, and a 0 after it, over the start of rbuffer.
Answer(k) == IF k <= ResponseLength THEN Text ELSE Zero
Formatted(fd) ==
  rbuf' = [rbuf EXCEPT ![fd] = [k \in Positions |->
             IF k <= ResponseLength + 1 THEN Answer(k) ELSE @[k]]]

\* The first rlen bytes of rbuffer are sent.
SendCb(fd) ==
  LET c == fdtab[fd] IN
  /\ Formatted(fd)
  /\ \/ /\ Send(c, "sent")
        /\ replies' = [replies EXCEPT ![c] = Append(@, rlen[fd])]
        /\ SetEvent(fd, "in")
        /\ UNCHANGED status
     \/ /\ Send(c, "reset")
        /\ SetEvent(fd, "in")
        /\ UNCHANGED <<status, replies>>
     \/ \* send raises SIGPIPE, which nothing handles
        /\ Send(c, "pipe")
        /\ status' = "killed"
        /\ UNCHANGED <<interest, replies>>
  /\ UNCHANGED <<sent, nread, backlog, fdtab, done, callback, rlen>>

-----------------------------------------------------------------------------
(* run: the loop over the reported events. *)

NextEvent == Head(events)

\* variant: the loop index does not advance
DispatchingAgain ==
  /\ status = "run"
  /\ events # <<>>
  /\ events' \in {events, Tail(events)}

Dispatching ==
  /\ status = "run"
  /\ events # <<>>
  /\ events' = Tail(events)

Accepting ==
  /\ status = "run"
  /\ events # <<>>
  /\ NextEvent.ev = "in"
  /\ callback[NextEvent.fd] = "accept_cb"

HandleAccept == Accepting /\ Dispatching /\ AcceptCb

\* The reset blanks the events that are left from some entry on (847, in a
\* batch that is scaled down as MaxEvents is: any), and run passes them over.
\* The callbacks it assigns are functions in the last entries (1019 and on):
\* what a batch, this one or an earlier one, has left there is destroyed and
\* called as if it were a function, which crashes the process.
Blanked == \E n \in 1..Len(events) :
  events' = SubSeq(events, 2, n) /\ UNCHANGED status
Crashed == events' = Tail(events) /\ status' = "crashed"

HandleAcceptFails ==
  /\ Accepting
  /\ AcceptCbFails
  /\ \/ Dispatching /\ UNCHANGED status
     \/ "index" \in Faults /\ (Blanked \/ Crashed)

HandleReceive ==
  /\ Dispatching
  /\ NextEvent.ev = "in"
  /\ callback[NextEvent.fd] = "receive_cb"
  /\ ReceiveCb(NextEvent.fd)

HandleSend ==
  /\ Dispatching
  /\ NextEvent.ev = "out"
  /\ SendCb(NextEvent.fd)

Server ==
  EpollWait \/ HandleAccept \/ HandleAcceptFails \/ HandleReceive \/ HandleSend

ClientStep(c) == status = "run" /\ Client(c) /\ UNCHANGED srvVars

Next == Boot \/ Server \/ \E c \in Conns : ClientStep(c)

Spec == Init /\ [][Next]_vars

(***************************************************************************)
(* run never stops, and the kernel reports what is ready; the clients that *)
(* are not Slow read what they are sent.  Nothing else is assumed of the   *)
(* clients: they need not connect, send or close.                          *)
(***************************************************************************)
ReaderStep(c) == status = "run" /\ ClientRead(c) /\ UNCHANGED srvVars

Fairness ==
  /\ WF_vars(Server)
  /\ \A c \in Conns \ Slow : WF_vars(ReaderStep(c))

FairSpec == Spec /\ Fairness
=============================================================================
