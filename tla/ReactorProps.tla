---------------------------- MODULE ReactorProps ----------------------------
(***************************************************************************)
(* What makes the epoll server correct.                                    *)
(***************************************************************************)
EXTENDS Reactor

Live == status \in {"run", "killed", "crashed"}
OpenFds == {fd \in Fds : fdtab[fd] # NoConn}

\* The type of every variable; rlen may hold the -1 of a failed recv.
TypeOK ==
  /\ TcpTypeOK
  /\ status \in {"boot", "run", "exited", "killed", "crashed"}
  /\ interest \in [AllFds -> {"none", "in", "out"}]
  /\ callback \in [AllFds -> {"none", "accept_cb", "receive_cb"}]
  /\ rlen \in [Fds -> -1..BufferLength]
  /\ rbuf \in [Fds -> [Positions -> Byte]]
  /\ events \in Seq(Event)
  /\ replies \in [Conns -> Seq(0..BufferLength)]

LastReply(c) == IF replies[c] = <<>> THEN 0 ELSE replies[c][Len(replies[c])]

-----------------------------------------------------------------------------
(* Safety. *)

\* A descriptor is registered with epoll exactly as long as it is open, and
\* what an event on it would call is the callback of its kind of socket:
\* accept_func and receive_func share one union, so the wrong one would be
\* called as if it were the other.
Registered ==
  Live =>
    /\ interest[ListenFd] = "in" /\ callback[ListenFd] = "accept_cb"
    /\ \A fd \in Fds :
         /\ (interest[fd] # "none") <=> (fd \in OpenFds)
         /\ fd \in OpenFds => callback[fd] = "receive_cb"

\* While run works through one batch, callbacks close descriptors and accept
\* hands the same numbers out again; still no event that is left reaches the
\* callback of another connection, or of another direction, than the one it
\* was reported for.
EventsFresh ==
  \A i \in 1..Len(events) :
    LET e == events[i] IN
    /\ e.conn = ConnOf(e.fd)
    /\ e.ev = interest[e.fd]
    /\ \A j \in 1..Len(events) : events[j].fd = e.fd => i = j

\* All sockets are blocking and there is one thread: a callback that had to
\* wait would stop every client.  Each event left in the batch can still be
\* handled at once when its turn comes, whatever ran and arrived in between.
NeverBlocks ==
  \A i \in 1..Len(events) :
    LET e == events[i] IN
    /\ e.fd = ListenFd => backlog # <<>>
    /\ e.fd \in Fds /\ e.ev = "in" => Readable(fdtab[e.fd])
    /\ e.fd \in Fds /\ e.ev = "out" => Writable(fdtab[e.fd])

\* What a position of connection c's rbuffer may hold: the byte of c that was
\* read into it, or the answer, once one was formatted over it, or a 0 that
\* nothing was written over yet.
MayHold(c, k, b) ==
  \/ k <= nread[c] /\ b = ByteOf(c, k)
  \/ k <= ResponseLength + 1 /\ b = Answer(k) /\ (replies[c] # <<>> \/ Broken(c))
  \/ k > nread[c] /\ b = Zero

\* rlen of an open descriptor counts the bytes read on its connection.
RlenHolds ==
  \A fd \in OpenFds :
    LET c == fdtab[fd] IN
    /\ rlen[fd] <= BufferLength
    /\ \/ rlen[fd] = nread[c]
       \/ rlen[fd] = nread[c] - 1 /\ peer[c] = "dead" /\ interest[fd] = "out"

\* rbuffer of an open descriptor has only bytes that may be there, and those
\* that are still to be answered.
BytesHold ==
  \A fd \in OpenFds :
    LET c == fdtab[fd] IN
    /\ \A k \in Positions : MayHold(c, k, rbuf[fd][k])
    /\ ~Broken(c) =>
         \A k \in (LastReply(c) + 1)..nread[c] : rbuf[fd][k] = ByteOf(c, k)

\* rlen of an open descriptor counts the bytes read on its connection, never
\* more than fit (the -1 of a reset, which is added to it as well, keeps it
\* wrong until the descriptor is gone; recv is never called with it).  Its
\* rbuffer holds no byte of an earlier connection on the same number, and
\* nothing but the answer was written over the bytes of its own, never over
\* those that were read since the last answer and are still to be answered.
BufferHoldsOwnBytes == RlenHolds /\ BytesHold

\* Each answer sent to a client follows a request that was not answered yet:
\* the answers grow with rlen, which is never reset between requests, and
\* none is longer than what was read.
RepliesFollowRequests ==
  \A c \in Conns :
    \A i \in 1..Len(replies[c]) :
      /\ replies[c][i] \in 1..nread[c]
      /\ \A j \in 1..(i - 1) : replies[c][j] < replies[c][i]

\* SIGPIPE kills the server only while it answers a client that has reset, and
\* then something new it had read of it, or the error of the reset itself.
KilledByBrokenPeer ==
  status = "killed" =>
    \E fd \in OpenFds :
      LET c == fdtab[fd] IN
      /\ interest[fd] = "out"
      /\ peer[c] \in {"finrst", "dead"}
      /\ rlen[fd] > LastReply(c) \/ rlen[fd] = nread[c] - 1

\* A connection is closed only when its client has finished and all its bytes
\* were read, or when rbuffer is full: rlen only grows, recv is then asked
\* for 0 bytes, and its 0 is taken for the end of the stream.
CloseOnlyAtEndOrFull ==
  [][\A c \in done' \ done :
       \/ peer[c] \in {"fin", "finrst", "dead"} /\ Avail(c) = 0
       \/ nread[c] = BufferLength]_vars

-----------------------------------------------------------------------------
(* The inductive invariant: the safety properties and what they rest on. *)

\* Before init has succeeded nothing is open, registered or reported.
Dormant ==
  ~Live =>
    /\ fdtab = [fd \in Fds |-> NoConn]
    /\ interest = [fd \in AllFds |-> "none"]
    /\ callback = [fd \in AllFds |-> "none"]
    /\ events = <<>>

\* Nothing was exchanged yet on a connection.
Fresh(c) == c \notin done /\ nread[c] = 0 /\ replies[c] = <<>>

\* A connection is idle, then waiting for accept, then named by one
\* descriptor, then closed for good.
Ownership ==
  /\ \A fd \in OpenFds :
       /\ fdtab[fd] \notin done /\ peer[fdtab[fd]] # "idle"
       /\ \A other \in OpenFds : fdtab[other] = fdtab[fd] => other = fd
  /\ \A j \in 1..Len(backlog) :
       /\ Fresh(backlog[j]) /\ peer[backlog[j]] # "idle"
       /\ \A fd \in Fds : fdtab[fd] # backlog[j]
       /\ \A k \in 1..Len(backlog) : backlog[k] = backlog[j] => k = j
  /\ \A c \in Conns : peer[c] = "idle" => Fresh(c)

\* A descriptor that waits to send has more to answer than was answered,
\* unless its turn came with the error of a reset.
NewsToAnswer ==
  \A fd \in OpenFds :
    LET c == fdtab[fd] IN
    interest[fd] = "out" /\ rlen[fd] = nread[c] =>
      /\ nread[c] > 0
      /\ \A k \in 1..Len(replies[c]) : replies[c][k] < nread[c]

IInv ==
  /\ TypeOK
  /\ Dormant
  /\ Registered
  /\ EventsFresh
  /\ NeverBlocks
  /\ Ownership
  /\ RlenHolds
  /\ BytesHold
  /\ NewsToAnswer
  /\ RepliesFollowRequests
  /\ KilledByBrokenPeer

-----------------------------------------------------------------------------
(* The conversation each client has with the server. *)

FdsOf(c) == {fd \in Fds : fdtab[fd] = c}

Phase(c) ==
  CASE c \in done -> "over"
    [] c \notin done /\ FdsOf(c) = {} -> "waiting"
    [] c \notin done /\ \E fd \in FdsOf(c) : interest[fd] = "out" -> "answering"
    [] OTHER -> "listening"

Talk == INSTANCE Conversation WITH
  phase <- [c \in Conns |-> Phase(c)],
  heard <- nread,
  said <- [c \in Conns |-> Len(replies[c])],
  broken <- {c \in Conns : Broken(c)}

\* For each client the server takes turns: it reads something new, answers
\* once, and reads again.  Only a reset lets a turn pass without bytes.
TakesTurns == Talk!Spec

-----------------------------------------------------------------------------
(* Liveness, under FairSpec. *)

\* A client that reads, once accepted, is always brought to the point where it
\* is answered for all it sent, even while Slow clients do not read and keep
\* their descriptors unwritable; after it closes, to the point where the server
\* has closed as well.
Served ==
  \A c \in Conns \ Slow :
    FdsOf(c) # {} ~>
      c \in done \/ (peer[c] = "up" /\ LastReply(c) = sent[c])

\* With fewer descriptors than clients, accept fails and the listening socket
\* stays ready; yet if every client that reads closes in the end, every one
\* of them is served, though the others may keep their descriptors.
AllServed ==
  <>[](\A c \in Conns \ Slow : peer[c] # "up") =>
    \A c \in Conns \ Slow : (peer[c] # "idle" ~> c \in done)

-----------------------------------------------------------------------------
(* What the answer says of itself. *)

\* reactor.hpp:139 announces a body of 75 bytes, so that every answer has the
\* ResponseLength bytes that header and body take.
ResponseComplete ==
  \A c \in Conns : \A i \in 1..Len(replies[c]) : replies[c][i] = ResponseLength
=============================================================================
