----------------------------- MODULE SweepProps -----------------------------
(* What makes the select and the poll server correct. *)
EXTENDS Sweep

OpenFds == {fd \in Fds : fdtab[fd] # NoConn}

\* The type of every variable.
TypeOK ==
  /\ TcpTypeOK
  /\ pc \in {"boot", "wait", "accept", "sweep", "send", "exited", "killed", "aborted"}
  /\ nready \in {-1, 1}
  /\ mxfd \in AllFds \cup {Deaf}
  /\ watched \subseteq AllFds
  /\ ready \subseteq AllFds
  /\ cur \in AllFds
  /\ count \in -1..BufferLength
  /\ echoed \in [Conns -> 0..MaxSend]

-----------------------------------------------------------------------------
(* Safety. *)

\* rfds, or fds, holds every open descriptor, and no closed one that is not in
\* stray.
Watches(stray) ==
  /\ OpenFds \cup {ListenFd} \subseteq watched
  /\ watched \subseteq OpenFds \cup {ListenFd} \cup stray

\* Every open descriptor is waited for and swept, although mxfd is only ever
\* raised, descriptors are closed in any order, and accept may fail at any time.
MxfdCoversOpen == Running => \A fd \in OpenFds \cup {ListenFd} : fd <= mxfd

\* accept and recv are called only for descriptors that are readable: what
\* select or poll reported is still so when the sweep comes to it, whatever
\* was accepted and closed in between.
NeverWaits ==
  nready # -1 =>
    /\ pc = "accept" /\ ListenFd \in ready => ReadyToRead(ListenFd)
    /\ pc \in {"accept", "sweep", "send"} =>
         \A fd \in Remaining : ReadyToRead(fd)

\* Whatever an entry of fds holds before poll has written it, and wherever
\* fds[-1] lies, accept is called only when a connection waits, and recv only
\* for open descriptors; for one that is not readable only if it is the highest
\* and equal to mxfd: accepted in this round, for the first time.
Highest(fd) == \A g \in OpenFds : g <= fd
WaitsOnlyForNewest ==
  nready # -1 =>
    /\ pc = "accept" /\ ListenFd \in ready => ReadyToRead(ListenFd)
    /\ pc \in {"accept", "sweep", "send"} =>
         \A fd \in Remaining :
           fd \in OpenFds /\ (ReadyToRead(fd) \/ (fd = mxfd /\ Highest(fd) /\ pc # "accept"))

\* What was read from a client that is still there has been sent back to it,
\* but for what is being sent now.
Pending(c) == IF pc = "send" /\ fdtab[cur] = c THEN count ELSE 0
NothingLost ==
  \A c \in Conns : ~Broken(c) => echoed[c] + Pending(c) = nread[c]

\* A connection is closed only at the end of its stream.
CloseOnlyAtEnd ==
  [][\A c \in done' \ done : peer[c] \notin {"up", "rst"} /\ Avail(c) = 0]_vars

-----------------------------------------------------------------------------
(* The inductive invariant: the safety properties and what they rest on. *)

Dormant == pc = "boot" => OpenFds = {} /\ mxfd = ListenFd

\* A connection is idle, then waiting for accept, then named by one
\* descriptor, then closed for good.
Ownership ==
  /\ \A fd \in OpenFds :
       /\ fdtab[fd] \notin done /\ peer[fdtab[fd]] # "idle"
       /\ \A other \in OpenFds : fdtab[other] = fdtab[fd] => other = fd
  /\ \A j \in 1..Len(backlog) :
       /\ backlog[j] \notin done /\ peer[backlog[j]] # "idle"
       /\ \A fd \in Fds : fdtab[fd] # backlog[j]
       /\ \A k \in 1..Len(backlog) : backlog[k] = backlog[j] => k = j
  /\ \A c \in done : peer[c] # "idle"

\* The descriptors the sweep has not come to, those above mxfd included.
Unswept(fd) ==
  \/ fd > mxfd
  \/ pc = "accept"
  \/ pc \in {"sweep", "send"} /\ cur < fd

\* What was reported of them is still so: an invariant where nothing is
\* reported by chance.
ReadyFresh == \A fd \in ready : Unswept(fd) => ReadyToRead(fd)

\* Where something is, it is about a closed descriptor above all open ones, that
\* poll was not given, and accept may have opened that as the new mxfd.
ReportsKept ==
  \A fd \in ready : Unswept(fd) =>
    \/ ReadyToRead(fd)
    \/ fd > mxfd /\ fd \in FreeFds /\ Highest(fd)
    \/ fd = mxfd /\ fd \in OpenFds /\ Highest(fd) /\ pc # "accept"

\* recv fails on a closed descriptor, and is called for one only after select
\* has failed.
OnStray == nready = -1 /\ cur \in FreeFds /\ count = -1

\* send is called on an open descriptor, with a length that recv returned and
\* that is not 0; it is the -1 of an error only after a reset.
SendsToOpen ==
  pc = "send" => OnStray \/ (cur \in OpenFds /\ (count > 0 \/ Broken(fdtab[cur])))

SweepInv ==
  /\ TypeOK
  /\ Dormant
  /\ Ownership
  /\ nready # -1 => ReportsKept
  /\ SendsToOpen
  /\ NothingLost

-----------------------------------------------------------------------------
(* The conversation each client has with the server. *)

FdsOf(c) == {fd \in Fds : fdtab[fd] = c}

Phase(c) ==
  CASE c \in done -> "over"
    [] c \notin done /\ FdsOf(c) = {} -> "waiting"
    [] c \notin done /\ pc \in {"send", "killed"} /\ cur \in FdsOf(c) -> "answering"
    [] OTHER -> "listening"

Talk == INSTANCE Conversation WITH
  phase <- [c \in Conns |-> Phase(c)],
  heard <- nread,
  said <- echoed,
  broken <- {c \in Conns : Broken(c)}

\* The server takes turns with each client.
TakesTurns == Talk!Spec
=============================================================================
