-------------------------------- MODULE Tcp --------------------------------
(***************************************************************************)
(* TCP connections and descriptors as the servers of this repository see   *)
(* them: what clients do, and what accept, recv, send and close return.    *)
(* The kernel is not part of the repository; its operations are modelled   *)
(* from how the servers call them.                                         *)
(*                                                                         *)
(* A byte stream is a pair of counters (sent by the client, read by the    *)
(* server): the i-th byte of a connection is told apart by its number.     *)
(***************************************************************************)
EXTENDS Integers, Sequences, FiniteSets

CONSTANTS
  Conns,     \* the connections that clients make, each at most once
  NoConn,    \* what a closed descriptor names
  Abortive,  \* the connections whose client may reset instead of closing
  Slow,      \* the connections whose client may stop reading what it is sent
  MaxFd,     \* the process can open the descriptors 1..MaxFd for connections
  MaxSend,   \* bound: bytes a client sends on one connection
  Terse,     \* bound: the connections whose client sends at most one byte
  Backlog,   \* length of the accept queue
  SndRoom    \* sends that fit the send buffer of a client that is not reading

ASSUME TcpAssumption ==
  /\ NoConn \notin Conns
  /\ Abortive \subseteq Conns
  /\ Slow \subseteq Conns
  /\ MaxFd \in Nat
  /\ MaxSend \in Nat
  /\ Backlog \in Nat
  /\ SndRoom \in Nat

VARIABLES
  peer,      \* peer[c]: what the client of c has done to the connection
  sent,      \* sent[c]: bytes c's client has sent
  nread,     \* nread[c]: bytes of c the server has read
  unread,    \* unread[c]: sends of the server c's client has not read yet
  backlog,   \* connections waiting for accept
  fdtab,     \* fdtab[fd]: the connection the descriptor fd names
  done       \* connections the server has closed

tcpVars == <<peer, sent, nread, unread, backlog, fdtab, done>>

Fds == 1..MaxFd
ListenFd == 0

(***************************************************************************)
(* "up"     connected                                                      *)
(* "fin"    the client has shut its side: end of file after its data       *)
(* "rst"    the client has reset; the error is still to be reported        *)
(* "dead"   the reset has been reported once, by a recv or a send          *)
(* "finrst" reset after end of file: recv keeps returning 0                *)
(***************************************************************************)
PeerState == {"idle", "up", "fin", "rst", "finrst", "dead"}
Broken(c) == peer[c] \in {"rst", "finrst", "dead"}

TcpTypeOK ==
  /\ peer \in [Conns -> PeerState]
  /\ sent \in [Conns -> 0..MaxSend]
  /\ nread \in [Conns -> 0..MaxSend]
  /\ \A c \in Conns : nread[c] <= sent[c]
  /\ unread \in [Conns -> 0..SndRoom]
  /\ backlog \in Seq(Conns)
  /\ fdtab \in [Fds -> Conns \cup {NoConn}]
  /\ done \subseteq Conns

TcpInit ==
  /\ peer = [c \in Conns |-> "idle"]
  /\ sent = [c \in Conns |-> 0]
  /\ nread = [c \in Conns |-> 0]
  /\ unread = [c \in Conns |-> 0]
  /\ backlog = <<>>
  /\ fdtab = [fd \in Fds |-> NoConn]
  /\ done = {}

-----------------------------------------------------------------------------
(* Clients. *)

Connect(c) ==
  /\ peer[c] = "idle"
  /\ Len(backlog) < Backlog
  /\ peer' = [peer EXCEPT ![c] = "up"]
  /\ backlog' = Append(backlog, c)
  /\ UNCHANGED <<sent, nread, unread, fdtab, done>>

ClientSend(c) ==
  /\ peer[c] = "up"
  /\ c \notin done
  /\ sent[c] < MaxSend
  /\ c \in Terse => sent[c] = 0
  /\ sent' = [sent EXCEPT ![c] = @ + 1]
  /\ UNCHANGED <<peer, nread, unread, backlog, fdtab, done>>

ClientRead(c) ==
  /\ unread[c] > 0
  /\ c \notin done
  /\ unread' = [unread EXCEPT ![c] = @ - 1]
  /\ UNCHANGED <<peer, sent, nread, backlog, fdtab, done>>

ClientFin(c) ==
  /\ peer[c] = "up"
  /\ c \notin done
  /\ peer' = [peer EXCEPT ![c] = "fin"]
  /\ UNCHANGED <<sent, nread, unread, backlog, fdtab, done>>

ClientRst(c) ==
  /\ c \in Abortive \ done
  /\ \/ peer[c] = "up" /\ peer' = [peer EXCEPT ![c] = "rst"]
     \/ peer[c] = "fin" /\ peer' = [peer EXCEPT ![c] = "finrst"]
  /\ UNCHANGED <<sent, nread, unread, backlog, fdtab, done>>

Client(c) ==
  Connect(c) \/ ClientSend(c) \/ ClientRead(c) \/ ClientFin(c) \/ ClientRst(c)

-----------------------------------------------------------------------------
(* System calls of the servers. *)

Avail(c) == sent[c] - nread[c]
Readable(c) == Avail(c) > 0 \/ peer[c] # "up"
Writable(c) == unread[c] < SndRoom \/ Broken(c)

FreeFds == {fd \in Fds : fdtab[fd] = NoConn}

\* accept: the first waiting connection on the lowest free descriptor.
AcceptConn(fd) ==
  /\ backlog # <<>>
  /\ fd \in FreeFds
  /\ \A g \in FreeFds : fd <= g
  /\ fdtab' = [fdtab EXCEPT ![fd] = Head(backlog)]
  /\ backlog' = Tail(backlog)

\* recv(len) returns cnt: data if there is any (0 bytes of it for len = 0), or
\* 0 at end of file, or -1 for a reset that was not reported before.
Recv(c, len, cnt) ==
  \/ /\ Avail(c) > 0
     /\ cnt = IF Avail(c) < len THEN Avail(c) ELSE len
     /\ nread' = [nread EXCEPT ![c] = @ + cnt]
     /\ UNCHANGED peer
  \/ /\ Avail(c) = 0
     /\ peer[c] \in {"fin", "finrst", "dead"}
     /\ cnt = 0
     /\ UNCHANGED <<peer, nread>>
  \/ /\ Avail(c) = 0
     /\ peer[c] = "rst"
     /\ cnt = -1
     /\ peer' = [peer EXCEPT ![c] = "dead"]
     /\ UNCHANGED nread

\* send: "sent"; "reset" when it is the call that reports the reset; "pipe"
\* (EPIPE, and SIGPIPE unless suppressed) once the connection is known broken.
Send(c, res) ==
  \/ /\ res = "sent"
     /\ ~Broken(c)
     /\ unread[c] < SndRoom
     /\ unread' = [unread EXCEPT ![c] = @ + 1]
     /\ UNCHANGED peer
  \/ /\ res = "reset"
     /\ peer[c] = "rst"
     /\ peer' = [peer EXCEPT ![c] = "dead"]
     /\ UNCHANGED unread
  \/ /\ res = "pipe"
     /\ peer[c] \in {"finrst", "dead"}
     /\ UNCHANGED <<peer, unread>>

\* close: no effect (EBADF) on a descriptor that is not open.
CloseFd(fd) ==
  /\ fdtab' = [fdtab EXCEPT ![fd] = NoConn]
  /\ done' = done \cup ({fdtab[fd]} \ {NoConn})
=============================================================================
