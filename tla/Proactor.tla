------------------------------ MODULE Proactor ------------------------------
(***************************************************************************)
(* The io_uring server of io_uring/my_io_uring.hpp: one thread that        *)
(* submits operations through a ring, and a kernel that completes them     *)
(* meanwhile, in any order, into a second ring.                            *)
(***************************************************************************)
EXTENDS UringLoop

CONSTANT Faults  \* what undefined behaviour of the code may do in this build

ASSUME ProactorAssumption == Faults \subseteq {"lost", "stack"}

VARIABLES
  listening,  \* init_socket succeeded
  dangling,   \* the armed accept holds the address of init's dead locals
  rbuf,       \* rbuf[fd]: the bytes in connect_list[fd].rbuffer
  echoed,     \* history: echoed[c], the bytes sent to c
  lost,       \* history: connections accepted and dropped unseen
  cut         \* history: connections with a send that failed or was short

history == <<echoed, lost, cut>>
srvVars == <<listening, dangling, rbuf, history>>
vars == <<tcpVars, uringVars, loopVars, srvVars>>

\* The n-th byte of a connection, or the terminating 0.
Byte == (Conns \X (1..MaxSend)) \cup {<<NoConn, 0>>}
Zero == <<NoConn, 0>>
Zeros == [k \in 1..BufferLength |-> Zero]

Init ==
  /\ TcpInit
  /\ UringInit
  /\ LoopInit
  /\ listening = FALSE
  /\ dangling = FALSE
  /\ rbuf = [fd \in Fds |-> Zeros]
  /\ echoed = [c \in Conns |-> <<>>]
  /\ lost = {}
  /\ cut = {}

-----------------------------------------------------------------------------
(* set_event_accept, set_event_recv and set_event_send. *)

Accept == Sqe("ACCEPT", ListenFd, 0)
RecvIntoOneMore(fd) == Sqe("READ", fd, BufferLength + 1)  \* variant
RecvInto(fd) == Sqe("READ", fd, BufferLength)
SendFrom(fd, len) == Sqe("WRITE", fd, len)

\* A failed bind is only reported; accept then fails forever.
InitSocket == listening' \in BOOLEAN

\* A ring that cannot be set up is not noticed, and its null pointers are used.
Boot ==
  /\ pc = "boot"
  /\ \/ /\ InitSocket
        /\ sq' = <<Accept>>
        /\ dangling' = TRUE
        /\ pc' = "submit"
     \/ /\ pc' = "crashed"
        /\ UNCHANGED <<listening, sq, dangling>>
  /\ UNCHANGED <<tcpVars, flight, cq, batchVars, rbuf, history>>

-----------------------------------------------------------------------------
(* run: what it does with each completion. *)

InitConnectItem(fd) == rbuf' = [rbuf EXCEPT ![fd] = Zeros]

\* A completed accept is followed by the next one, and by the first recv.
AfterAcceptOnlyRecv(fd) == <<RecvInto(fd)>>  \* variant: accepted once only
AfterAcceptTwice(fd) == <<Accept, Accept, RecvInto(fd)>>  \* variant
AfterAccept(fd) == <<Accept, RecvInto(fd)>>

HandleAccept ==
  /\ Handling("ACCEPT")
  /\ LET connfd == cq[i + 1].res IN
     \/ /\ connfd \in Fds
        /\ Prepare(AfterAccept(connfd))
        /\ InitConnectItem(connfd)
     \/ \* An error is used as descriptor, and as index: what is written up to
        \* errno items before connect_list ends the process or is not noticed.
        /\ connfd \notin Fds
        /\ \/ Prepare(AfterAccept(BadFd))
           \/ pc' = "crashed" /\ UNCHANGED sq
        /\ UNCHANGED rbuf
  /\ UNCHANGED <<tcpVars, listening, dangling, history>>

\* rbuffer[ret] = 0; at ret = BUFFER_LENGTH it is the low byte of rlen, 0 already.
TerminateEarly(fd, ret) == rbuf' = [rbuf EXCEPT ![fd][ret] = Zero]  \* variant
Terminate(fd, ret) ==
  rbuf' = IF ret < BufferLength THEN [rbuf EXCEPT ![fd][ret + 1] = Zero] ELSE rbuf

AtEndIfShort(ret) == ret >= 0 /\ ret < BufferLength  \* variant
AtEnd(ret) == ret = 0

\* An error (ret < 0) neither closes the descriptor nor reads it again.
HandleRead ==
  /\ Handling("READ")
  /\ LET fd == cq[i + 1].fd
         ret == cq[i + 1].res
     IN \/ AtEnd(ret) /\ CloseFd(fd) /\ UNCHANGED <<pc, sq, rbuf>>
        \/ /\ ~AtEnd(ret) /\ ret > 0
           /\ Terminate(fd, ret)
           /\ Prepare(<<SendFrom(fd, ret)>>)
           /\ UNCHANGED <<fdtab, done>>
        \/ ~AtEnd(ret) /\ ret < 0 /\ UNCHANGED <<fdtab, done, pc, sq, rbuf>>
  /\ UNCHANGED <<peer, sent, nread, unread, backlog, listening, dangling, history>>

AfterWriteNothing(fd) == <<>>  \* variant: not read again
AfterWrite(fd) == <<RecvInto(fd)>>

\* The result of the send, short or an error, is not looked at.
HandleWrite ==
  /\ Handling("WRITE")
  /\ Prepare(AfterWrite(cq[i + 1].fd))
  /\ UNCHANGED <<tcpVars, srvVars>>

Run ==
  \/ Loop /\ UNCHANGED srvVars
  \/ HandleAccept \/ HandleRead \/ HandleWrite

-----------------------------------------------------------------------------
(* The kernel. *)

\* The address that init leaves behind lies in the frame of run: a length read
\* there may be refused after the connection was taken, and the address
\* written there may destroy run's variables.
KernelAccept(op) ==
  /\ op.event = "ACCEPT"
  /\ \/ CompleteAccept(op) /\ UNCHANGED <<done, lost, pc>>
     \/ /\ ~listening
        /\ Complete(op, -1)
        /\ UNCHANGED <<backlog, fdtab, done, lost, pc>>
     \/ /\ dangling /\ "stack" \in Faults
        /\ FreeFds # {} /\ CompleteAccept(op)
        /\ pc' = "crashed"
        /\ UNCHANGED <<done, lost>>
     \/ /\ dangling /\ "lost" \in Faults
        /\ FreeFds # {} /\ backlog # <<>>
        /\ backlog' = Tail(backlog)
        /\ lost' = lost \cup {Head(backlog)}
        /\ done' = done \cup {Head(backlog)}
        /\ Complete(op, -1)
        /\ UNCHANGED <<fdtab, pc>>
  /\ dangling' = FALSE
  /\ UNCHANGED <<peer, sent, nread, unread, sq, listening, batchVars, rbuf, echoed, cut>>

\* The next n bytes of c are written to the start of the buffer.
Fill(buf, c, n) ==
  [k \in 1..BufferLength |-> IF k <= n THEN <<c, nread[c] + k>> ELSE buf[k]]

KernelRecv(op) ==
  /\ op.event = "READ"
  /\ \E cnt \in -1..BufferLength :
       /\ CompleteRecv(op, cnt)
       /\ rbuf' = [rbuf EXCEPT ![op.fd] = Fill(@, op.conn, cnt)]
  /\ UNCHANGED <<sent, unread, backlog, fdtab, done, sq, loopVars, listening, dangling,
                 history>>

KernelSend(op) ==
  /\ op.event = "WRITE"
  /\ \E n \in 0..op.len :
       /\ CompleteSend(op, n)
       /\ echoed' = [echoed EXCEPT ![op.conn] = @ \o SubSeq(rbuf[op.fd], 1, n)]
       /\ cut' = IF n < op.len THEN cut \cup {op.conn} ELSE cut
  /\ UNCHANGED <<sent, nread, backlog, fdtab, done, sq, loopVars, listening, dangling,
                 rbuf, lost>>

Kernel(fd) ==
  /\ Running
  /\ \E op \in flight :
       op.fd = fd /\ (KernelAccept(op) \/ KernelRecv(op) \/ KernelSend(op))

ClientStep(c) ==
  Running /\ listening /\ Client(c) /\ UNCHANGED <<uringVars, loopVars, srvVars>>

Next ==
  \/ Boot \/ Run
  \/ \E fd \in AllFds : Kernel(fd)
  \/ \E c \in Conns : ClientStep(c)

Spec == Init /\ [][Next]_vars

(***************************************************************************)
(* run never stops, the kernel completes what can complete, and the        *)
(* clients that are not Slow read what they are sent.                      *)
(***************************************************************************)
ReaderStep(c) == Running /\ ClientRead(c) /\ UNCHANGED <<uringVars, loopVars, srvVars>>

Fairness ==
  /\ WF_vars(Run)
  /\ \A fd \in AllFds : WF_vars(Kernel(fd))
  /\ \A c \in Conns \ Slow : WF_vars(ReaderStep(c))

FairSpec == Spec /\ Fairness
=============================================================================
