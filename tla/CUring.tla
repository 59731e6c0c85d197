------------------------------- MODULE CUring -------------------------------
(***************************************************************************)
(* The io_uring server of io_uring/c_io_uring.cc.  It runs the loop of     *)
(* Proactor, but has one buffer for all clients: the kernel reads every    *)
(* request into it, main formats every answer in it, and the kernel sends  *)
(* every answer from it.                                                   *)
(***************************************************************************)
EXTENDS UringLoop

CONSTANT ResponseLength  \* what sprintf returns: the length of the answer

Text == "text"  \* a byte of the formatted answer
Blank == "blank"

ASSUME CUringAssumption ==
  /\ ResponseLength \in 1..BufferLength
  /\ Text \notin Conns /\ Blank \notin Conns

VARIABLES
  sockfd,     \* what init_server returned
  buffer,     \* buffer[k]: who wrote the k-th byte, a client or the server
  answers,    \* history: answers[c], how many sends to c there were
  authors     \* history: authors[c], who had written the bytes that were sent to c

history == <<answers, authors>>
srvVars == <<sockfd, buffer, history>>
vars == <<tcpVars, uringVars, loopVars, srvVars>>

Init ==
  /\ TcpInit
  /\ UringInit
  /\ LoopInit
  /\ sockfd = BadFd
  /\ buffer = [k \in 1..BufferLength |-> Blank]
  /\ answers = [c \in Conns |-> 0]
  /\ authors = [c \in Conns |-> {}]

-----------------------------------------------------------------------------
(* set_event_accept, set_event_recv and set_event_send. *)

Accept(listenfd) == Sqe("ACCEPT", listenfd, 0)
RecvIntoOneMore(fd) == Sqe("READ", fd, BufferLength + 1)  \* variant
RecvInto(fd) == Sqe("READ", fd, BufferLength)
SendFrom(fd, len) == Sqe("WRITE", fd, len)

\* When bind fails init_server returns -1, which is not looked at either.
InitServer == sockfd' \in {ListenFd, BadFd}

Boot ==
  /\ pc = "boot"
  /\ \/ /\ InitServer
        /\ sq' = <<Accept(sockfd')>>
        /\ pc' = "submit"
     \/ /\ pc' = "crashed"
        /\ UNCHANGED <<sockfd, sq>>
  /\ UNCHANGED <<tcpVars, flight, cq, batchVars, buffer, history>>

-----------------------------------------------------------------------------
(* main: what it does with each completion. *)

AfterAcceptOnlyRecv(fd) == <<RecvInto(fd)>>  \* variant: accepted once only
AfterAccept(fd) == <<Accept(sockfd), RecvInto(fd)>>

\* An error of accept is used as a descriptor.
HandleAccept ==
  /\ Handling("ACCEPT")
  /\ Prepare(AfterAccept(cq[i + 1].res))
  /\ UNCHANGED <<tcpVars, srvVars>>

\* sprintf: the answer replaces the start of the buffer, whosever it is now.
FormatNothing == UNCHANGED buffer  \* variant: the request is sent back
Format == buffer' = [k \in 1..BufferLength |->
                       IF k <= ResponseLength THEN Text ELSE buffer[k]]

AfterReadBoth(fd) ==  \* variant: does not wait for the send before reading on
  <<SendFrom(fd, ResponseLength), RecvInto(fd)>>
AfterRead(fd) == <<SendFrom(fd, ResponseLength)>>

\* An error (ret < 0) neither closes the descriptor nor reads it again.
HandleRead ==
  /\ Handling("READ")
  /\ LET fd == cq[i + 1].fd
         ret == cq[i + 1].res
     IN \/ ret = 0 /\ CloseFd(fd) /\ UNCHANGED <<pc, sq, buffer>>
        \/ ret > 0 /\ Format /\ Prepare(AfterRead(fd)) /\ UNCHANGED <<fdtab, done>>
        \/ ret < 0 /\ UNCHANGED <<fdtab, done, pc, sq, buffer>>
  /\ UNCHANGED <<peer, sent, nread, unread, backlog, sockfd, history>>

AfterWriteNothing(fd) == <<>>  \* variant: not read again
AfterWrite(fd) == <<RecvInto(fd)>>

HandleWrite ==
  /\ Handling("WRITE")
  /\ Prepare(AfterWrite(cq[i + 1].fd))
  /\ UNCHANGED <<tcpVars, srvVars>>

Run ==
  \/ Loop /\ UNCHANGED srvVars
  \/ HandleAccept \/ HandleRead \/ HandleWrite

-----------------------------------------------------------------------------
(* The kernel. *)

KernelAccept(op) ==
  /\ op.event = "ACCEPT"
  /\ CompleteAccept(op)
  /\ UNCHANGED <<peer, sent, nread, unread, done, sq, loopVars, srvVars>>

KernelRecv(op) ==
  /\ op.event = "READ"
  /\ \E cnt \in -1..BufferLength :
       /\ CompleteRecv(op, cnt)
       /\ buffer' = [k \in 1..BufferLength |-> IF k <= cnt THEN op.conn ELSE buffer[k]]
  /\ UNCHANGED <<sent, unread, backlog, fdtab, done, sq, loopVars, sockfd, history>>

KernelSend(op) ==
  /\ op.event = "WRITE"
  /\ \E n \in 0..op.len :
       /\ CompleteSend(op, n)
       /\ answers' = [answers EXCEPT ![op.conn] = IF n > 0 THEN @ + 1 ELSE @]
       /\ authors' = [authors EXCEPT ![op.conn] = @ \cup {buffer[k] : k \in 1..n}]
  /\ UNCHANGED <<sent, nread, backlog, fdtab, done, sq, loopVars, sockfd, buffer>>

Kernel(fd) ==
  /\ Running
  /\ \E op \in flight :
       op.fd = fd /\ (KernelAccept(op) \/ KernelRecv(op) \/ KernelSend(op))

ClientStep(c) ==
  /\ Running /\ sockfd = ListenFd
  /\ Client(c)
  /\ UNCHANGED <<uringVars, loopVars, srvVars>>

Next ==
  \/ Boot \/ Run
  \/ \E fd \in AllFds : Kernel(fd)
  \/ \E c \in Conns : ClientStep(c)

Spec == Init /\ [][Next]_vars

(***************************************************************************)
(* main never stops, the kernel completes what can complete, and the       *)
(* clients that are not Slow read what they are sent.                      *)
(***************************************************************************)
ReaderStep(c) == Running /\ ClientRead(c) /\ UNCHANGED <<uringVars, loopVars, srvVars>>

Fairness ==
  /\ WF_vars(Run)
  /\ \A fd \in AllFds : WF_vars(Kernel(fd))
  /\ \A c \in Conns \ Slow : WF_vars(ReaderStep(c))

FairSpec == Spec /\ Fairness
=============================================================================
