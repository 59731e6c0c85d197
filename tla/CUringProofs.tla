---------------------------- MODULE CUringProofs ----------------------------
(***************************************************************************)
(* Proofs about the single-file io_uring server, for every value of the    *)
(* constants.                                                              *)
(***************************************************************************)
EXTENDS CUringProps, CqProofs

SockType == sockfd \in {ListenFd, BadFd}

-----------------------------------------------------------------------------
(* Every step preserves what the loop and the kernel rest on. *)

\* What is handled, and what it may be answered with.
LEMMA HandledKinds ==
  ASSUME RingInv
  PROVE  /\ Handling("ACCEPT") => cq[i + 1].res \in Fds \cup {BadFd}
         /\ Handling("READ") =>
              /\ cq[i + 1].res \in -1..BufferLength
              /\ cq[i + 1].res >= 0 => cq[i + 1].fd \in Fds /\ cq[i + 1].conn \in Conns
         /\ Handling("WRITE") => cq[i + 1].fd \in Fds
         /\ \A fd \in Fds :
              /\ RecvInto(fd) \in Sqes /\ RecvInto(fd).event = "READ"
              /\ RecvInto(fd).fd = fd
              /\ SendFrom(fd, ResponseLength) \in Sqes
              /\ SendFrom(fd, ResponseLength).event = "WRITE"
              /\ SendFrom(fd, ResponseLength).fd = fd
              /\ SendFrom(fd, ResponseLength).len = ResponseLength
<1>1. ASSUME NEW event, Handling(event)
      PROVE  cq[i + 1] \in Cqes /\ cq[i + 1].event = event
  BY <1>1, HandlingEffect
<1>2. Handling("ACCEPT") => cq[i + 1].res \in Fds \cup {BadFd}
  BY <1>1, CqeKinds, FdFacts
<1>3. Handling("READ") =>
        /\ cq[i + 1].res \in -1..BufferLength
        /\ cq[i + 1].res >= 0 => cq[i + 1].fd \in Fds /\ cq[i + 1].conn \in Conns
  BY <1>1, CqeKinds, FdFacts
<1>4. Handling("WRITE") => cq[i + 1].fd \in Fds
  BY <1>1, CqeKinds
<1>5. ResponseLength \in 1..BufferLength
  BY CUringAssumption DEF CUringAssumption
<1> QED
  BY <1>2, <1>3, <1>4, <1>5, PreparedKinds DEF RecvInto, SendFrom, Sqe

LEMMA RingStep ==
  ASSUME RingInv, SockType, [Next]_vars
  PROVE  RingInv' /\ SockType'
<1>1. CASE Boot
  <2>1. /\ pc = "boot" /\ UNCHANGED <<tcpVars, flight, cq, batchVars>>
        /\ \/ /\ sockfd' \in {ListenFd, BadFd}
              /\ sq' = <<Sqe("ACCEPT", sockfd', 0)>> /\ pc' = "submit"
           \/ UNCHANGED <<sockfd, sq>> /\ pc' = "crashed"
    BY <1>1 DEF Boot, InitServer, Accept
  <2> QED
    BY <2>1, BootInv DEF SockType
<1>2. CASE Loop /\ UNCHANGED srvVars
  BY <1>2, LoopInv DEF srvVars, SockType
<1>3. CASE HandleAccept
  <2>1. /\ Handling("ACCEPT") /\ UNCHANGED <<tcpVars, srvVars>>
        /\ Prepare(<<Sqe("ACCEPT", sockfd, 0), Sqe("READ", cq[i + 1].res, BufferLength)>>)
    BY <1>3 DEF HandleAccept, AfterAccept, Accept, RecvInto
  <2> QED
    BY <2>1, AcceptHandled DEF SockType, srvVars
<1>4. CASE HandleRead
  <2>1. PICK fd, ret : fd = cq[i + 1].fd /\ ret = cq[i + 1].res
    OBVIOUS
  <2>2. /\ Handling("READ") /\ UNCHANGED <<peer, sent, nread, unread, backlog, sockfd>>
        /\ \/ ret = 0 /\ CloseFd(fd) /\ UNCHANGED <<pc, sq>>
           \/ /\ ret > 0 /\ Prepare(<<SendFrom(fd, ResponseLength)>>)
              /\ UNCHANGED <<fdtab, done>>
           \/ ret < 0 /\ UNCHANGED <<fdtab, done, pc, sq>>
    BY <1>4, <2>1 DEF HandleRead, AfterRead
  <2>3. CASE ret = 0 /\ CloseFd(fd) /\ UNCHANGED <<pc, sq>>
    BY <2>1, <2>2, <2>3, HandleClose DEF SockType
  <2>4. CASE /\ ret > 0 /\ Prepare(<<SendFrom(fd, ResponseLength)>>)
             /\ UNCHANGED <<fdtab, done>>
    <3>1. fd \in Fds
      BY <2>1, <2>2, <2>4, HandledKinds, FdFacts
    <3>2. /\ SendFrom(fd, ResponseLength) \in Sqes
          /\ SendFrom(fd, ResponseLength).event # "ACCEPT"
          /\ SendFrom(fd, ResponseLength).fd = fd
      BY <3>1, HandledKinds
    <3> QED
      BY <2>1, <2>2, <2>4, <3>1, <3>2, TransferHandled DEF tcpVars, SockType
  <2>5. CASE ret < 0 /\ UNCHANGED <<fdtab, done, pc, sq>>
    BY <2>1, <2>2, <2>5, HandleDrop DEF tcpVars, SockType
  <2> QED
    BY <2>2, <2>3, <2>4, <2>5
<1>5. CASE HandleWrite
  <2>1. /\ Handling("WRITE") /\ UNCHANGED <<tcpVars, srvVars>>
        /\ Prepare(<<RecvInto(cq[i + 1].fd)>>)
    BY <1>5 DEF HandleWrite, AfterWrite
  <2>2. /\ cq[i + 1].fd \in Fds /\ RecvInto(cq[i + 1].fd) \in Sqes
        /\ RecvInto(cq[i + 1].fd).event # "ACCEPT"
        /\ RecvInto(cq[i + 1].fd).fd = cq[i + 1].fd
    BY <2>1, HandledKinds
  <2> QED
    BY <2>1, <2>2, TransferHandled DEF SockType, srvVars
<1>6. ASSUME NEW op \in flight, Running, KernelAccept(op)
      PROVE  RingInv' /\ SockType'
  <2>1. /\ op.event = "ACCEPT" /\ CompleteAccept(op)
        /\ UNCHANGED <<peer, sent, nread, unread, done, sq, pc, batchVars, sockfd>>
    BY <1>6 DEF KernelAccept, loopVars, srvVars
  <2> QED
    BY <1>6, <2>1, AcceptDone, AcceptFailed DEF CompleteAccept, SockType
<1>7. ASSUME NEW op \in flight, Running, KernelRecv(op)
      PROVE  RingInv' /\ SockType'
  <2>1. PICK cnt \in -1..BufferLength : CompleteRecv(op, cnt)
    BY <1>7 DEF KernelRecv
  <2> QED
    BY <1>7, <2>1, RecvDone DEF KernelRecv, SockType
<1>8. ASSUME NEW op \in flight, Running, KernelSend(op)
      PROVE  RingInv' /\ SockType'
  <2>1. PICK n \in 0..op.len : CompleteSend(op, n)
    BY <1>8 DEF KernelSend
  <2> QED
    BY <1>8, <2>1, SendDone DEF KernelSend, SockType
<1>9. ASSUME NEW c \in Conns, ClientStep(c)
      PROVE  RingInv' /\ SockType'
  BY <1>9, ClientInv DEF ClientStep, srvVars, SockType
<1>10. CASE UNCHANGED vars
  BY <1>10, StutterInv DEF vars, srvVars, SockType
<1> QED
  BY <1>1, <1>2, <1>3, <1>4, <1>5, <1>6, <1>7, <1>8, <1>9, <1>10
  DEF Next, Run, Kernel

-----------------------------------------------------------------------------
(* The one buffer. *)

Author == Conns \cup {Text, Blank}

BufferTypes ==
  /\ buffer \in [1..BufferLength -> Author]
  /\ answers \in [Conns -> Nat]
  /\ authors \in [Conns -> SUBSET Author]

BufferInv == BufferTypes /\ AnswersDue /\ AnsweredWasRead /\ NeverOwnRequest

\* Answers are due wherever a request was read, and safe wherever one is sent.
Sound ==
  \A fd, n :
    /\ Writing(fd, n) => Due(fd) /\ NotOwn(fd) /\ n = ResponseLength
    /\ Reported(fd, n) => Due(fd)

LEMMA AnswersDueMeaning == AnswersDue <=> Sound
BY DEF AnswersDue, Sound, Writing, Reported

\* What AnswersDue says after a step, in the same words.
LEMMA AnswersDueNext ==
  ASSUME \A fd, n : /\ Writing(fd, n)' =>
                         Due(fd)' /\ NotOwn(fd)' /\ n = ResponseLength
                    /\ Reported(fd, n)' => Due(fd)'
  PROVE  AnswersDue'
<1> DEFINE DueAt(fd) == answers'[fdtab'[fd]] < nread'[fdtab'[fd]]
           SafeAt(fd) == \A j \in 1..ResponseLength : buffer'[j] \notin {fdtab'[fd], Blank}
<1>1. \A fd, n : Writing(fd, n)' => DueAt(fd) /\ SafeAt(fd) /\ n = ResponseLength
  BY DEF Due, NotOwn
<1>2. \A fd, n : Reported(fd, n)' => DueAt(fd)
  BY DEF Due
<1> HIDE DEF DueAt, SafeAt
<1>3. \A k \in 1..Len(sq') :
          sq'[k].event = "WRITE" =>
            DueAt(sq'[k].fd) /\ SafeAt(sq'[k].fd) /\ sq'[k].len = ResponseLength
  BY <1>1 DEF Writing
<1>4. \A op \in flight' :
          op.event = "WRITE" => DueAt(op.fd) /\ SafeAt(op.fd) /\ op.len = ResponseLength
  BY <1>1 DEF Writing
<1>5. \A k \in 1..Len(Unhandled') :
          Unhandled'[k].event = "READ" /\ Unhandled'[k].res > 0 => DueAt(Unhandled'[k].fd)
  BY <1>2 DEF Reported
<1> QED
  BY <1>3, <1>4, <1>5 DEF AnswersDue, Due, NotOwn, DueAt, SafeAt

SameTurn(fd) ==
  /\ fdtab'[fd] = fdtab[fd]
  /\ nread'[fdtab[fd]] = nread[fdtab[fd]] /\ answers'[fdtab[fd]] = answers[fdtab[fd]]

\* What is in use is as it was, and the buffer too unless main has formatted.
LEMMA BufferKept ==
  ASSUME BufferInv, UNCHANGED <<nread, answers, authors>>, BufferTypes',
         \A fd, n : /\ Writing(fd, n)' =>
                         /\ NotOwn(fd)' \/ UNCHANGED buffer
                         /\ SameTurn(fd)
                         /\ \/ Writing(fd, n)
                            \/ n = ResponseLength /\ (\E m : Reported(fd, m)) /\ NotOwn(fd)'
                    /\ Reported(fd, n)' => Reported(fd, n) /\ SameTurn(fd)
  PROVE  BufferInv'
<1>1. Sound
  BY AnswersDueMeaning DEF BufferInv
<1>2. \A fd, n : /\ Writing(fd, n)' => Due(fd)' /\ NotOwn(fd)' /\ n = ResponseLength
                 /\ Reported(fd, n)' => Due(fd)'
  BY <1>1 DEF Sound, Due, NotOwn, SameTurn
<1>3. AnswersDue'
  BY <1>2, AnswersDueNext
<1>4. AnsweredWasRead' /\ NeverOwnRequest'
  BY DEF BufferInv, AnsweredWasRead, NeverOwnRequest
<1> QED
  BY <1>3, <1>4 DEF BufferInv

LEMMA BufferQuiet ==
  ASSUME BufferInv, UNCHANGED <<fdtab, nread, buffer, answers, authors>>,
         \A fd, n : /\ Writing(fd, n)' => Writing(fd, n)
                    /\ Reported(fd, n)' => Reported(fd, n)
  PROVE  BufferInv'
BY BufferKept DEF BufferInv, BufferTypes, SameTurn

LEMMA BufferBoot ==
  ASSUME RingInv, BufferInv, Boot
  PROVE  BufferInv'
<1>1. /\ UNCHANGED <<fdtab, nread, buffer, answers, authors>> /\ Unhandled' = Unhandled
      /\ flight = {} /\ flight' = flight /\ sq = <<>>
      /\ sq' = <<Accept(sockfd')>> \/ UNCHANGED sq
  BY DEF Boot, tcpVars, batchVars, history, Unhandled, RingInv, Dormant
<1>2. \A k \in 1..Len(sq') : sq'[k].event # "WRITE"
  <2>1. CASE sq' = <<Accept(sockfd')>>
    BY <2>1 DEF Accept, Sqe
  <2>2. CASE UNCHANGED sq
    BY <1>1, <2>2, EmptySeq
  <2> QED
    BY <1>1, <2>1, <2>2
<1>3. \A fd, n : ~Writing(fd, n)' /\ (Reported(fd, n)' => Reported(fd, n))
  BY <1>1, <1>2 DEF Writing, Reported
<1> QED
  BY <1>1, <1>3, BufferQuiet

LEMMA BufferLoop ==
  ASSUME RingInv, BufferInv, Loop, UNCHANGED srvVars
  PROVE  BufferInv'
<1>1. UNCHANGED <<fdtab, nread, buffer, answers, authors>>
  BY DEF Loop, Submit, Submitted, Peek, Advance, tcpVars, srvVars, history
<1> QED
  BY <1>1, LoopMoves, BufferQuiet

LEMMA BufferHandleAccept ==
  ASSUME RingInv, SockType, BufferInv, HandleAccept
  PROVE  BufferInv'
<1>1. /\ Handling("ACCEPT") /\ UNCHANGED <<fdtab, nread, buffer, answers, authors>>
      /\ cq[i + 1].res \in Fds \cup {BadFd}
      /\ Prepare(<<Accept(sockfd), RecvInto(cq[i + 1].res)>>)
  BY HandledKinds DEF HandleAccept, AfterAccept, tcpVars, srvVars, history
<1> DEFINE a == Accept(sockfd)
           r == RecvInto(cq[i + 1].res)
           new == <<a, r>>
<1>2. a \in Sqes /\ a.event = "ACCEPT" /\ r \in Sqes /\ r.event = "READ"
  BY <1>1, PreparedKinds DEF SockType, Accept, RecvInto, Sqe
<1>3. Prepare(new)
  BY <1>1
<1> HIDE DEF a, r
<1>4. new \in Seq(Sqes) /\ \A k \in 1..Len(new) : new[k].event # "WRITE"
  BY <1>2
<1> HIDE DEF new
<1>5. \A fd, n : /\ Writing(fd, n)' => Writing(fd, n)
                 /\ Reported(fd, n)' => Reported(fd, n)
  BY <1>1, <1>3, <1>4, HandlingMoves
<1> QED
  BY <1>1, <1>5, BufferQuiet

\* The answer replaces whatever was in the buffer: it is nobody's request.
LEMMA BufferHandleRead ==
  ASSUME RingInv, BufferInv, HandleRead
  PROVE  BufferInv'
<1>1. PICK fd, ret : fd = cq[i + 1].fd /\ ret = cq[i + 1].res
  OBVIOUS
<1>2. /\ Handling("READ") /\ UNCHANGED <<nread, answers, authors>> /\ Running
      /\ cq[i + 1].event = "READ" /\ cq[i + 1] = Unhandled[1] /\ 1 \in 1..Len(Unhandled)
  BY HandlingEffect DEF HandleRead, history
<1>3. \/ /\ ret = 0 /\ CloseFd(fd) /\ UNCHANGED <<sq, buffer>>
      \/ /\ ret > 0 /\ Format /\ Prepare(<<SendFrom(fd, ResponseLength)>>)
         /\ UNCHANGED fdtab
      \/ UNCHANGED <<fdtab, sq, buffer>>
  BY <1>1 DEF HandleRead, AfterRead
<1>4. \A g, n : Writing(g, n) \/ Reported(g, n) => g \in OpenFds
  BY <1>2, InUse
<1>5. fdtab \in [Fds -> Conns \cup {NoConn}] /\ BufferTypes
  BY DEF RingInv, TcpTypeOK, BufferInv
<1>6. CASE UNCHANGED <<sq, buffer>>
  <2>1. <<>> \in Seq(Sqes) /\ \A k \in 1..Len(<<>>) : FALSE
    BY EmptySeq
  <2>2. \A g, n : /\ Writing(g, n)' => Writing(g, n) /\ g # fd
                  /\ Reported(g, n)' => Reported(g, n) /\ g # fd
    BY <1>1, <1>2, <1>6, <2>1, HandlingMoves DEF CarriesOn
  <2>4. CASE CloseFd(fd) \/ UNCHANGED fdtab
    <3>1. \A g \in Fds : g # fd => fdtab'[g] = fdtab[g]
      BY <1>5, <2>4 DEF CloseFd
    <3> QED
      BY <1>2, <1>4, <1>5, <1>6, <2>2, <3>1, BufferKept DEF BufferTypes, SameTurn, OpenFds
  <2> QED
    BY <1>3, <1>6, <2>4
<1>7. CASE /\ ret > 0 /\ Format /\ Prepare(<<SendFrom(fd, ResponseLength)>>)
           /\ UNCHANGED fdtab
  <2>1. fd \in Fds /\ ret > 0
    BY <1>1, <1>2, <1>7, HandledKinds, FdFacts
  <2> DEFINE s == SendFrom(fd, ResponseLength)
             new == <<s>>
  <2>2. s \in Sqes /\ s.fd = fd /\ s.len = ResponseLength
    BY <2>1, HandledKinds
  <2>3. Prepare(new)
    BY <1>7
  <2> HIDE DEF s
  <2>4. new \in Seq(Sqes) /\ \A k \in 1..Len(new) : new[k] = s
    BY <2>2
  <2> HIDE DEF new
  <2>5. \A g, n :
          /\ Writing(g, n)' =>
               \/ Writing(g, n) /\ ~CarriesOn(cq[i + 1], g)
               \/ \E k \in 1..Len(new) :
                    new[k].event = "WRITE" /\ new[k].fd = g /\ new[k].len = n
          /\ Reported(g, n)' => Reported(g, n) /\ ~CarriesOn(cq[i + 1], g)
    BY <1>2, <2>3, <2>4, HandlingMoves
  <2>6. \A g, n :
          /\ Writing(g, n)' => Writing(g, n) \/ (g = fd /\ n = ResponseLength)
          /\ Reported(g, n)' => Reported(g, n)
    BY <2>2, <2>4, <2>5
  <2>7. Reported(fd, ret)
    BY <1>1, <1>2, <2>1 DEF Reported
  <2>8. BufferTypes' /\ \A g \in OpenFds : NotOwn(g)'
    <3>4. ResponseLength \in Nat /\ 1..ResponseLength \subseteq 1..BufferLength
      BY CUringAssumption, FdFacts DEF CUringAssumption
    <3>5. buffer' = [k \in 1..BufferLength |->
                       IF k <= ResponseLength THEN Text ELSE buffer[k]]
      BY <1>7 DEF Format
    <3>6. buffer' \in [1..BufferLength -> Author]
      BY <1>5, <3>5 DEF BufferTypes, Author
    <3>7. \A k \in 1..ResponseLength : buffer'[k] = Text
      BY <3>4, <3>5
    <3>1. /\ buffer' \in [1..BufferLength -> Author]
          /\ \A k \in 1..ResponseLength : buffer'[k] = Text
      BY <3>6, <3>7
    <3>2. \A g \in OpenFds : fdtab'[g] \in Conns
      BY <1>5, <1>7 DEF OpenFds
    <3>3. Text \notin Conns /\ Text # Blank
      BY CUringAssumption DEF CUringAssumption, Text, Blank
    <3> QED
      BY <1>2, <1>5, <3>1, <3>2, <3>3 DEF BufferTypes, NotOwn
  <2>9. \A g, n : Writing(g, n)' \/ Reported(g, n)' => g \in OpenFds
    BY <1>4, <2>6, <2>7
  <2>10. \A g : SameTurn(g)
    BY <1>2, <1>7 DEF SameTurn
  <2> QED
    BY <1>2, <2>6, <2>7, <2>8, <2>9, <2>10, BufferKept
<1> QED
  BY <1>3, <1>6, <1>7

LEMMA BufferHandleWrite ==
  ASSUME RingInv, BufferInv, HandleWrite
  PROVE  BufferInv'
<1>1. /\ Handling("WRITE") /\ Prepare(<<RecvInto(cq[i + 1].fd)>>)
      /\ UNCHANGED <<fdtab, nread, buffer, answers, authors>>
  BY DEF HandleWrite, AfterWrite, tcpVars, srvVars, history
<1> DEFINE s == RecvInto(cq[i + 1].fd)
           new == <<s>>
<1>2. s \in Sqes /\ s.event = "READ"
  BY <1>1, HandledKinds
<1>3. Prepare(new)
  BY <1>1
<1> HIDE DEF s
<1>4. new \in Seq(Sqes) /\ \A k \in 1..Len(new) : new[k].event # "WRITE"
  BY <1>2
<1> HIDE DEF new
<1>5. \A fd, n : /\ Writing(fd, n)' => Writing(fd, n)
                 /\ Reported(fd, n)' => Reported(fd, n)
  BY <1>1, <1>3, <1>4, HandlingMoves
<1> QED
  BY <1>1, <1>5, BufferQuiet

LEMMA BufferAccept ==
  ASSUME RingInv, BufferInv, Running, NEW op \in flight, KernelAccept(op)
  PROVE  BufferInv'
<1>1. /\ op.event = "ACCEPT"
      /\ UNCHANGED <<nread, sq, buffer, answers, authors, batchVars>>
  BY DEF KernelAccept, loopVars, srvVars, history
<1>2. PICK res \in Fds \cup {-1} :
        /\ Complete(op, res)
        /\ \A g \in OpenFds : fdtab'[g] = fdtab[g]
  <2>1. CASE \E fd \in Fds : AcceptConn(fd) /\ Complete(op, fd)
    <3>1. PICK fd \in Fds : AcceptConn(fd) /\ Complete(op, fd)
      BY <2>1
    <3>2. \A g \in OpenFds : fdtab'[g] = fdtab[g]
      BY <3>1 DEF AcceptConn, FreeFds, OpenFds, RingInv, TcpTypeOK
    <3> QED
      BY <3>1, <3>2
  <2>2. CASE Complete(op, -1) /\ UNCHANGED fdtab
    BY <2>2
  <2> QED
    BY <2>1, <2>2 DEF KernelAccept, CompleteAccept
<1>3. Cqe(op, res) \in Cqes
  BY <1>1, CompletedKinds DEF RingInv, UringTypeOK
<1>4. \A fd, n : /\ Writing(fd, n)' => Writing(fd, n)
                 /\ Reported(fd, n)' => Reported(fd, n)
  BY <1>1, <1>2, <1>3, CompleteMoves
<1>5. \A fd, n : Writing(fd, n)' \/ Reported(fd, n)' =>
                   (Writing(fd, n) \/ Reported(fd, n)) /\ SameTurn(fd)
  BY <1>1, <1>2, <1>4, InUse DEF SameTurn
<1> QED
  BY <1>1, <1>4, <1>5, BufferKept DEF BufferInv, BufferTypes

\* A recv overwrites what is being sent to others with what its own client
\* has sent, and makes one more answer due.
LEMMA BufferRecv ==
  ASSUME RingInv, BufferInv, Running, NEW op \in flight, KernelRecv(op)
  PROVE  BufferInv'
<1>1. PICK fd \in Fds, c \in Conns : fd = op.fd /\ c = op.conn
  BY OpOwner DEF KernelRecv
<1>2. PICK cnt \in -1..BufferLength :
        /\ Recv(c, BufferLength, cnt) /\ Complete(op, cnt)
        /\ buffer' = [k \in 1..BufferLength |-> IF k <= cnt THEN c ELSE buffer[k]]
  BY <1>1, OpOwner DEF KernelRecv, CompleteRecv
<1>3. /\ op.event = "READ"
      /\ UNCHANGED <<sent, unread, backlog, fdtab, done, sq, batchVars, answers, authors>>
      /\ fdtab[fd] = c /\ \A g \in OpenFds : g # fd => fdtab[g] # c
  BY <1>1, OpOwner DEF KernelRecv, loopVars, history
<1>4. /\ BufferLength \in Nat \ {0} /\ cnt \in Int /\ TcpTypeOK /\ Cqe(op, cnt) \in Cqes
  BY <1>3, FdFacts, CompletedKinds DEF RingInv, UringTypeOK
<1>5. /\ nread' = [nread EXCEPT ![c] = @ + (IF cnt > 0 THEN cnt ELSE 0)]
      /\ nread \in [Conns -> 0..MaxSend] /\ MaxSend \in Nat
  BY <1>2, <1>3, <1>4, RecvEffect, TcpAssumption DEF TcpTypeOK, TcpAssumption
<1>6. /\ \A x \in Conns : nread[x] \in Nat /\ nread'[x] \in Nat /\ nread[x] <= nread'[x]
      /\ \A x \in Conns : x # c => nread'[x] = nread[x]
      /\ cnt > 0 => nread[c] < nread'[c]
  BY <1>4, <1>5
<1>7. BufferTypes /\ AnsweredWasRead /\ NeverOwnRequest /\ Sound
  BY AnswersDueMeaning DEF BufferInv
<1>8. BufferTypes'
  <2>1. buffer' \in [1..BufferLength -> Author]
    BY <1>2, <1>7 DEF BufferTypes, Author
  <2> QED
    BY <1>3, <1>7, <2>1 DEF BufferTypes
<1>9. \A g, n : /\ Writing(g, n)' => Writing(g, n) /\ g # fd
                /\ Reported(g, n)' =>
                     \/ Reported(g, n) /\ g # fd
                     \/ g = fd /\ n = cnt /\ n > 0
  BY <1>1, <1>2, <1>3, <1>4, CompleteMoves
<1>10. \A g, n : (Writing(g, n) \/ Reported(g, n)) /\ g # fd =>
                   fdtab[g] \in Conns /\ fdtab[g] # c
  <2> TAKE g, n
  <2> HAVE (Writing(g, n) \/ Reported(g, n)) /\ g # fd
  <2>1. g \in OpenFds
    BY InUse
  <2> QED
    BY <1>3, <2>1 DEF OpenFds, RingInv, TcpTypeOK
<1>11. \A g, n : Writing(g, n)' => Due(g)' /\ NotOwn(g)' /\ n = ResponseLength
  <2> TAKE g, n
  <2> HAVE Writing(g, n)'
  <2>1. Writing(g, n) /\ g # fd /\ fdtab[g] \in Conns /\ fdtab[g] # c
    BY <1>9, <1>10
  <2>2. Due(g) /\ NotOwn(g) /\ n = ResponseLength
    BY <1>7, <2>1 DEF Sound
  <2>3. Due(g)'
    BY <1>3, <1>6, <2>1, <2>2 DEF Due
  <2>4. \A k \in 1..ResponseLength : k \in 1..BufferLength
    BY CUringAssumption, FdFacts DEF CUringAssumption
  <2>5. c # Blank
    BY CUringAssumption DEF CUringAssumption
  <2>6. NotOwn(g)'
    BY <1>2, <1>3, <2>1, <2>2, <2>4, <2>5 DEF NotOwn
  <2> QED
    BY <2>2, <2>3, <2>6
<1>12. answers[c] \in Nat /\ answers[c] <= nread[c]
  BY <1>7 DEF BufferTypes, AnsweredWasRead
<1>13. \A g, n : Reported(g, n)' => Due(g)'
  <2> TAKE g, n
  <2> HAVE Reported(g, n)'
  <2>1. CASE Reported(g, n) /\ g # fd
    <3>1. fdtab[g] \in Conns /\ fdtab[g] # c /\ Due(g)
      BY <1>7, <1>10, <2>1 DEF Sound
    <3> QED
      BY <1>3, <1>6, <3>1 DEF Due
  <2>2. CASE g = fd /\ n = cnt /\ n > 0
    <3>1. answers[c] < nread'[c]
      BY <1>6, <1>12, <2>2
    <3> QED
      BY <1>3, <2>2, <3>1 DEF Due
  <2> QED
    BY <1>9, <2>1, <2>2
<1>14. AnswersDue'
  BY <1>11, <1>13, AnswersDueNext
<1>15. AnsweredWasRead'
  <2>1. \A x \in Conns : answers[x] \in Nat /\ answers[x] <= nread[x]
    BY <1>7 DEF BufferTypes, AnsweredWasRead
  <2> QED
    BY <1>3, <1>6, <2>1 DEF AnsweredWasRead
<1>16. NeverOwnRequest'
  BY <1>3, <1>7 DEF NeverOwnRequest
<1> QED
  BY <1>8, <1>14, <1>15, <1>16 DEF BufferInv

\* What is sent is an answer that was due, and nothing the client wrote.
LEMMA BufferSend ==
  ASSUME RingInv, BufferInv, Running, NEW op \in flight, KernelSend(op)
  PROVE  BufferInv'
<1>1. PICK fd \in Fds, c \in Conns, len \in 1..BufferLength :
        fd = op.fd /\ c = op.conn /\ len = op.len
  BY OpOwner DEF KernelSend
<1>2. PICK n \in 0..len :
        /\ CompleteSend(op, n)
        /\ answers' = [answers EXCEPT ![c] = IF n > 0 THEN @ + 1 ELSE @]
        /\ authors' = [authors EXCEPT ![c] = @ \cup {buffer[k] : k \in 1..n}]
  BY <1>1 DEF KernelSend
<1>3. /\ op.event = "WRITE"
      /\ UNCHANGED <<nread, fdtab, sq, batchVars, buffer>>
      /\ fdtab[fd] = c /\ \A g \in OpenFds : g # fd => fdtab[g] # c
  BY <1>1, OpOwner DEF KernelSend, loopVars
<1>4. BufferTypes /\ AnsweredWasRead /\ NeverOwnRequest /\ Sound
  BY AnswersDueMeaning DEF BufferInv
<1>5. Due(fd) /\ NotOwn(fd) /\ len = ResponseLength
  <2>1. Writing(fd, len)
    BY <1>1, <1>3 DEF Writing
  <2> QED
    BY <1>4, <2>1 DEF Sound
<1>6. PICK res \in -1..BufferLength : Complete(op, res) /\ Cqe(op, res) \in Cqes
  <2>1. PICK res \in -1..BufferLength : Complete(op, res)
    <3>1. n \in -1..BufferLength /\ -1 \in -1..BufferLength
      BY <1>1, FdFacts
    <3> QED
      BY <1>2, <3>1 DEF CompleteSend
  <2> QED
    BY <1>3, <2>1, CompletedKinds DEF RingInv, UringTypeOK
<1>7. \A g, m : /\ Writing(g, m)' => Writing(g, m) /\ g # fd
                /\ Reported(g, m)' => Reported(g, m) /\ g # fd
  BY <1>1, <1>3, <1>6, CompleteMoves
<1>8. \A g, m : (Writing(g, m) \/ Reported(g, m)) /\ g # fd =>
                  fdtab[g] \in Conns /\ fdtab[g] # c
  <2> TAKE g, m
  <2> HAVE (Writing(g, m) \/ Reported(g, m)) /\ g # fd
  <2>1. g \in OpenFds
    BY InUse
  <2> QED
    BY <1>3, <2>1 DEF OpenFds, RingInv, TcpTypeOK
<1>9. /\ answers' \in [Conns -> Nat] /\ answers'[c] <= answers[c] + 1
      /\ \A x \in Conns : x # c => answers'[x] = answers[x]
      /\ answers[c] \in Nat /\ answers'[c] \in Nat
  BY <1>2, <1>4 DEF BufferTypes
<1>10. AnsweredWasRead'
  <2>1. answers[c] < nread[c] /\ nread[c] \in Nat
    BY <1>3, <1>5 DEF Due, RingInv, TcpTypeOK
  <2>2. answers'[c] <= nread[c]
    BY <1>9, <2>1
  <2> QED
    BY <1>3, <1>4, <1>9, <2>2 DEF AnsweredWasRead
<1>11. BufferTypes' /\ NeverOwnRequest'
  <2>1. \A k \in 1..n : k \in 1..BufferLength /\ k \in 1..ResponseLength
    BY <1>1, <1>5, FdFacts
  <2>2. \A k \in 1..n : buffer[k] \in Author /\ buffer[k] \notin {c, Blank}
    BY <1>3, <1>4, <1>5, <2>1 DEF BufferTypes, NotOwn
  <2>3. {buffer[k] : k \in 1..n} \subseteq Author \ {c, Blank}
    BY <2>2
  <2>4. authors'[c] = authors[c] \cup {buffer[k] : k \in 1..n}
    BY <1>2, <1>4 DEF BufferTypes
  <2>5. /\ authors' \in [Conns -> SUBSET Author]
        /\ \A x \in Conns : x # c => authors'[x] = authors[x]
    BY <1>2, <1>4, <2>3 DEF BufferTypes
  <2>6. NeverOwnRequest'
    BY <1>4, <2>3, <2>4, <2>5 DEF NeverOwnRequest
  <2> QED
    BY <1>3, <1>4, <1>9, <2>5, <2>6 DEF BufferTypes
<1>12. \A g, m : /\ Writing(g, m)' => Due(g)' /\ NotOwn(g)' /\ m = ResponseLength
                 /\ Reported(g, m)' => Due(g)'
  BY <1>3, <1>4, <1>7, <1>8, <1>9 DEF Sound, Due, NotOwn
<1> QED
  BY <1>10, <1>11, <1>12, AnswersDueNext DEF BufferInv

LEMMA BufferClient ==
  ASSUME RingInv, BufferInv, NEW c \in Conns, ClientStep(c)
  PROVE  BufferInv'
<1>1. /\ UNCHANGED <<fdtab, nread, buffer, answers, authors, sq, flight>>
      /\ Unhandled' = Unhandled
  BY DEF ClientStep, Client, Connect, ClientSend, ClientRead, ClientFin, ClientRst,
         srvVars, history, uringVars, loopVars, batchVars, Unhandled
<1> QED
  BY <1>1, BufferQuiet DEF Writing, Reported

LEMMA BufferStep ==
  ASSUME RingInv, SockType, BufferInv, [Next]_vars
  PROVE  BufferInv'
<1>1. CASE UNCHANGED vars
  <2>1. /\ UNCHANGED <<fdtab, nread, buffer, answers, authors, sq, flight>>
        /\ Unhandled' = Unhandled
    BY <1>1 DEF vars, tcpVars, srvVars, history, uringVars, loopVars, batchVars, Unhandled
  <2> QED
    BY <2>1, BufferQuiet DEF Writing, Reported
<1> QED
  BY <1>1, BufferBoot, BufferLoop, BufferHandleAccept, BufferHandleRead,
     BufferHandleWrite, BufferAccept, BufferRecv, BufferSend, BufferClient
  DEF Next, Run, Kernel

-----------------------------------------------------------------------------
(* The invariant. *)

\* The numbers of answers stay bounded because what was answered was read.
LEMMA InvariantParts ==
  ASSUME RingInv, SockType, BufferInv
  PROVE  IInv
<1>1. answers \in [Conns -> 0..MaxSend]
  <2>1. /\ answers \in [Conns -> Nat] /\ nread \in [Conns -> 0..MaxSend] /\ MaxSend \in Nat
        /\ \A c \in Conns : answers[c] <= nread[c]
    BY TcpAssumption
    DEF RingInv, TcpTypeOK, BufferInv, BufferTypes, AnsweredWasRead, TcpAssumption
  <2>2. \A c \in Conns : answers[c] \in 0..MaxSend
    BY <2>1
  <2> QED
    BY <2>1, <2>2
<1> QED
  BY <1>1 DEF IInv, TypeOK, RingInv, SockType, BufferInv, BufferTypes, Author

LEMMA InitIInv ==
  ASSUME Init
  PROVE  IInv
<1>1. RingInv
  BY InitInv DEF Init
<1>2. SockType
  BY DEF Init, SockType
<1>3. BufferInv
  <2>1. BufferTypes /\ AnsweredWasRead /\ NeverOwnRequest
    <3>1. nread = [c \in Conns |-> 0] /\ answers = [c \in Conns |-> 0]
      BY DEF Init, TcpInit
    <3>2. AnsweredWasRead
      BY <3>1 DEF AnsweredWasRead
    <3> QED
      BY <3>1, <3>2 DEF Init, BufferTypes, Author, NeverOwnRequest
  <2>2. sq = <<>> /\ flight = {} /\ cq = <<>> /\ i = 0
    BY DEF Init, UringInit, LoopInit
  <2>3. Len(sq) = 0 /\ Len(Unhandled) = 0
    <3>1. Len(Unhandled) = Len(cq) - i
      BY <1>1, UnhandledElements
    <3> QED
      BY <2>2, <3>1, EmptySeq
  <2>4. AnswersDue
    BY <2>2, <2>3 DEF AnswersDue
  <2> QED
    BY <2>1, <2>4 DEF BufferInv
<1> QED
  BY <1>1, <1>2, <1>3, InvariantParts

LEMMA StepIInv ==
  ASSUME IInv, [Next]_vars
  PROVE  IInv'
<1>1. RingInv /\ SockType /\ BufferInv
  <2>1. MaxSend \in Nat
    BY TcpAssumption DEF TcpAssumption
  <2>2. answers \in [Conns -> Nat]
    BY <2>1 DEF IInv, TypeOK
  <2> QED
    BY <2>2 DEF IInv, TypeOK, SockType, BufferInv, BufferTypes, Author
<1>2. RingInv' /\ SockType' /\ BufferInv'
  BY <1>1, RingStep, BufferStep
<1>3. answers' \in [Conns -> 0..MaxSend]
  <2>1. /\ answers' \in [Conns -> Nat] /\ nread' \in [Conns -> 0..MaxSend]
        /\ MaxSend \in Nat /\ \A c \in Conns : answers'[c] <= nread'[c]
    BY <1>2, TcpAssumption
    DEF RingInv, TcpTypeOK, BufferInv, BufferTypes, AnsweredWasRead, TcpAssumption
  <2>2. \A c \in Conns : answers'[c] \in 0..MaxSend
    BY <2>1
  <2> QED
    BY <2>1, <2>2
<1> QED
  BY <1>2, <1>3 DEF IInv, TypeOK, RingInv, SockType, BufferInv, BufferTypes, Author

-----------------------------------------------------------------------------
(* The theorems. *)

\* One buffer for all clients breaks neither the turns each of them takes nor
\* the descriptors, whatever the kernel completes first.
THEOREM Invariance == Spec => []IInv
<1>1. Init => IInv
  BY InitIInv
<1>2. IInv /\ [Next]_vars => IInv'
  BY StepIInv
<1> QED
  BY <1>1, <1>2, PTL DEF Spec

\* Every variable keeps its type.
THEOREM TypeCorrect == Spec => []TypeOK
BY Invariance, PTL DEF IInv

\* No two operations are ever under way on one descriptor.
THEOREM OneChain == Spec => []OneChainPerDescriptor
<1>1. IInv => OneChainPerDescriptor
  BY DEF IInv, RingInv
<1> QED
  BY <1>1, Invariance, PTL

\* No client gets its own request back.
THEOREM NeverOwn == Spec => []NeverOwnRequest
<1>1. IInv => NeverOwnRequest
  BY DEF IInv
<1> QED
  BY <1>1, Invariance, PTL

-----------------------------------------------------------------------------
(* The submission ring never runs full, whether there is a socket or not.  *)

LEMMA SpinBoot ==
  ASSUME RingInv, Boot
  PROVE  SqInv' /\ SqNeverFull'
<1>1. /\ pc = "boot" /\ UNCHANGED <<tcpVars, flight, cq, batchVars>>
      /\ \/ /\ sockfd' \in {ListenFd, BadFd} /\ pc' = "submit"
            /\ sq' = <<Sqe("ACCEPT", sockfd', 0)>>
         \/ UNCHANGED <<sockfd, sq>> /\ pc' = "crashed"
  BY DEF Boot, InitServer, Accept
<1>2. sq = <<>> /\ flight = {} /\ cq = <<>>
  BY <1>1 DEF RingInv, Dormant
<1>3. CASE sockfd' = ListenFd
  BY <1>1, <1>3, RoomBoot DEF SqInv, SqNeverFull
<1>4. CASE sockfd' # ListenFd
  <2>1. Len(Unhandled') = 0
    <3>1. Unhandled' = Unhandled
      BY <1>1 DEF Unhandled, batchVars
    <3>2. Len(Unhandled) = Len(cq) - i /\ Len(Unhandled) \in Nat /\ i \in Nat
      BY UnhandledElements
    <3> QED
      BY <1>2, <3>1, <3>2, EmptySeq
  <2>2. CASE sq' = <<Sqe("ACCEPT", BadFd, 0)>>
    <3> DEFINE a == Sqe("ACCEPT", BadFd, 0)
    <3>1. a \in Sqes /\ a \in AcceptSqes /\ a.fd = BadFd
      BY PreparedKinds DEF Sqe, AcceptSqes
    <3>2. sq' = <<a>>
      BY <2>2
    <3> HIDE DEF a
    <3>3. Len(sq') = 1 /\ sq'[1] = a
      BY <3>2
    <3>4. Count(<<a>>, AcceptSqes) = Weight(a, AcceptSqes)
      BY <3>1, CountOne
    <3>5. Count(sq', AcceptSqes) # 0
      BY <3>1, <3>2, <3>4 DEF Weight
    <3>6. Count(sq, AcceptSqes)' # 0
      BY <3>5 DEF Count
    <3> QED
      BY <1>1, <1>2, <1>4, <2>1, <3>1, <3>3, <3>6 DEF SqInv, Spinning, SqNeverFull
  <2>3. CASE UNCHANGED sq /\ pc' = "crashed"
    BY <1>1, <1>2, <1>4, <2>1, <2>3, EmptySeq DEF SqInv, Spinning, SqNeverFull
  <2> QED
    BY <1>1, <1>4, <2>2, <2>3
<1> QED
  BY <1>3, <1>4

\* Entries on no socket complete at once, so that at most a recv is left over.
LEMMA SpinSubmit ==
  ASSUME RingInv, Spinning, Submit
  PROVE  Spinning'
<1>1. /\ TakeEntry /\ UNCHANGED <<tcpVars, batchVars>> /\ sq \in Seq(Sqes)
  BY CountsTyped DEF Submit
<1>2. /\ sq # <<>> /\ Head(sq) = sq[1] /\ sq[1] \in Sqes /\ 1 \in 1..Len(sq)
      /\ Len(sq) \in Nat /\ Len(sq') = Len(sq) - 1
      /\ \A k \in 1..Len(sq') : k + 1 \in 1..Len(sq) /\ sq'[k] = sq[k + 1]
      /\ Count(sq, AcceptSqes) \in Nat /\ Count(sq', AcceptSqes) \in Nat
      /\ Count(sq, AcceptSqes) = Count(sq', AcceptSqes) + Weight(sq[1], AcceptSqes)
  BY <1>1, TakeEffect
<1>3. sq[1].fd = BadFd /\ BadFd \notin AllFds /\ BadFd \notin Fds
  BY <1>2, FdFacts DEF Spinning
<1>4. /\ sq[1].event \in {"ACCEPT", "READ"}
      /\ sq[1] \in AcceptSqes <=> sq[1].event = "ACCEPT"
  BY <1>2, <1>3, SqeKinds
<1> DEFINE e == [event |-> sq[1].event, fd |-> BadFd, conn |-> NoConn, res |-> -1]
<1>5. cq' = Append(cq, e) /\ flight' = flight
  BY <1>1, <1>2, <1>3 DEF TakeEntry, Op, Cqe
<1>6. e \in Cqes /\ e.event = sq[1].event /\ e.fd = BadFd /\ e.res = -1
  BY <1>4 DEF Cqes, AcceptCqes, BadRecvCqes
<1> HIDE DEF e
<1>7. \A k \in 1..Len(Unhandled') :
        Unhandled'[k] = e \/ (k \in 1..Len(Unhandled) /\ Unhandled'[k] = Unhandled[k])
  <2>1. /\ Len(Unhandled) \in Nat /\ Len(Unhandled') = Len(Unhandled) + 1
        /\ \A k \in 1..Len(Unhandled') :
             Unhandled'[k] = IF k = Len(Unhandled) + 1 THEN e ELSE Unhandled[k]
    BY <1>1, <1>5, <1>6, AppendEffect
  <2> QED
    BY <2>1
<1>8. \A k \in 1..Len(sq') :
        sq'[k].fd = BadFd /\ (sq'[k].event = "ACCEPT" => Len(sq') - k <= 1)
  BY <1>2 DEF Spinning
<1>9. \A k \in 1..Len(Unhandled') :
        \/ Unhandled'[k].event = "ACCEPT" /\ Unhandled'[k].res = -1
        \/ Unhandled'[k].event = "READ" /\ Unhandled'[k].fd = BadFd
  BY <1>4, <1>6, <1>7 DEF Spinning
<1>10. Count(sq', AcceptSqes) = 0 => Len(sq') <= 1
  <2>1. CASE sq[1].event = "ACCEPT"
    BY <1>2, <2>1 DEF Spinning
  <2>2. CASE sq[1].event # "ACCEPT"
    BY <1>2, <1>4, <2>2 DEF Spinning, Weight
  <2> QED
    BY <2>1, <2>2
<1>11. Len(sq') <= 3 /\ flight' = {}
  BY <1>2, <1>5 DEF Spinning
<1> QED
  BY <1>8, <1>9, <1>10, <1>11 DEF Spinning, Count

LEMMA SpinKept ==
  ASSUME RingInv, Spinning, UNCHANGED <<sq, flight>>,
         \A k \in 1..Len(Unhandled') :
           \E j \in 1..Len(Unhandled) : Unhandled'[k] = Unhandled[j]
  PROVE  Spinning'
<1>1. \A k \in 1..Len(Unhandled') :
        \/ Unhandled'[k].event = "ACCEPT" /\ Unhandled'[k].res = -1
        \/ Unhandled'[k].event = "READ" /\ Unhandled'[k].fd = BadFd
  BY DEF Spinning
<1> QED
  BY <1>1 DEF Spinning, Count

\* When the error of accept is handled no other accept is prepared: there is
\* one entry at most.
LEMMA SpinAccept ==
  ASSUME RingInv, Spinning, SqEntries > 2, Handling("ACCEPT"),
         Prepare(<<Sqe("ACCEPT", BadFd, 0), Sqe("READ", cq[i + 1].res, BufferLength)>>)
  PROVE  Spinning' /\ pc' = "handle"
<1>1. /\ pc = "handle" /\ Running /\ UNCHANGED flight
      /\ cq[i + 1] = Unhandled[1] /\ Unhandled[1].event = "ACCEPT"
      /\ 1 \in 1..Len(Unhandled)
      /\ \A k \in 1..Len(Unhandled') :
           k + 1 \in 1..Len(Unhandled) /\ Unhandled'[k] = Unhandled[k + 1]
  BY HandlingEffect
<1>2. cq[i + 1].res = BadFd
  BY <1>1 DEF Spinning, BadFd
<1>3. Count(sq, AcceptSqes) = 0
  BY <1>1, OneAccept
<1>4. /\ sq \in Seq(Sqes) /\ Len(sq) \in Nat /\ Len(sq) <= 1 /\ SqEntries \in Nat
      /\ \A k \in 1..Len(sq) : sq[k].event # "ACCEPT" /\ sq[k].fd = BadFd
  BY <1>1, <1>3, BatchFacts, OneAccept DEF Spinning
<1> DEFINE a == Sqe("ACCEPT", BadFd, 0)
           r == Sqe("READ", BadFd, BufferLength)
           new == <<a, r>>
<1>5. /\ a \in Sqes /\ a \in AcceptSqes /\ a.fd = BadFd
      /\ r \in Sqes /\ r.event = "READ" /\ r.fd = BadFd
  BY PreparedKinds DEF Sqe, AcceptSqes
<1>6. Prepare(new)
  BY <1>2
<1> HIDE DEF a, r
<1>7. /\ new \in Seq(Sqes) /\ Len(new) = 2 /\ new[1] = a /\ new[2] = r
      /\ Count(new, AcceptSqes) = Weight(a, AcceptSqes) + Weight(r, AcceptSqes)
      /\ Weight(a, AcceptSqes) = 1 /\ Weight(r, AcceptSqes) \in Nat
  BY <1>5, CountTwo DEF Weight
<1> HIDE DEF new
<1>8. /\ pc' = pc /\ sq' = sq \o new
      /\ Count(sq', AcceptSqes) = Count(sq, AcceptSqes) + Count(new, AcceptSqes)
  <2>1. Len(sq) + Len(new) <= SqEntries
    BY <1>4, <1>7
  <2>2. pc' = pc /\ sq' = sq \o new
    <3>1. ~SqFull(new)
      BY <1>4, <1>7, <2>1 DEF SqFull
    <3> QED
      BY <1>6, <3>1 DEF Prepare, Queue
  <2> QED
    BY <1>4, <1>7, <2>2, CountConcat
<1>9. /\ Len(sq') = Len(sq) + 2
      /\ \A k \in 1..Len(sq) : sq'[k] = sq[k]
      /\ sq'[Len(sq) + 1] = a /\ sq'[Len(sq) + 2] = r
  <2>1. /\ Len(sq \o new) = Len(sq) + Len(new)
        /\ \A k \in 1..Len(sq) + Len(new) :
             (sq \o new)[k] = IF k <= Len(sq) THEN sq[k] ELSE new[k - Len(sq)]
    BY <1>4, <1>7, ConcatProperties
  <2> QED
    BY <1>4, <1>7, <1>8, <2>1
<1>10. \A k \in 1..Len(sq') :
         sq'[k].fd = BadFd /\ (sq'[k].event = "ACCEPT" => Len(sq') - k <= 1)
  <2> TAKE k \in 1..Len(sq')
  <2>1. k \in 1..Len(sq) \/ k = Len(sq) + 1 \/ k = Len(sq) + 2
    BY <1>4, <1>9
  <2> QED
    BY <1>4, <1>5, <1>9, <2>1
<1>11. \A k \in 1..Len(Unhandled') :
        \/ Unhandled'[k].event = "ACCEPT" /\ Unhandled'[k].res = -1
        \/ Unhandled'[k].event = "READ" /\ Unhandled'[k].fd = BadFd
  BY <1>1 DEF Spinning
<1>12. Len(sq') <= 3 /\ Count(sq', AcceptSqes) # 0
  BY <1>3, <1>4, <1>7, <1>8, <1>9
<1> QED
  BY <1>1, <1>8, <1>10, <1>11, <1>12 DEF Spinning, Count

\* Without a socket nothing but the loop and the handling of errors happens.
LEMMA SpinStep ==
  ASSUME RingInv, SockType, SqInv, SqNeverFull, sockfd # ListenFd, SqEntries > 2,
         [Next]_vars
  PROVE  SqInv' /\ SqNeverFull'
<1>1. Spinning /\ sockfd = BadFd
  BY DEF SqInv, SockType
<1>2. CASE Boot
  BY <1>2, SpinBoot
<1>3. CASE Loop /\ UNCHANGED srvVars
  <2>1. pc' # "nosqe" /\ sockfd' = sockfd
    BY <1>3 DEF Loop, Submit, Submitted, Peek, Advance, srvVars, SqNeverFull
  <2>2. CASE Submit
    BY <1>1, <2>1, <2>2, SpinSubmit DEF SqInv, SqNeverFull
  <2>3. CASE Submitted \/ Peek \/ Advance
    <3>1. UNCHANGED <<sq, flight>> /\ Unhandled' = Unhandled
      BY <2>3, RoundEffect
    <3>2. Spinning'
      BY <1>1, <3>1, SpinKept
    <3> QED
      BY <2>1, <3>2 DEF SqInv, SqNeverFull
  <2> QED
    BY <1>3, <2>2, <2>3 DEF Loop
<1>4. CASE HandleAccept
  <2>1. /\ Handling("ACCEPT") /\ sockfd' = sockfd
        /\ Prepare(<<Sqe("ACCEPT", BadFd, 0), Sqe("READ", cq[i + 1].res, BufferLength)>>)
    BY <1>1, <1>4 DEF HandleAccept, AfterAccept, Accept, RecvInto, srvVars
  <2> QED
    BY <1>1, <2>1, SpinAccept DEF SqInv, SqNeverFull
<1>5. ASSUME NEW event, Handling(event)
      PROVE  /\ UNCHANGED flight /\ cq[i + 1] = Unhandled[1] /\ 1 \in 1..Len(Unhandled)
             /\ Unhandled[1] \in Cqes /\ Unhandled[1].event = event
             /\ \A k \in 1..Len(Unhandled') :
                  k + 1 \in 1..Len(Unhandled) /\ Unhandled'[k] = Unhandled[k + 1]
  BY <1>5, HandlingEffect
<1>6. CASE HandleRead
  <2>1. Handling("READ") /\ sockfd' = sockfd
    BY <1>6 DEF HandleRead
  <2>2. cq[i + 1].res = -1
    <3>1. Unhandled[1].fd = BadFd
      BY <1>1, <1>5, <2>1 DEF Spinning
    <3>2. Unhandled[1].res = -1
      BY <1>5, <2>1, <3>1, CqeKinds, FdFacts
    <3> QED
      BY <1>5, <2>1, <3>2
  <2>3. UNCHANGED <<pc, sq>>
    BY <1>6, <2>2, FdFacts DEF HandleRead
  <2>4. Spinning'
    BY <1>1, <1>5, <2>1, <2>3, SpinKept
  <2> QED
    BY <2>1, <2>3, <2>4 DEF SqInv, SqNeverFull
<1>7. ~HandleWrite
  BY <1>1, <1>5 DEF HandleWrite, Spinning
<1>8. \A fd \in AllFds : ~Kernel(fd)
  BY <1>1 DEF Kernel, Spinning
<1>9. \A c \in Conns : ~ClientStep(c)
  BY DEF ClientStep
<1>10. CASE UNCHANGED vars
  <2>1. UNCHANGED <<sq, flight, pc, sockfd>> /\ Unhandled' = Unhandled
    BY <1>10 DEF vars, uringVars, loopVars, batchVars, srvVars, Unhandled
  <2>2. Spinning'
    BY <1>1, <2>1, SpinKept
  <2> QED
    BY <2>1, <2>2 DEF SqInv, SqNeverFull
<1> QED
  BY <1>2, <1>3, <1>4, <1>6, <1>7, <1>8, <1>9, <1>10 DEF Next, Run

LEMMA ListenStep ==
  ASSUME RingInv, SqInv, SqNeverFull, sockfd = ListenFd, Roomy, [Next]_vars
  PROVE  SqInv' /\ SqNeverFull'
<1>1. RoomInv
  BY DEF SqInv
<1>2. CASE Boot
  BY <1>2, SpinBoot
<1>3. CASE Loop /\ UNCHANGED srvVars
  BY <1>1, <1>3, RoomLoop
  DEF Loop, Submit, Submitted, Peek, Advance, srvVars, SqInv, SqNeverFull
<1>4. CASE HandleAccept
  <2>1. /\ Handling("ACCEPT") /\ cq[i + 1].res \in Fds \cup {BadFd} /\ sockfd' = sockfd
        /\ Prepare(<<Sqe("ACCEPT", ListenFd, 0), Sqe("READ", cq[i + 1].res, BufferLength)>>)
    BY <1>4, HandledKinds DEF HandleAccept, AfterAccept, Accept, RecvInto, srvVars
  <2>2. PICK fd \in Fds \cup {BadFd} :
          Prepare(<<Sqe("ACCEPT", ListenFd, 0), Sqe("READ", fd, BufferLength)>>)
    BY <2>1
  <2> QED
    BY <1>1, <2>1, <2>2, RoomAccept DEF SqInv, SqNeverFull
<1>5. CASE HandleRead
  <2>1. PICK fd, ret : fd = cq[i + 1].fd /\ ret = cq[i + 1].res
    OBVIOUS
  <2>2. /\ Handling("READ") /\ sockfd' = sockfd
        /\ \/ UNCHANGED <<pc, sq>>
           \/ ret > 0 /\ Prepare(<<SendFrom(fd, ResponseLength)>>)
    BY <1>5, <2>1 DEF HandleRead, AfterRead
  <2>3. CASE UNCHANGED <<pc, sq>>
    BY <1>1, <2>2, <2>3, RoomNothing DEF SqInv, SqNeverFull
  <2>4. CASE ret > 0 /\ Prepare(<<SendFrom(fd, ResponseLength)>>)
    <3>1. fd \in Fds
      BY <2>1, <2>2, <2>4, HandledKinds, FdFacts
    <3>2. /\ SendFrom(fd, ResponseLength) \in Sqes
          /\ SendFrom(fd, ResponseLength).event # "ACCEPT"
          /\ SendFrom(fd, ResponseLength).fd \in Fds
      BY <3>1, HandledKinds
    <3> QED
      BY <1>1, <2>2, <2>4, <3>2, RoomTransfer DEF SqInv, SqNeverFull
  <2> QED
    BY <2>2, <2>3, <2>4
<1>6. CASE HandleWrite
  <2>1. Handling("WRITE") /\ Prepare(<<RecvInto(cq[i + 1].fd)>>) /\ sockfd' = sockfd
    BY <1>6 DEF HandleWrite, AfterWrite, srvVars
  <2>2. /\ RecvInto(cq[i + 1].fd) \in Sqes /\ RecvInto(cq[i + 1].fd).event # "ACCEPT"
        /\ RecvInto(cq[i + 1].fd).fd \in Fds
    BY <2>1, HandledKinds
  <2> QED
    BY <1>1, <2>1, <2>2, RoomTransfer DEF SqInv, SqNeverFull
<1>7. CASE \/ UNCHANGED vars \/ \E c \in Conns : ClientStep(c)
           \/ \E op \in flight : KernelAccept(op) \/ KernelRecv(op) \/ KernelSend(op)
  <2>1. UNCHANGED <<sq, nready, i, pc, sockfd>>
    BY <1>7 DEF vars, ClientStep, uringVars, loopVars, batchVars, srvVars,
                KernelAccept, KernelRecv, KernelSend
  <2> QED
    BY <1>1, <2>1, RoomFrame DEF SqInv, SqNeverFull
<1> QED
  BY <1>2, <1>3, <1>4, <1>5, <1>6, <1>7 DEF Next, Run, Kernel

LEMMA CqStep ==
  ASSUME RingInv, RingInv', SockType, CqInv, [Next]_vars
  PROVE  CqInv'
<1>1. CASE Boot
  <2>1. pc = "boot" /\ UNCHANGED <<flight, cq, batchVars>>
    BY <1>1 DEF Boot
  <2>2. CASE \E fd \in {ListenFd, BadFd} : sq' = <<Accept(fd)>>
    <3>1. PICK fd \in {ListenFd, BadFd} : sq' = <<Accept(fd)>>
      BY <2>2
    <3>2. Accept(fd) \in AcceptSqes
      BY DEF Accept, Sqe, AcceptSqes
    <3> QED
      BY <2>1, <3>1, <3>2, CqInvBoot
  <2>3. CASE pc' = "crashed"
    BY <2>1, <2>3, CqInvOver DEF Running
  <2> QED
    BY <1>1, <2>2, <2>3 DEF Boot, InitServer
<1>2. CASE Loop /\ UNCHANGED srvVars
  BY <1>2, CqInvLoop
<1>3. CASE HandleAccept
  <2>1. Handling("ACCEPT") /\ cq[i + 1].res \in Fds \cup {BadFd}
    BY <1>3, HandledKinds DEF HandleAccept
  <2>2. Prepare(<<Accept(sockfd), RecvInto(cq[i + 1].res)>>)
    BY <1>3 DEF HandleAccept, AfterAccept
  <2>3. /\ Accept(sockfd) \in AcceptSqes
        /\ RecvInto(cq[i + 1].res) \in Sqes /\ RecvInto(cq[i + 1].res).event # "ACCEPT"
    BY <2>1, PreparedKinds DEF Accept, AcceptSqes, RecvInto, Sqe, SockType
  <2> QED
    BY <2>1, <2>2, <2>3, CqInvAccept
<1>4. CASE HandleRead
  <2>1. PICK fd, ret : fd = cq[i + 1].fd /\ ret = cq[i + 1].res
    OBVIOUS
  <2>2. /\ Handling("READ")
        /\ \/ UNCHANGED sq
           \/ ret > 0 /\ Prepare(<<SendFrom(fd, ResponseLength)>>)
    BY <1>4, <2>1 DEF HandleRead, AfterRead
  <2>3. CASE UNCHANGED sq
    BY <2>2, <2>3, CqInvTransfer
  <2>4. CASE ret > 0 /\ Prepare(<<SendFrom(fd, ResponseLength)>>)
    <3>1. fd \in Fds
      BY <2>1, <2>2, <2>4, HandledKinds, FdFacts
    <3>2. /\ SendFrom(fd, ResponseLength) \in Sqes
          /\ SendFrom(fd, ResponseLength).event # "ACCEPT"
          /\ SendFrom(fd, ResponseLength).fd # BadFd
      BY <3>1, HandledKinds, FdFacts
    <3> QED
      BY <2>2, <2>4, <3>2, CqInvTransfer
  <2> QED
    BY <2>2, <2>3, <2>4
<1>5. CASE HandleWrite
  <2>1. Handling("WRITE") /\ Prepare(<<RecvInto(cq[i + 1].fd)>>)
    BY <1>5 DEF HandleWrite, AfterWrite
  <2>2. /\ cq[i + 1].fd \in Fds /\ RecvInto(cq[i + 1].fd) \in Sqes
        /\ RecvInto(cq[i + 1].fd).event # "ACCEPT"
        /\ RecvInto(cq[i + 1].fd).fd = cq[i + 1].fd
    BY <2>1, HandledKinds
  <2>3. RecvInto(cq[i + 1].fd).fd # BadFd
    BY <2>2, FdFacts
  <2> QED
    BY <2>1, <2>2, <2>3, CqInvTransfer
<1>6. ASSUME NEW op \in flight, Running, KernelAccept(op) \/ KernelRecv(op) \/ KernelSend(op)
      PROVE  CqInv'
  <2>1. UNCHANGED <<sq, batchVars>> /\ op \in Ops
    BY <1>6 DEF KernelAccept, KernelRecv, KernelSend, loopVars, RingInv, UringTypeOK
  <2>2. \E res : Cqe(op, res) \in Cqes /\ Complete(op, res)
    <3>1. CASE KernelAccept(op)
      <4>1. op.event = "ACCEPT" /\ \E res \in Fds \cup {-1} : Complete(op, res)
        BY <3>1 DEF KernelAccept, CompleteAccept
      <4> QED
        BY <2>1, <4>1, CompletedKinds
    <3>2. CASE KernelRecv(op)
      <4>1. op.event = "READ" /\ \E res \in -1..BufferLength : Complete(op, res)
        BY <3>2 DEF KernelRecv, CompleteRecv
      <4> QED
        BY <2>1, <4>1, CompletedKinds
    <3>3. CASE KernelSend(op)
      <4>1. op.event = "WRITE" /\ op.len \in 1..BufferLength
        BY <2>1, <3>3, OpKinds DEF KernelSend
      <4>2. \E res \in {-1} \cup 0..op.len : Complete(op, res)
        BY <3>3 DEF KernelSend, CompleteSend
      <4>3. \A res \in {-1} \cup 0..op.len : res \in -1..BufferLength
        BY <4>1, FdFacts
      <4> QED
        BY <2>1, <4>1, <4>2, <4>3, CompletedKinds
    <3> QED
      BY <1>6, <3>1, <3>2, <3>3
  <2> QED
    BY <1>6, <2>1, <2>2, CqInvComplete
<1>7. ASSUME NEW c \in Conns, ClientStep(c)
      PROVE  CqInv'
  <2>1. Running /\ UNCHANGED <<uringVars, i>>
    BY <1>7 DEF ClientStep, loopVars, batchVars
  <2> QED
    BY <2>1, CqInvFrame
<1>8. CASE UNCHANGED vars
  <2>1. UNCHANGED <<uringVars, i, pc>>
    BY <1>8 DEF vars, loopVars, batchVars
  <2> QED
    BY <2>1, CqInvFrame, CqInvOver DEF Running, uringVars
<1> QED
  BY <1>1, <1>2, <1>3, <1>4, <1>5, <1>6, <1>7, <1>8 DEF Next, Run, Kernel

\* The completion ring never runs full if it takes three more completions than
\* there are descriptors, whatever the size of a batch: 2048 in the code.
THEOREM CqHasRoom == Spec => []CqNeverFull
<1>1. Init => CqInv
  BY CqInvInit DEF Init
<1>2. IInv /\ IInv' /\ CqInv /\ [Next]_vars => CqInv'
  BY CqStep DEF IInv, TypeOK, SockType
<1>3. IInv /\ CqInv => CqNeverFull
  BY CqInvBounds DEF IInv
<1> QED
  BY <1>1, <1>2, <1>3, Invariance, PTL DEF Spec

\* main always has an accept under way, with a socket or without, and neither
\* ring runs full: the submission ring if it takes two batches, as the code's
\* does, the completion ring if it takes three more than there are descriptors.
THEOREM AlwaysAnAccept ==
  ASSUME SqEntries >= 2 * CqBatch, SqEntries > 2
  PROVE  Spec => []AlwaysArmed
<1>1. Roomy
  BY DEF Roomy
<1>2. Init => SqInv /\ SqNeverFull
  <2> SUFFICES ASSUME Init
               PROVE  SqInv /\ SqNeverFull
    OBVIOUS
  <2>1. sq = <<>> /\ flight = {} /\ sockfd = BadFd /\ pc = "boot" /\ cq = <<>> /\ i = 0
    BY DEF Init, UringInit, LoopInit
  <2>2. Len(sq) = 0 /\ Len(Unhandled) = 0
    <3>1. RingInv
      BY InitInv DEF Init
    <3>2. Len(Unhandled) = Len(cq) - i
      BY <3>1, UnhandledElements
    <3> QED
      BY <2>1, <3>2, EmptySeq
  <2> QED
    BY <2>1, <2>2, FdFacts DEF SqInv, Spinning, SqNeverFull
<1>3. IInv /\ SqInv /\ SqNeverFull /\ [Next]_vars => SqInv' /\ SqNeverFull'
  BY <1>1, SpinStep, ListenStep DEF IInv, TypeOK, SockType
<1>4. IInv /\ SqNeverFull /\ CqNeverFull => AlwaysArmed
  BY DEF IInv, RingInv, RingsNeverFull, AlwaysArmed
<1> QED
  BY <1>2, <1>3, <1>4, Invariance, CqHasRoom, PTL DEF Spec

-----------------------------------------------------------------------------
(* The single-file io_uring server implements Conversation. *)

TalkStep == [Talk!Next]_(Talk!conversationVars)

LEMMA TalkInit ==
  ASSUME Init
  PROVE  Talk!Init
<1>1. \A c \in Conns : FdsOf(c) = {} /\ ~Broken(c) /\ c \notin done
  BY TcpAssumption DEF Init, TcpInit, FdsOf, Broken, TcpAssumption
<1>2. \A c \in Conns : Phase(c) = "waiting"
  BY <1>1 DEF Phase
<1>3. [c \in Conns |-> Phase(c)] = [c \in Conns |-> "waiting"]
  BY <1>2
<1>4. {c \in Conns : Broken(c)} = {}
  BY <1>1
<1>5. nread = [c \in Conns |-> 0] /\ answers = [c \in Conns |-> 0]
  BY DEF Init, TcpInit
<1> QED
  BY <1>3, <1>4, <1>5 DEF Talk!Init

SamePhases == \A c \in Conns : Phase(c)' = Phase(c)
SameBroken == \A c \in Conns : Broken(c)' <=> Broken(c)

\* Nothing that the conversations are about changes.
LEMMA TalkStutters ==
  ASSUME UNCHANGED <<nread, answers>>, SamePhases, SameBroken
  PROVE  TalkStep
<1>1. [c \in Conns |-> Phase(c)]' = [c \in Conns |-> Phase(c)]
  BY DEF SamePhases
<1>2. {c \in Conns : Broken(c)}' = {c \in Conns : Broken(c)}
  BY DEF SameBroken
<1> QED
  BY <1>1, <1>2 DEF TalkStep, Talk!conversationVars

\* One conversation takes a turn, and no connection breaks.
LEMMA TurnTaken ==
  ASSUME NEW c \in Conns, NEW from, NEW to, MovesOn(c, from, to), SameBroken
  PROVE  /\ Talk!Turn(c, from, to)
         /\ {d \in Conns : Broken(d)}' = {d \in Conns : Broken(d)}
<1>1. [d \in Conns |-> Phase(d)][c] = from
  BY DEF MovesOn
<1>2. [d \in Conns |-> Phase(d)]' = [[d \in Conns |-> Phase(d)] EXCEPT ![c] = to]
  BY DEF MovesOn
<1>3. {d \in Conns : Broken(d)}' = {d \in Conns : Broken(d)}
  BY DEF SameBroken
<1> QED
  BY <1>1, <1>2, <1>3 DEF Talk!Turn

\* main prepares the first accept: no client was heard yet.
LEMMA BootTalk ==
  ASSUME IInv, Boot
  PROVE  TalkStep
<1>1. RingInv /\ UNCHANGED <<peer, nread, answers, fdtab, done>>
  BY DEF IInv, Boot, tcpVars, history
<1>2. OpenFds = {}
  BY <1>1 DEF Boot, RingInv, Dormant
<1>3. SamePhases
  BY <1>1, <1>2, PhasesStay DEF SamePhases
<1>4. SameBroken
  BY <1>1 DEF SameBroken, Broken
<1> QED
  BY <1>1, <1>3, <1>4, TalkStutters

\* The loop, and completions that are not of a recv.
LEMMA RunTalk ==
  ASSUME IInv, (Loop /\ UNCHANGED srvVars) \/ HandleAccept \/ HandleWrite
  PROVE  TalkStep
<1>1. /\ RingInv /\ UNCHANGED <<peer, nread, answers, fdtab, done>>
      /\ sockfd \in {ListenFd, BadFd}
  BY DEF IInv, TypeOK, Loop, Submit, Submitted, Peek, Advance, HandleAccept, HandleWrite,
         tcpVars, srvVars, history
<1>2. ASSUME Loop
      PROVE  SamePhases
  BY <1>1, <1>2, LoopPhase DEF SamePhases
<1>3. ASSUME HandleAccept
      PROVE  SamePhases
  <2> DEFINE new == AfterAccept(cq[i + 1].res)
             a == Accept(sockfd)
             r == RecvInto(cq[i + 1].res)
  <2>1. Handling("ACCEPT") /\ cq[i + 1].res \in Fds \cup {BadFd} /\ Prepare(new)
    BY <1>1, <1>3, HandledKinds DEF HandleAccept
  <2>2. a \in Sqes /\ a.event = "ACCEPT" /\ r \in Sqes /\ r.event = "READ"
    BY <1>1, <2>1, PreparedKinds DEF Accept, RecvInto, Sqe
  <2>3. new = <<a, r>>
    BY DEF AfterAccept
  <2> HIDE DEF new, a, r
  <2>4. new \in Seq(Sqes) /\ \A k \in 1..Len(new) : new[k].event # "WRITE"
    BY <2>2, <2>3
  <2> QED
    BY <1>1, <2>1, <2>4, HandlingPhase DEF SamePhases
<1>4. ASSUME HandleWrite
      PROVE  SamePhases
  <2> DEFINE new == AfterWrite(cq[i + 1].fd)
             r == RecvInto(cq[i + 1].fd)
  <2>1. Handling("WRITE") /\ cq[i + 1].fd \in Fds /\ Prepare(new)
    BY <1>1, <1>4, HandledKinds DEF HandleWrite
  <2>2. r \in Sqes /\ r.event = "READ"
    BY <1>1, <2>1, HandledKinds
  <2>3. new = <<r>>
    BY DEF AfterWrite
  <2> HIDE DEF new, r
  <2>4. new \in Seq(Sqes) /\ \A k \in 1..Len(new) : new[k].event # "WRITE"
    BY <2>2, <2>3
  <2> QED
    BY <1>1, <2>1, <2>4, HandlingPhase DEF SamePhases
<1>5. SameBroken
  BY <1>1 DEF SameBroken, Broken
<1> QED
  BY <1>1, <1>2, <1>3, <1>4, <1>5, TalkStutters

\* main leaves a client at end of file, and otherwise has only prepared the
\* answer, if the ring has room for it.
LEMMA ReadTalk ==
  ASSUME IInv, HandleRead, SqNeverFull'
  PROVE  TalkStep
<1>1. PICK fd, ret : fd = cq[i + 1].fd /\ ret = cq[i + 1].res
  OBVIOUS
<1>2. /\ RingInv /\ Handling("READ") /\ UNCHANGED <<peer, nread, answers>>
      /\ \/ ret = 0 /\ CloseFd(fd) /\ UNCHANGED sq
         \/ ret > 0 /\ Prepare(<<SendFrom(fd, ResponseLength)>>) /\ UNCHANGED <<fdtab, done>>
         \/ ret < 0 /\ UNCHANGED <<fdtab, done, sq>>
  BY <1>1 DEF IInv, HandleRead, AfterRead, history
<1>3. ret \in -1..BufferLength /\ (ret >= 0 => fd \in Fds)
  BY <1>1, <1>2, HandledKinds
<1>4. SameBroken
  BY <1>2 DEF SameBroken, Broken
<1>5. CASE ret = 0 /\ CloseFd(fd) /\ UNCHANGED sq
  <2>1. fd \in Fds
    BY <1>3, <1>5
  <2>2. PICK c \in Conns : MovesOn(c, "listening", "over")
    BY <1>1, <1>2, <1>5, <2>1, ClosePhase
  <2>3. Talk!Leave(c)
    BY <1>2, <1>4, <2>2, TurnTaken DEF Talk!Leave
  <2> QED
    BY <2>3 DEF TalkStep, Talk!Next
<1>6. CASE ret > 0 /\ Prepare(<<SendFrom(fd, ResponseLength)>>) /\ UNCHANGED <<fdtab, done>>
  <2>1. PICK s : s = SendFrom(fd, ResponseLength)
    OBVIOUS
  <2>2. fd \in Fds
    BY <1>3, <1>6, FdFacts
  <2>3. s \in Sqes /\ s.event = "WRITE" /\ s.fd = fd
    BY <1>2, <2>1, <2>2, HandledKinds, CUringAssumption DEF CUringAssumption
  <2>4. pc' # "nosqe"
    BY DEF SqNeverFull
  <2>5. SamePhases
    BY <1>1, <1>2, <1>6, <2>1, <2>2, <2>3, <2>4, ReadPhase DEF SamePhases
  <2> QED
    BY <1>2, <1>4, <2>5, TalkStutters
<1>7. CASE ret < 0 /\ UNCHANGED <<fdtab, done, sq>>
  <2>1. ~(ret > 0)
    BY <1>3, <1>7, FdFacts
  <2>2. <<>> \in Seq(Sqes) /\ \A k \in 1..Len(<<>>) : <<>>[k].event # "WRITE"
    BY EmptySeq
  <2>3. SamePhases
    BY <1>1, <1>2, <1>7, <2>1, <2>2, HandlingPhase DEF SamePhases
  <2> QED
    BY <1>2, <1>4, <2>3, TalkStutters
<1> QED
  BY <1>2, <1>5, <1>6, <1>7

\* accept admits a client, or fails.
LEMMA AcceptTalk ==
  ASSUME IInv, Running, NEW op \in flight, KernelAccept(op)
  PROVE  TalkStep
<1>1. /\ RingInv /\ op.event = "ACCEPT" /\ CompleteAccept(op)
      /\ UNCHANGED <<peer, nread, answers, done, sq, batchVars>>
  BY DEF IInv, KernelAccept, loopVars, srvVars, history
<1>2. SameBroken
  BY <1>1 DEF SameBroken, Broken
<1>3. ASSUME NEW fd \in Fds, AcceptConn(fd), Complete(op, fd)
      PROVE  TalkStep
  <2>1. PICK c \in Conns : MovesOn(c, "waiting", "listening")
    BY <1>1, <1>3, AcceptPhase
  <2>2. Talk!Admit(c)
    BY <1>1, <1>2, <2>1, TurnTaken DEF Talk!Admit
  <2> QED
    BY <2>2 DEF TalkStep, Talk!Next
<1>4. ASSUME Complete(op, -1), UNCHANGED fdtab
      PROVE  TalkStep
  <2>1. SamePhases
    BY <1>1, <1>4, AcceptFailedPhase DEF SamePhases
  <2> QED
    BY <1>1, <1>2, <2>1, TalkStutters
<1> QED
  BY <1>1, <1>3, <1>4 DEF CompleteAccept

\* A recv hears something new, or only the end.
LEMMA RecvTalk ==
  ASSUME IInv, Running, NEW op \in flight, KernelRecv(op)
  PROVE  TalkStep
<1>1. PICK c \in Conns, cnt \in -1..BufferLength :
        c = op.conn /\ Recv(c, BufferLength, cnt) /\ Complete(op, cnt)
  BY OpOwner DEF IInv, KernelRecv, CompleteRecv
<1>2. /\ RingInv /\ op.event = "READ"
      /\ UNCHANGED <<fdtab, done, sq, batchVars, answers>>
  BY DEF IInv, KernelRecv, loopVars, history
<1>3. SameBroken
  BY <1>1, <1>2, TransferBroken DEF SameBroken
<1>4. CASE cnt > 0
  <2>1. MovesOn(c, "listening", "answering")
    BY <1>1, <1>2, <1>4, TransferPhase
  <2>2. nread'[c] > nread[c] /\ nread' = [nread EXCEPT ![c] = nread'[c]]
    BY <1>1, <1>2, <1>4, RecvCount
  <2>3. Talk!Hear(c)
    BY <1>2, <1>3, <2>1, <2>2, TurnTaken DEF Talk!Hear
  <2> QED
    BY <2>3 DEF TalkStep, Talk!Next
<1>5. CASE ~(cnt > 0)
  <2>1. SamePhases
    BY <1>1, <1>2, <1>5, TransferPhase DEF SamePhases
  <2>2. nread' = nread
    BY <1>1, <1>2, <1>5, RecvCount
  <2> QED
    BY <1>2, <1>3, <2>1, <2>2, TalkStutters
<1> QED
  BY <1>4, <1>5

\* A send answers, unless the client has reset.
LEMMA SendTalk ==
  ASSUME IInv, Running, NEW op \in flight, KernelSend(op)
  PROVE  TalkStep
<1>1. PICK fd \in Fds, c \in Conns, len \in 1..BufferLength :
        fd = op.fd /\ c = op.conn /\ c = fdtab[fd] /\ len = op.len
  BY OpOwner DEF IInv, KernelSend
<1>2. PICK n \in 0..len :
        /\ CompleteSend(op, n)
        /\ answers' = [answers EXCEPT ![c] = IF n > 0 THEN @ + 1 ELSE @]
  BY <1>1 DEF KernelSend
<1>3. /\ RingInv /\ op.event = "WRITE"
      /\ UNCHANGED <<nread, fdtab, done, sq, batchVars>>
  BY DEF IInv, KernelSend, loopVars
<1>4. /\ answers \in [Conns -> 0..MaxSend] /\ nread \in [Conns -> 0..MaxSend]
      /\ MaxSend \in Nat /\ answers[c] < nread[c]
  BY <1>1, <1>3, TcpAssumption
  DEF IInv, TypeOK, TcpTypeOK, AnswersDue, Due, TcpAssumption
<1>5. ASSUME NEW res \in -1..BufferLength, Complete(op, res)
      PROVE  MovesOn(c, "answering", "listening")
  BY <1>1, <1>3, <1>5, TransferPhase
<1>6. CASE n \in SendLengths(op) /\ Send(c, "sent") /\ Complete(op, n)
  <2>1. n > 0 /\ n \in -1..BufferLength
    <3>1. SendLengths(op) \subseteq 1..len
      BY <1>1 DEF SendLengths
    <3>2. n \in 1..len /\ len \in 1..BufferLength
      BY <1>6, <3>1
    <3> QED
      BY <3>2, FdFacts
  <2>2. MovesOn(c, "answering", "listening")
    BY <1>5, <1>6, <2>1
  <2>3. SameBroken
    BY <1>3, <1>6, TransferBroken DEF SameBroken
  <2>4. answers'[c] = answers[c] + 1 /\ answers' = [answers EXCEPT ![c] = answers'[c]]
    BY <1>2, <1>4, <2>1
  <2>5. answers'[c] > answers[c] /\ answers'[c] <= nread[c]
    BY <1>4, <2>4
  <2>6. Talk!Answer(c)
    BY <1>3, <2>2, <2>3, <2>4, <2>5, TurnTaken DEF Talk!Answer
  <2> QED
    BY <2>6 DEF TalkStep, Talk!Next
<1>7. ASSUME n = 0, NEW res \in {"reset", "pipe"}, Send(c, res), Complete(op, -1)
      PROVE  TalkStep
  <2>1. MovesOn(c, "answering", "listening")
    BY <1>5, <1>7, FdFacts
  <2>2. SameBroken /\ Broken(c)
    BY <1>3, <1>7, TransferBroken DEF SameBroken
  <2>3. answers' = answers
    BY <1>2, <1>4, <1>7
  <2>4. Talk!Falter(c)
    BY <1>3, <2>1, <2>2, <2>3, TurnTaken DEF Talk!Falter
  <2> QED
    BY <2>4 DEF TalkStep, Talk!Next
<1> QED
  BY <1>1, <1>2, <1>6, <1>7 DEF CompleteSend

\* A client may break its conversation, and nothing else.
LEMMA ClientTalk ==
  ASSUME IInv, NEW c \in Conns, ClientStep(c)
  PROVE  TalkStep
<1>1. /\ RingInv /\ Client(c)
      /\ UNCHANGED <<answers, sq, flight>> /\ Unhandled' = Unhandled
  BY DEF IInv, ClientStep, srvVars, history, uringVars, loopVars, batchVars, Unhandled
<1>2. /\ UNCHANGED <<nread, fdtab, done>>
      /\ Broken(c) => Broken(c)'
      /\ \A d \in Conns : d # c => (Broken(d)' <=> Broken(d))
  BY <1>1, ClientBreaks
<1>3. SamePhases
  BY <1>1, <1>2, StillPhase DEF SamePhases
<1>4. CASE Broken(c)' <=> Broken(c)
  <2>1. SameBroken
    BY <1>2, <1>4 DEF SameBroken
  <2> QED
    BY <1>1, <1>2, <1>3, <2>1, TalkStutters
<1>5. CASE ~Broken(c) /\ Broken(c)'
  <2>1. {d \in Conns : Broken(d)}' = {d \in Conns : Broken(d)} \cup {c}
    BY <1>2, <1>5
  <2>2. [d \in Conns |-> Phase(d)]' = [d \in Conns |-> Phase(d)]
    BY <1>3 DEF SamePhases
  <2>3. Talk!Break(c)
    BY <1>1, <1>2, <1>5, <2>1, <2>2 DEF Talk!Break
  <2> QED
    BY <2>3 DEF TalkStep, Talk!Next
<1> QED
  BY <1>2, <1>4, <1>5

LEMMA StepTalk == IInv /\ SqNeverFull' /\ [Next]_vars => TalkStep
<1> SUFFICES ASSUME IInv, SqNeverFull', [Next]_vars
             PROVE  TalkStep
  OBVIOUS
<1>1. CASE Boot
  BY <1>1, BootTalk
<1>2. CASE (Loop /\ UNCHANGED srvVars) \/ HandleAccept \/ HandleWrite
  BY <1>2, RunTalk
<1>3. CASE HandleRead
  BY <1>3, ReadTalk
<1>4. ASSUME NEW fd \in AllFds, Kernel(fd)
      PROVE  TalkStep
  BY <1>4, AcceptTalk, RecvTalk, SendTalk DEF Kernel
<1>5. ASSUME NEW c \in Conns, ClientStep(c)
      PROVE  TalkStep
  BY <1>5, ClientTalk
<1>6. CASE UNCHANGED vars
  <2>1. UNCHANGED <<peer, nread, answers, fdtab, done, sq, flight, cq, i>>
    BY <1>6 DEF vars, tcpVars, srvVars, history, uringVars, loopVars, batchVars
  <2>2. Unhandled' = Unhandled
    BY <2>1 DEF Unhandled
  <2>3. SamePhases
    BY <2>1, <2>2, StillPhase DEF SamePhases
  <2>4. SameBroken
    BY <2>1 DEF SameBroken, Broken
  <2> QED
    BY <2>1, <2>3, <2>4, TalkStutters
<1> QED
  BY <1>1, <1>2, <1>3, <1>4, <1>5, <1>6 DEF Next, Run

\* The single-file io_uring server implements Conversation: whatever the one
\* buffer holds, each client is answered once for what was read of it.
THEOREM Refinement ==
  ASSUME SqEntries >= 2 * CqBatch, SqEntries > 2
  PROVE  Spec => TakesTurns
<1>1. Init => Talk!Init
  BY TalkInit
<1>2. Spec => []SqNeverFull
  <2>1. AlwaysArmed => SqNeverFull
    BY DEF AlwaysArmed, RingsNeverFull
  <2> QED
    BY <2>1, AlwaysAnAccept, PTL
<1> QED
  BY <1>1, <1>2, StepTalk, Invariance, PTL
  DEF Spec, TakesTurns, Talk!Spec, TalkStep
=============================================================================
