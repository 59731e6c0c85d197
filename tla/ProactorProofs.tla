--------------------------- MODULE ProactorProofs ---------------------------
(***************************************************************************)
(* Proofs about the io_uring server, for every value of the constants.     *)
(***************************************************************************)
EXTENDS ProactorProps, CqProofs

-----------------------------------------------------------------------------
(* Every step preserves what the loop and the kernel rest on. *)

\* What is handled, and what it may be answered with.
LEMMA HandledKinds ==
  ASSUME RingInv
  PROVE  /\ Handling("ACCEPT") => cq[i + 1].res \in Fds \cup {BadFd}
         /\ Handling("READ") =>
              /\ cq[i + 1].res \in -1..BufferLength
              /\ cq[i + 1].res >= 0 => cq[i + 1].fd \in Fds /\ cq[i + 1].conn \in Conns
         /\ Handling("WRITE") => cq[i + 1].fd \in Fds
         /\ \A fd \in Fds : /\ RecvInto(fd) \in Sqes /\ RecvInto(fd).event = "READ"
                            /\ RecvInto(fd).fd = fd
         /\ \A fd \in Fds, len \in 1..BufferLength :
              /\ SendFrom(fd, len) \in Sqes /\ SendFrom(fd, len).event = "WRITE"
              /\ SendFrom(fd, len).fd = fd /\ SendFrom(fd, len).len = len
<1>1. ASSUME NEW event, Handling(event)
      PROVE  cq[i + 1] \in Cqes /\ cq[i + 1].event = event
  BY <1>1, HandlingEffect
<1>2. Handling("ACCEPT") => cq[i + 1].res \in Fds \cup {BadFd}
  BY <1>1, CqeKinds, FdFacts
<1>3. Handling("READ") =>
        /\ cq[i + 1].res \in -1..BufferLength
        /\ cq[i + 1].res >= 0 => cq[i + 1].fd \in Fds /\ cq[i + 1].conn \in Conns
  BY <1>1, CqeKinds, FdFacts
<1>4. Handling("WRITE") => cq[i + 1].fd \in Fds
  BY <1>1, CqeKinds
<1> QED
  BY <1>2, <1>3, <1>4, PreparedKinds DEF RecvInto, SendFrom, Sqe

LEMMA RingStep ==
  ASSUME RingInv, [Next]_vars
  PROVE  RingInv'
<1>1. CASE Boot
  <2>1. /\ pc = "boot" /\ UNCHANGED <<tcpVars, flight, cq, batchVars>>
        /\ \/ sq' = <<Sqe("ACCEPT", ListenFd, 0)>> /\ pc' = "submit"
           \/ UNCHANGED sq /\ pc' = "crashed"
    BY <1>1 DEF Boot, Accept
  <2> QED
    BY <2>1, BootInv
<1>2. CASE Loop
  BY <1>2, LoopInv
<1>3. CASE HandleAccept
  <2>1. Handling("ACCEPT") /\ UNCHANGED tcpVars
    BY <1>3 DEF HandleAccept
  <2>2. CASE Prepare(<<Sqe("ACCEPT", ListenFd, 0), Sqe("READ", cq[i + 1].res, BufferLength)>>)
    BY <2>1, <2>2, AcceptHandled
  <2>3. CASE pc' = "crashed" /\ UNCHANGED sq
    BY <2>1, <2>3, HandleCrash
  <2>4. cq[i + 1].res \notin Fds => cq[i + 1].res = BadFd
    BY <2>1, HandledKinds
  <2> QED
    BY <1>3, <2>2, <2>3, <2>4 DEF HandleAccept, AfterAccept, Accept, RecvInto
<1>4. CASE HandleRead
  <2> DEFINE fd == cq[i + 1].fd
             ret == cq[i + 1].res
  <2>1. /\ Handling("READ") /\ UNCHANGED <<peer, sent, nread, unread, backlog>>
        /\ \/ ret = 0 /\ CloseFd(fd) /\ UNCHANGED <<pc, sq>>
           \/ ret > 0 /\ Prepare(<<SendFrom(fd, ret)>>) /\ UNCHANGED <<fdtab, done>>
           \/ ret < 0 /\ UNCHANGED <<fdtab, done, pc, sq>>
    BY <1>4 DEF HandleRead, AtEnd
  <2>2. CASE ret = 0 /\ CloseFd(fd) /\ UNCHANGED <<pc, sq>>
    BY <2>1, <2>2, HandleClose
  <2>3. CASE ret > 0 /\ Prepare(<<SendFrom(fd, ret)>>) /\ UNCHANGED <<fdtab, done>>
    <3>1. fd \in Fds /\ ret \in 1..BufferLength
      BY <2>1, <2>3, HandledKinds, FdFacts
    <3>2. /\ SendFrom(fd, ret) \in Sqes /\ SendFrom(fd, ret).event # "ACCEPT"
          /\ SendFrom(fd, ret).fd = fd
      BY <3>1, HandledKinds
    <3> QED
      BY <2>1, <2>3, <3>1, <3>2, TransferHandled DEF tcpVars
  <2>4. CASE ret < 0 /\ UNCHANGED <<fdtab, done, pc, sq>>
    BY <2>1, <2>4, HandleDrop DEF tcpVars
  <2> QED
    BY <2>1, <2>2, <2>3, <2>4
<1>5. CASE HandleWrite
  <2>1. Handling("WRITE") /\ UNCHANGED tcpVars /\ Prepare(<<RecvInto(cq[i + 1].fd)>>)
    BY <1>5 DEF HandleWrite, AfterWrite
  <2>2. /\ cq[i + 1].fd \in Fds /\ RecvInto(cq[i + 1].fd) \in Sqes
        /\ RecvInto(cq[i + 1].fd).event # "ACCEPT"
        /\ RecvInto(cq[i + 1].fd).fd = cq[i + 1].fd
    BY <2>1, HandledKinds
  <2> QED
    BY <2>1, <2>2, TransferHandled
<1>6. ASSUME NEW op \in flight, Running, KernelAccept(op)
      PROVE  RingInv'
  <2>1. /\ op.event = "ACCEPT"
        /\ UNCHANGED <<peer, sent, nread, unread, sq, batchVars>>
    BY <1>6 DEF KernelAccept
  <2>2. \/ /\ CompleteAccept(op) /\ pc' \in {pc, "crashed"} /\ UNCHANGED done
        \/ /\ Complete(op, -1) /\ UNCHANGED <<fdtab, pc>>
           /\ \/ UNCHANGED <<backlog, done>>
              \/ /\ backlog # <<>> /\ backlog' = Tail(backlog)
                 /\ done' = done \cup {Head(backlog)}
    BY <1>6 DEF KernelAccept
  <2>3. CASE CompleteAccept(op) /\ pc' \in {pc, "crashed"} /\ UNCHANGED done
    BY <1>6, <2>1, <2>3, AcceptDone, AcceptFailed DEF CompleteAccept
  <2>4. CASE /\ Complete(op, -1) /\ UNCHANGED <<fdtab, pc>>
             /\ \/ UNCHANGED <<backlog, done>>
                \/ /\ backlog # <<>> /\ backlog' = Tail(backlog)
                   /\ done' = done \cup {Head(backlog)}
    BY <1>6, <2>1, <2>4, AcceptFailed
  <2> QED
    BY <2>2, <2>3, <2>4
<1>7. ASSUME NEW op \in flight, Running, KernelRecv(op)
      PROVE  RingInv'
  <2>1. PICK cnt \in -1..BufferLength : CompleteRecv(op, cnt)
    BY <1>7 DEF KernelRecv
  <2> QED
    BY <1>7, <2>1, RecvDone DEF KernelRecv
<1>8. ASSUME NEW op \in flight, Running, KernelSend(op)
      PROVE  RingInv'
  <2>1. PICK n \in 0..op.len : CompleteSend(op, n)
    BY <1>8 DEF KernelSend
  <2> QED
    BY <1>8, <2>1, SendDone DEF KernelSend
<1>9. ASSUME NEW c \in Conns, ClientStep(c)
      PROVE  RingInv'
  BY <1>9, ClientInv DEF ClientStep
<1>10. CASE UNCHANGED vars
  BY <1>10, StutterInv DEF vars
<1> QED
  BY <1>1, <1>2, <1>3, <1>4, <1>5, <1>6, <1>7, <1>8, <1>9, <1>10
  DEF Next, Run, Kernel

-----------------------------------------------------------------------------
(* The bytes. *)

RbufType == rbuf \in [Fds -> [1..BufferLength -> Byte]]
EchoedType == echoed \in [Conns -> Seq(Byte)] /\ cut \subseteq Conns

DataInv ==
  RbufType /\ EchoedType /\ BytesHeld /\ EchoedWasRead /\ EchoOwnBytesInOrder

LEMMA BytesHeldMeaning ==
  BytesHeld <=> \A fd, n : Writing(fd, n) \/ Reported(fd, n) => Held(fd, n)
BY DEF BytesHeld, Writing, Reported

SameData(fd) ==
  /\ fdtab'[fd] = fdtab[fd] /\ rbuf'[fd] = rbuf[fd]
  /\ nread'[fdtab[fd]] = nread[fdtab[fd]] /\ echoed'[fdtab[fd]] = echoed[fdtab[fd]]
  /\ fdtab[fd] \in cut' <=> fdtab[fd] \in cut

LEMMA HeldKept ==
  ASSUME NEW fd, NEW n, Held(fd, n), SameData(fd)
  PROVE  Held(fd, n)'
BY DEF Held, SameData

\* What is still in use is as it was, or holds what it should.
LEMMA DataKept ==
  ASSUME DataInv, UNCHANGED <<nread, echoed, cut>>, RbufType',
         \A fd, n : Writing(fd, n)' \/ Reported(fd, n)' =>
                      \/ (Writing(fd, n) \/ Reported(fd, n)) /\ SameData(fd)
                      \/ Held(fd, n)'
  PROVE  DataInv'
<1>1. BytesHeld'
  <2>1. \A fd, n : Writing(fd, n)' \/ Reported(fd, n)' => Held(fd, n)'
    BY HeldKept, BytesHeldMeaning DEF DataInv
  <2> QED
    BY <2>1 DEF BytesHeld, Writing, Reported
<1>2. EchoedType' /\ EchoedWasRead' /\ EchoOwnBytesInOrder'
  BY DEF DataInv, EchoedType, EchoedWasRead, EchoOwnBytesInOrder
<1> QED
  BY <1>1, <1>2 DEF DataInv

LEMMA ByteFacts ==
  Zero \in Byte /\ Zeros \in [1..BufferLength -> Byte]
BY DEF Zero, Zeros, Byte

LEMMA DataQuiet ==
  ASSUME RingInv, DataInv, UNCHANGED <<fdtab, nread, rbuf, echoed, cut>>,
         \A fd, n : /\ Writing(fd, n)' => Writing(fd, n) \/ Reported(fd, n)
                    /\ Reported(fd, n)' => Reported(fd, n)
  PROVE  DataInv'
BY DataKept DEF DataInv, RbufType, SameData

LEMMA DataBoot ==
  ASSUME RingInv, DataInv, Boot
  PROVE  DataInv'
<1>1. /\ UNCHANGED <<fdtab, nread, rbuf, echoed, cut>> /\ Unhandled' = Unhandled
      /\ flight = {} /\ flight' = flight /\ sq = <<>>
      /\ sq' = <<Accept>> \/ UNCHANGED sq
  BY DEF Boot, tcpVars, batchVars, history, Unhandled, RingInv, Dormant
<1>2. \A k \in 1..Len(sq') : sq'[k].event # "WRITE"
  <2>1. CASE sq' = <<Accept>>
    BY <2>1 DEF Accept, Sqe
  <2>2. CASE UNCHANGED sq
    BY <1>1, <2>2, EmptySeq
  <2> QED
    BY <1>1, <2>1, <2>2
<1>3. \A fd, n : ~Writing(fd, n)' /\ (Reported(fd, n)' => Reported(fd, n))
  BY <1>1, <1>2 DEF Writing, Reported
<1> QED
  BY <1>1, <1>3, DataQuiet

LEMMA DataLoop ==
  ASSUME RingInv, DataInv, Loop, UNCHANGED srvVars
  PROVE  DataInv'
<1>1. UNCHANGED <<fdtab, nread, rbuf, echoed, cut>>
  BY DEF Loop, Submit, Submitted, Peek, Advance, tcpVars, srvVars, history
<1> QED
  BY <1>1, LoopMoves, DataQuiet

\* The buffer of a new descriptor is cleared: nothing of it was in use.
LEMMA DataHandleAccept ==
  ASSUME RingInv, DataInv, HandleAccept
  PROVE  DataInv'
<1>1. /\ Handling("ACCEPT") /\ UNCHANGED <<fdtab, nread, echoed, cut>>
      /\ cq[i + 1].event = "ACCEPT"
  BY DEF HandleAccept, Handling, tcpVars, history
<1>2. ASSUME NEW fd \in Fds \cup {BadFd}
      PROVE  /\ AfterAccept(fd) \in Seq(Sqes)
             /\ \A k \in 1..Len(AfterAccept(fd)) : AfterAccept(fd)[k].event # "WRITE"
  <2> DEFINE a == Accept
             r == RecvInto(fd)
  <2>1. a \in Sqes /\ a.event = "ACCEPT" /\ r \in Sqes /\ r.event = "READ"
    BY PreparedKinds DEF Accept, RecvInto, Sqe
  <2> HIDE DEF a, r
  <2>2. <<a, r>> \in Seq(Sqes) /\ \A k \in 1..Len(<<a, r>>) : <<a, r>>[k].event # "WRITE"
    BY <2>1
  <2> QED
    BY <2>2 DEF AfterAccept, a, r
<1>3. ASSUME NEW sqes \in Seq(Sqes), Prepare(sqes) \/ UNCHANGED sq,
             \A k \in 1..Len(sqes) : sqes[k].event # "WRITE"
      PROVE  \A fd, n : /\ Writing(fd, n)' => Writing(fd, n) /\ fd # cq[i + 1].res
                        /\ Reported(fd, n)' => Reported(fd, n) /\ fd # cq[i + 1].res
  BY <1>1, <1>3, HandlingMoves DEF CarriesOn
<1>4. \A fd, n : /\ Writing(fd, n)' => Writing(fd, n) /\ fd # cq[i + 1].res
                 /\ Reported(fd, n)' => Reported(fd, n) /\ fd # cq[i + 1].res
  <2>1. cq[i + 1].res \in Fds \cup {BadFd}
    BY <1>1, HandledKinds
  <2>2. CASE Prepare(AfterAccept(cq[i + 1].res)) \/ UNCHANGED sq
    BY <1>2, <1>3, <2>1, <2>2
  <2>3. CASE Prepare(AfterAccept(BadFd))
    BY <1>2, <1>3, <2>3
  <2> QED
    BY <2>2, <2>3 DEF HandleAccept
<1>5. CASE cq[i + 1].res \in Fds /\ InitConnectItem(cq[i + 1].res)
  <2>1. rbuf' = [rbuf EXCEPT ![cq[i + 1].res] = Zeros] /\ RbufType
    BY <1>5 DEF InitConnectItem, DataInv
  <2>2. RbufType' /\ \A fd \in Fds : fd # cq[i + 1].res => rbuf'[fd] = rbuf[fd]
    BY <1>5, <2>1, ByteFacts DEF RbufType
  <2>3. \A fd, n : Writing(fd, n) \/ Reported(fd, n) => fd \in Fds
    BY <1>1, HandlingEffect, InUse DEF OpenFds
  <2>4. \A fd, n : Writing(fd, n)' \/ Reported(fd, n)' =>
                     (Writing(fd, n) \/ Reported(fd, n)) /\ SameData(fd)
    BY <1>1, <1>4, <2>2, <2>3 DEF SameData
  <2> QED
    BY <1>1, <2>2, <2>4, DataKept
<1>6. CASE UNCHANGED rbuf
  BY <1>1, <1>4, <1>6, DataQuiet
<1> QED
  BY <1>5, <1>6 DEF HandleAccept

\* What was read is sent: the terminating 0 comes after it.
LEMMA DataHandleRead ==
  ASSUME RingInv, DataInv, HandleRead
  PROVE  DataInv'
<1>1. PICK fd, ret : fd = cq[i + 1].fd /\ ret = cq[i + 1].res
  OBVIOUS
<1>2. /\ Handling("READ") /\ UNCHANGED <<nread, echoed, cut>> /\ Running
      /\ cq[i + 1].event = "READ" /\ cq[i + 1] = Unhandled[1] /\ 1 \in 1..Len(Unhandled)
  BY HandlingEffect DEF HandleRead, history
<1>3. \/ /\ ret = 0 /\ CloseFd(fd) /\ UNCHANGED <<sq, rbuf>>
      \/ /\ ret > 0 /\ Terminate(fd, ret) /\ Prepare(<<SendFrom(fd, ret)>>)
         /\ UNCHANGED fdtab
      \/ UNCHANGED <<fdtab, sq, rbuf>>
  BY <1>1 DEF HandleRead, AtEnd
<1>4. \A g, n : Writing(g, n) \/ Reported(g, n) => g \in Fds
  BY <1>2, InUse DEF OpenFds
<1>5. CASE UNCHANGED sq
  <2>1. <<>> \in Seq(Sqes) /\ \A k \in 1..Len(<<>>) : FALSE
    BY EmptySeq
  <2>2. \A g, n : /\ Writing(g, n)' => Writing(g, n) /\ g # fd
                  /\ Reported(g, n)' => Reported(g, n) /\ g # fd
    BY <1>1, <1>2, <1>5, <2>1, HandlingMoves DEF CarriesOn
  <2>3. CASE ret = 0 /\ CloseFd(fd) /\ UNCHANGED rbuf
    <3>1. \A g \in Fds : g # fd => fdtab'[g] = fdtab[g]
      BY <2>3 DEF CloseFd, RingInv, TcpTypeOK
    <3>2. \A g, n : Writing(g, n)' \/ Reported(g, n)' =>
                      (Writing(g, n) \/ Reported(g, n)) /\ SameData(g)
      BY <1>2, <1>4, <2>2, <2>3, <3>1 DEF SameData
    <3> QED
      BY <1>2, <2>3, <3>2, DataKept DEF DataInv, RbufType
  <2>4. CASE UNCHANGED <<fdtab, rbuf>>
    BY <1>2, <2>2, <2>4, DataQuiet
  <2>5. CASE ret > 0 /\ Terminate(fd, ret) /\ UNCHANGED fdtab
    <3>1. fd \in Fds
      BY <1>1, <1>2, <2>5, HandledKinds
    <3>2. RbufType' /\ \A g \in Fds : g # fd => rbuf'[g] = rbuf[g]
      BY <1>2, <2>5, <3>1, ByteFacts DEF Terminate, DataInv, RbufType
    <3> QED
      BY <1>2, <1>4, <2>2, <2>5, <3>2, DataKept DEF SameData
  <2> QED
    BY <1>3, <2>3, <2>4, <2>5
<1>6. CASE ret > 0 /\ Terminate(fd, ret) /\ Prepare(<<SendFrom(fd, ret)>>) /\ UNCHANGED fdtab
  <2>1. fd \in Fds /\ ret \in 1..BufferLength /\ BufferLength \in Nat
    BY <1>1, <1>2, <1>6, HandledKinds, FdFacts
  <2> DEFINE s == SendFrom(fd, ret)
  <2>2. s \in Sqes /\ s.fd = fd /\ s.len = ret
    BY <2>1, HandledKinds
  <2> HIDE DEF s
  <2>3. <<s>> \in Seq(Sqes) /\ \A k \in 1..Len(<<s>>) : <<s>>[k] = s
    BY <2>2
  <2>4. Prepare(<<s>>)
    BY <1>6 DEF s
  <2>5. \A g, n : /\ Writing(g, n)' =>
                       \/ Writing(g, n) /\ g # fd
                       \/ g = fd /\ n = ret
                  /\ Reported(g, n)' => Reported(g, n) /\ g # fd
    <3> DEFINE new == <<s>>
    <3>1. new \in Seq(Sqes) /\ Prepare(new) /\ \A k \in 1..Len(new) : new[k] = s
      BY <2>3, <2>4
    <3> HIDE DEF new
    <3>2. \A g, n :
            /\ Writing(g, n)' =>
                 \/ Writing(g, n) /\ ~CarriesOn(cq[i + 1], g)
                 \/ \E k \in 1..Len(new) :
                      new[k].event = "WRITE" /\ new[k].fd = g /\ new[k].len = n
            /\ Reported(g, n)' => Reported(g, n) /\ ~CarriesOn(cq[i + 1], g)
      BY <1>2, <3>1, HandlingMoves
    <3>3. \A g : CarriesOn(cq[i + 1], g) <=> g = fd
      BY <1>1, <1>2 DEF CarriesOn
    <3> QED
      BY <2>2, <3>1, <3>2, <3>3
  <2>6. /\ RbufType' /\ \A g \in Fds : g # fd => rbuf'[g] = rbuf[g]
        /\ \A k \in 1..ret : rbuf'[fd][k] = rbuf[fd][k]
    <3>1. RbufType /\ Zero \in Byte
      BY ByteFacts DEF DataInv
    <3>2. CASE ret < BufferLength
      <4>1. ret + 1 \in 1..BufferLength /\ rbuf' = [rbuf EXCEPT ![fd][ret + 1] = Zero]
        BY <1>6, <2>1, <3>2 DEF Terminate
      <4> QED
        BY <2>1, <3>1, <4>1 DEF RbufType
    <3>3. CASE ~(ret < BufferLength)
      BY <1>6, <3>1, <3>3 DEF Terminate, RbufType
    <3> QED
      BY <3>2, <3>3
  <2>7. Held(fd, ret)'
    <3>1. Reported(fd, ret)
      BY <1>1, <1>2, <2>1 DEF Reported
    <3>2. Held(fd, ret)
      BY <3>1, BytesHeldMeaning DEF DataInv
    <3> QED
      BY <1>2, <1>6, <2>6, <3>2 DEF Held
  <2>8. \A g, n : Writing(g, n)' \/ Reported(g, n)' =>
                    \/ (Writing(g, n) \/ Reported(g, n)) /\ SameData(g)
                    \/ Held(g, n)'
    BY <1>2, <1>4, <1>6, <2>5, <2>6, <2>7 DEF SameData
  <2> QED
    BY <1>2, <2>6, <2>8, DataKept
<1> QED
  BY <1>3, <1>5, <1>6

LEMMA DataHandleWrite ==
  ASSUME RingInv, DataInv, HandleWrite
  PROVE  DataInv'
<1>1. /\ Handling("WRITE") /\ Prepare(<<RecvInto(cq[i + 1].fd)>>)
      /\ UNCHANGED <<fdtab, nread, rbuf, echoed, cut>>
  BY DEF HandleWrite, AfterWrite, tcpVars, srvVars, history
<1> DEFINE s == RecvInto(cq[i + 1].fd)
<1>2. s \in Sqes /\ s.event = "READ"
  BY <1>1, HandledKinds
<1> HIDE DEF s
<1>3. <<s>> \in Seq(Sqes) /\ \A k \in 1..Len(<<s>>) : <<s>>[k].event # "WRITE"
  BY <1>2
<1>4. \A fd, n : /\ Writing(fd, n)' => Writing(fd, n)
                 /\ Reported(fd, n)' => Reported(fd, n)
  <2> DEFINE new == <<s>>
  <2>1. /\ new \in Seq(Sqes) /\ Prepare(new)
        /\ \A k \in 1..Len(new) : new[k].event # "WRITE"
    BY <1>1, <1>3 DEF s
  <2> HIDE DEF new
  <2> QED
    BY <1>1, <2>1, HandlingMoves
<1> QED
  BY <1>1, <1>4, DataQuiet

LEMMA DataAccept ==
  ASSUME RingInv, DataInv, Running, NEW op \in flight, KernelAccept(op)
  PROVE  DataInv'
<1>1. /\ op.event = "ACCEPT" /\ UNCHANGED <<nread, sq, rbuf, echoed, cut, batchVars>>
  BY DEF KernelAccept
<1>2. PICK res \in Fds \cup {-1} :
        /\ Complete(op, res)
        /\ \A g \in OpenFds : fdtab'[g] = fdtab[g]
  <2>1. CASE CompleteAccept(op)
    <3>1. CASE \E fd \in Fds : AcceptConn(fd) /\ Complete(op, fd)
      <4>1. PICK fd \in Fds : AcceptConn(fd) /\ Complete(op, fd)
        BY <3>1
      <4>2. \A g \in OpenFds : fdtab'[g] = fdtab[g]
        BY <4>1 DEF AcceptConn, FreeFds, OpenFds, RingInv, TcpTypeOK
      <4> QED
        BY <4>1, <4>2
    <3> QED
      BY <2>1, <3>1 DEF CompleteAccept
  <2>2. CASE Complete(op, -1) /\ UNCHANGED fdtab
    BY <2>2
  <2> QED
    BY <2>1, <2>2 DEF KernelAccept
<1>3. Cqe(op, res) \in Cqes
  BY <1>1, CompletedKinds DEF RingInv, UringTypeOK
<1>4. \A fd, n : /\ Writing(fd, n)' => Writing(fd, n)
                 /\ Reported(fd, n)' => Reported(fd, n)
  BY <1>1, <1>2, <1>3, CompleteMoves
<1>5. \A fd, n : Writing(fd, n)' \/ Reported(fd, n)' =>
                   (Writing(fd, n) \/ Reported(fd, n)) /\ SameData(fd)
  BY <1>1, <1>2, <1>4, InUse DEF SameData
<1> QED
  BY <1>1, <1>5, DataKept DEF DataInv, RbufType

\* The bytes that a recv has read are the last that were read.
LEMMA DataRecv ==
  ASSUME RingInv, DataInv, EchoedWhole, Running, NEW op \in flight, KernelRecv(op)
  PROVE  DataInv'
<1>1. PICK fd \in Fds, c \in Conns : fd = op.fd /\ c = op.conn
  BY OpOwner DEF KernelRecv
<1>2. PICK cnt \in -1..BufferLength :
        /\ Recv(c, BufferLength, cnt) /\ Complete(op, cnt)
        /\ rbuf' = [rbuf EXCEPT ![fd] = Fill(@, c, cnt)]
  BY <1>1, OpOwner DEF KernelRecv, CompleteRecv
<1>3. /\ op.event = "READ"
      /\ UNCHANGED <<sent, unread, backlog, fdtab, done, sq, batchVars, echoed, cut>>
      /\ fdtab[fd] = c /\ \A g \in OpenFds : g # fd => fdtab[g] # c
  BY <1>1, OpOwner DEF KernelRecv, loopVars, history
<1>4. /\ BufferLength \in Nat \ {0} /\ cnt \in Int /\ TcpTypeOK /\ Cqe(op, cnt) \in Cqes
  BY <1>3, FdFacts, CompletedKinds DEF RingInv, UringTypeOK
<1>5. /\ nread' = [nread EXCEPT ![c] = @ + (IF cnt > 0 THEN cnt ELSE 0)]
      /\ nread' \in [Conns -> 0..MaxSend] /\ nread \in [Conns -> 0..MaxSend]
      /\ MaxSend \in Nat
  BY <1>2, <1>3, <1>4, RecvEffect, TcpAssumption DEF TcpTypeOK, TcpAssumption
<1>6. /\ nread'[c] = nread[c] + (IF cnt > 0 THEN cnt ELSE 0)
      /\ \A x \in Conns : x # c => nread'[x] = nread[x]
      /\ nread[c] \in 0..MaxSend /\ nread'[c] \in 0..MaxSend
  BY <1>5
<1>7. RbufType' /\ (\A g \in Fds : g # fd => rbuf'[g] = rbuf[g])
      /\ \A k \in 1..BufferLength : k <= cnt => rbuf'[fd][k] = <<c, nread[c] + k>>
  <2>1. RbufType
    BY DEF DataInv
  <2>2. Fill(rbuf[fd], c, cnt) \in [1..BufferLength -> Byte]
    <3>1. ASSUME NEW k \in 1..BufferLength, k <= cnt
          PROVE  <<c, nread[c] + k>> \in Byte
      <4>1. nread[c] + k \in 1..MaxSend
        BY <1>4, <1>5, <1>6, <3>1
      <4> QED
        BY <4>1 DEF Byte
    <3>2. \A k \in 1..BufferLength : rbuf[fd][k] \in Byte
      BY <2>1 DEF RbufType
    <3> QED
      BY <3>1, <3>2 DEF Fill
  <2> QED
    BY <1>2, <2>1, <2>2 DEF RbufType, Fill
<1>8. \A g, n : /\ Writing(g, n)' => Writing(g, n) /\ g # fd
                /\ Reported(g, n)' =>
                     \/ Reported(g, n) /\ g # fd
                     \/ g = fd /\ n = cnt /\ n > 0
  BY <1>1, <1>2, <1>3, <1>4, CompleteMoves
<1>9. EchoedWasRead /\ EchoedType /\ EchoOwnBytesInOrder
  BY DEF DataInv
<1>10. cnt > 0 => Held(fd, cnt)'
  <2> SUFFICES ASSUME cnt > 0
               PROVE  /\ cnt <= nread'[c]
                      /\ \A k \in 1..cnt : rbuf'[fd][k] = <<c, nread'[c] - cnt + k>>
                      /\ \A k \in 1..Len(echoed[c]) : echoed[c][k][2] <= nread'[c] - cnt
                      /\ c \notin cut => Len(echoed[c]) = nread'[c] - cnt
    BY <1>3 DEF Held
  <2>1. nread'[c] - cnt = nread[c] /\ cnt <= nread'[c]
    BY <1>4, <1>6
  <2>2. \A k \in 1..cnt : k \in 1..BufferLength /\ k <= cnt
    BY <1>4
  <2>3. c \notin cut => Len(echoed[c]) = nread[c]
    <3>1. cnt \in -1..BufferLength /\ Complete(op, cnt) /\ UNCHANGED <<fdtab, done, sq, batchVars>>
      BY <1>2, <1>3
    <3>2. MovesOn(c, "listening", "answering")
      BY <1>1, <1>3, <3>1, TransferPhase
    <3>3. SqNeverFull
      BY DEF Running, SqNeverFull
    <3> QED
      BY <3>2, <3>3 DEF MovesOn, EchoedWhole
  <2> QED
    BY <1>7, <1>9, <2>1, <2>2, <2>3 DEF EchoedWasRead
<1>11. BytesHeld'
  <2>1. \A g, n : (Writing(g, n) \/ Reported(g, n)) /\ g # fd => SameData(g)
    <3> TAKE g, n
    <3> HAVE (Writing(g, n) \/ Reported(g, n)) /\ g # fd
    <3>1. g \in OpenFds
      BY InUse
    <3>2. g \in Fds /\ fdtab[g] \in Conns /\ fdtab[g] # c
      BY <1>3, <3>1 DEF OpenFds, RingInv, TcpTypeOK
    <3> QED
      BY <1>3, <1>6, <1>7, <3>2 DEF SameData
  <2>2. \A g, n : Writing(g, n)' \/ Reported(g, n)' => Held(g, n)'
    BY <1>8, <1>10, <2>1, HeldKept, BytesHeldMeaning DEF DataInv
  <2> QED
    BY <2>2 DEF BytesHeld, Writing, Reported
<1>12. EchoedWasRead'
  <2> SUFFICES ASSUME NEW x \in Conns, NEW k \in 1..Len(echoed[x])
               PROVE  echoed[x][k][2] <= nread'[x]
    BY <1>3 DEF EchoedWasRead
  <2>1. echoed[x][k][2] <= nread[x]
    BY <1>9 DEF EchoedWasRead
  <2>2. echoed[x][k] \in Byte
    BY <1>9, ElementOfSeq DEF EchoedType
  <2>3. echoed[x][k][2] \in Int
    BY <2>2 DEF Byte
  <2>4. nread[x] \in Int /\ nread'[x] \in Int /\ nread[x] <= nread'[x]
    BY <1>4, <1>5, <1>6
  <2> QED
    BY <2>1, <2>3, <2>4
<1>13. EchoedType' /\ EchoOwnBytesInOrder'
  BY <1>3, <1>9 DEF EchoedType, EchoOwnBytesInOrder
<1> QED
  BY <1>7, <1>11, <1>12, <1>13 DEF DataInv

\* A buffer is a sequence, and its first n elements are.
LEMMA BufferPrefix ==
  ASSUME NEW S, NEW m \in Nat, NEW buf \in [1..m -> S], NEW n \in 0..m
  PROVE  /\ SubSeq(buf, 1, n) \in Seq(S) /\ Len(SubSeq(buf, 1, n)) = n
         /\ \A k \in 1..n : SubSeq(buf, 1, n)[k] = buf[k]
<1>1. buf \in Seq(S) /\ Len(buf) = m
  <2>1. buf \in Seq(S)
    BY SeqDef
  <2>2. Len(buf) \in Nat /\ DOMAIN buf = 1..Len(buf)
    BY <2>1, LenProperties
  <2>3. 1..Len(buf) = 1..m
    BY <2>2
  <2> QED
    BY <2>1, <2>2, <2>3
<1>2. \A k \in 1..n : buf[k] \in S
  OBVIOUS
<1>3. /\ SubSeq(buf, 1, n) \in Seq(S)
      /\ Len(SubSeq(buf, 1, n)) = IF 1 <= n THEN n - 1 + 1 ELSE 0
      /\ \A k \in 1..n - 1 + 1 : SubSeq(buf, 1, n)[k] = buf[1 + k - 1]
  BY <1>1, <1>2, SubSeqProperties
<1> QED
  BY <1>3

\* The first n of the last len bytes of c are sent after what was sent before.
Appended(c, len, n) ==
  \A k \in 1..Len(echoed'[c]) :
    \/ k \in 1..Len(echoed[c]) /\ echoed'[c][k] = echoed[c][k]
    \/ /\ k > Len(echoed[c]) /\ k - Len(echoed[c]) \in 1..n
       /\ echoed'[c][k] = <<c, nread[c] - len + (k - Len(echoed[c]))>>

\* What is sent was held, and is appended to what was sent before.
LEMMA EchoAppends ==
  ASSUME RingInv, DataInv, NEW op \in flight, op.event = "WRITE", NEW n \in 0..op.len,
         NEW c, c = op.conn,
         echoed' = [echoed EXCEPT ![c] = @ \o SubSeq(rbuf[op.fd], 1, n)]
  PROVE  /\ c \in Conns /\ nread[c] \in Nat /\ op.len \in Nat /\ op.len <= nread[c]
         /\ Len(echoed[c]) \in Nat /\ Len(echoed'[c]) = Len(echoed[c]) + n
         /\ echoed' \in [Conns -> Seq(Byte)]
         /\ \A x \in Conns : x # c => echoed'[x] = echoed[x]
         /\ \A k \in 1..Len(echoed[c]) :
              echoed[c][k][2] \in Int /\ echoed[c][k][2] <= nread[c] - op.len
         /\ Appended(c, op.len, n)
<1>1. PICK fd \in Fds, len \in 1..BufferLength :
        fd = op.fd /\ len = op.len /\ fdtab[fd] = c /\ c \in Conns
  BY OpOwner
<1>2. /\ BufferLength \in Nat /\ nread \in [Conns -> 0..MaxSend] /\ MaxSend \in Nat
      /\ RbufType /\ EchoedType /\ nread[c] \in Nat
  BY <1>1, FdFacts, TcpAssumption DEF RingInv, TcpTypeOK, DataInv, TcpAssumption
<1>3. Held(fd, len)
  BY <1>1, BytesHeldMeaning DEF DataInv, Writing
<1>4. /\ len <= nread[c]
      /\ \A k \in 1..len : rbuf[fd][k] = <<c, nread[c] - len + k>>
      /\ \A k \in 1..Len(echoed[c]) : echoed[c][k][2] <= nread[c] - len
  BY <1>1, <1>3 DEF Held
<1> DEFINE old == echoed[c]
           new == SubSeq(rbuf[fd], 1, n)
<1>5. /\ old \in Seq(Byte) /\ Len(old) \in Nat
      /\ new \in Seq(Byte) /\ Len(new) = n
      /\ \A k \in 1..n : new[k] = <<c, nread[c] - len + k>>
  <2>1. rbuf[fd] \in [1..BufferLength -> Byte] /\ n \in 0..BufferLength
    BY <1>1, <1>2 DEF RbufType
  <2>2. /\ new \in Seq(Byte) /\ Len(new) = n
        /\ \A k \in 1..n : new[k] = rbuf[fd][k]
    BY <1>2, <2>1, BufferPrefix
  <2>3. old \in Seq(Byte) /\ Len(old) \in Nat
    BY <1>1, <1>2, LenProperties DEF EchoedType
  <2> QED
    BY <1>1, <1>4, <2>2, <2>3
<1>6. \A k \in 1..Len(old) : old[k][2] \in Int /\ old[k][2] <= nread[c] - len
  <2> TAKE k \in 1..Len(old)
  <2>1. old[k] \in Byte
    BY <1>5, ElementOfSeq
  <2>2. old[k][2] \in Int
    BY <2>1 DEF Byte
  <2> QED
    BY <1>4, <2>2
<1>7. echoed'[c] = old \o new /\ \A x \in Conns : x # c => echoed'[x] = echoed[x]
  BY <1>1, <1>2 DEF EchoedType
<1> HIDE DEF old, new
<1>8. /\ old \o new \in Seq(Byte) /\ Len(old \o new) = Len(old) + n
      /\ \A k \in 1..Len(old) + n :
           (old \o new)[k] = IF k <= Len(old) THEN old[k] ELSE new[k - Len(old)]
  BY <1>5, ConcatProperties
<1>9. \A k \in 1..Len(old) + n :
        \/ k \in 1..Len(old) /\ (old \o new)[k] = old[k]
        \/ /\ k > Len(old) /\ k - Len(old) \in 1..n
           /\ (old \o new)[k] = <<c, nread[c] - len + (k - Len(old))>>
  <2> TAKE k \in 1..Len(old) + n
  <2>1. CASE k <= Len(old)
    BY <1>5, <1>8, <2>1
  <2>2. CASE ~(k <= Len(old))
    <3>1. k - Len(old) \in 1..n /\ (old \o new)[k] = new[k - Len(old)]
      BY <1>5, <1>8, <2>2
    <3> QED
      BY <1>5, <2>2, <3>1
  <2> QED
    BY <2>1, <2>2
<1>10. echoed' \in [Conns -> Seq(Byte)]
  BY <1>1, <1>2, <1>7, <1>8 DEF EchoedType, old, new
<1>11. /\ Len(echoed[c]) \in Nat /\ Len(echoed'[c]) = Len(echoed[c]) + n
       /\ \A k \in 1..Len(echoed[c]) :
            echoed[c][k][2] \in Int /\ echoed[c][k][2] <= nread[c] - op.len
  BY <1>1, <1>5, <1>6, <1>7, <1>8 DEF old
<1>12. Appended(c, op.len, n)
  BY <1>1, <1>7, <1>8, <1>9 DEF old, Appended
<1>13. op.len \in Nat /\ op.len <= nread[c]
  BY <1>1, <1>2, <1>4
<1> QED
  BY <1>1, <1>2, <1>7, <1>10, <1>11, <1>12, <1>13

\* What is sent comes after all that was sent before.
LEMMA DataSend ==
  ASSUME RingInv, DataInv, Running, NEW op \in flight, KernelSend(op)
  PROVE  DataInv'
<1>1. PICK fd \in Fds, c \in Conns, len \in 1..BufferLength :
        fd = op.fd /\ c = op.conn /\ len = op.len
  BY OpOwner DEF KernelSend
<1>2. PICK n \in 0..len :
        /\ CompleteSend(op, n)
        /\ echoed' = [echoed EXCEPT ![c] = @ \o SubSeq(rbuf[fd], 1, n)]
        /\ cut' = IF n < len THEN cut \cup {c} ELSE cut
  BY <1>1 DEF KernelSend
<1>3. /\ op.event = "WRITE"
      /\ UNCHANGED <<sent, nread, backlog, fdtab, done, sq, batchVars, rbuf>>
      /\ fdtab[fd] = c /\ \A g \in OpenFds : g # fd => fdtab[g] # c
  BY <1>1, OpOwner DEF KernelSend, loopVars
<1>4. /\ BufferLength \in Nat /\ RbufType /\ EchoedWasRead /\ EchoOwnBytesInOrder
      /\ EchoedType
  BY FdFacts DEF DataInv
<1>5. PICK res \in -1..BufferLength : Complete(op, res)
  BY <1>1, <1>2, <1>4 DEF CompleteSend
<1>6. Cqe(op, res) \in Cqes
  BY <1>3, CompletedKinds DEF RingInv, UringTypeOK
<1>7. \A g, m : /\ Writing(g, m)' => Writing(g, m) /\ g # fd
                /\ Reported(g, m)' => Reported(g, m) /\ g # fd
  BY <1>1, <1>3, <1>5, <1>6, CompleteMoves
<1> DEFINE old == echoed[c]
           all == echoed'[c]
<1>8. /\ nread[c] \in Nat /\ len \in Nat /\ len <= nread[c]
      /\ Len(old) \in Nat /\ Len(all) = Len(old) + n
      /\ EchoedType' /\ \A x \in Conns : x # c => echoed'[x] = echoed[x]
      /\ \A k \in 1..Len(old) : old[k][2] \in Int /\ old[k][2] <= nread[c] - len
      /\ \A k \in 1..Len(all) :
           \/ k \in 1..Len(old) /\ all[k] = old[k]
           \/ /\ k > Len(old) /\ k - Len(old) \in 1..n
              /\ all[k] = <<c, nread[c] - len + (k - Len(old))>>
  <2>1. n \in 0..op.len /\ echoed' = [echoed EXCEPT ![c] = @ \o SubSeq(rbuf[op.fd], 1, n)]
    BY <1>1, <1>2
  <2>2. /\ nread[c] \in Nat /\ op.len \in Nat /\ op.len <= nread[c]
        /\ Len(old) \in Nat /\ Len(all) = Len(old) + n
        /\ echoed' \in [Conns -> Seq(Byte)]
        /\ \A x \in Conns : x # c => echoed'[x] = echoed[x]
    BY <1>1, <1>3, <2>1, EchoAppends
  <2>3. \A k \in 1..Len(old) : old[k][2] \in Int /\ old[k][2] <= nread[c] - op.len
    BY <1>1, <1>3, <2>1, EchoAppends
  <2>4. Appended(c, len, n)
    BY <1>1, <1>3, <2>1, EchoAppends
  <2>5. \A k \in 1..Len(all) :
          \/ k \in 1..Len(old) /\ all[k] = old[k]
          \/ /\ k > Len(old) /\ k - Len(old) \in 1..n
             /\ all[k] = <<c, nread[c] - len + (k - Len(old))>>
    BY <2>4 DEF Appended
  <2> HIDE DEF old, all
  <2> QED
    BY <1>1, <1>2, <1>4, <2>2, <2>3, <2>5 DEF EchoedType
<1>9. \A k \in 1..Len(old) :
        old[k][1] = c /\ \A j \in 1..(k - 1) : old[j][2] < old[k][2]
  BY <1>4 DEF EchoOwnBytesInOrder
<1> HIDE DEF old, all
<1>10. \A k \in 1..Len(all) :
         /\ all[k][1] = c /\ all[k][2] \in Int /\ all[k][2] <= nread[c]
         /\ \A j \in 1..(k - 1) : all[j][2] < all[k][2]
  <2> SUFFICES ASSUME NEW k \in 1..Len(all)
               PROVE  /\ all[k][1] = c /\ all[k][2] \in Int /\ all[k][2] <= nread[c]
                      /\ \A j \in 1..(k - 1) : all[j][2] < all[k][2]
    OBVIOUS
  <2>1. CASE k \in 1..Len(old) /\ all[k] = old[k]
    <3>1. \A j \in 1..(k - 1) : j \in 1..Len(all) /\ ~(j > Len(old)) /\ all[j] = old[j]
      BY <1>8, <2>1
    <3>2. all[k][1] = c /\ all[k][2] \in Int /\ all[k][2] <= nread[c]
      BY <1>8, <1>9, <2>1
    <3>3. \A j \in 1..(k - 1) : all[j][2] < all[k][2]
      BY <1>9, <2>1, <3>1
    <3> QED
      BY <3>2, <3>3
  <2>2. CASE /\ k > Len(old) /\ k - Len(old) \in 1..n
             /\ all[k] = <<c, nread[c] - len + (k - Len(old))>>
    <3>1. /\ all[k][1] = c /\ all[k][2] = nread[c] - len + (k - Len(old))
          /\ all[k][2] \in Int /\ all[k][2] <= nread[c] /\ all[k][2] > nread[c] - len
      BY <1>8, <2>2
    <3>2. \A j \in 1..(k - 1) : all[j][2] < all[k][2]
      <4> TAKE j \in 1..(k - 1)
      <4>1. j \in 1..Len(all) /\ j < k
        BY <1>8
      <4>2. CASE j \in 1..Len(old) /\ all[j] = old[j]
        <5>1. old[j][2] \in Int /\ old[j][2] <= nread[c] - len
          BY <1>8, <4>2
        <5>2. all[j][2] = old[j][2]
          BY <4>2
        <5>3. nread[c] - len \in Int
          BY <1>8
        <5> QED
          BY <3>1, <5>1, <5>2, <5>3
      <4>3. CASE /\ j > Len(old) /\ j - Len(old) \in 1..n
                 /\ all[j] = <<c, nread[c] - len + (j - Len(old))>>
        <5>1. all[j][2] = nread[c] - len + (j - Len(old))
          BY <4>3
        <5> QED
          BY <1>8, <3>1, <4>1, <5>1
      <4> QED
        BY <1>8, <4>1, <4>2, <4>3
    <3> QED
      BY <3>1, <3>2
  <2> QED
    BY <1>8, <2>1, <2>2
<1>11. EchoedWasRead'
  BY <1>3, <1>4, <1>8, <1>10 DEF EchoedWasRead, all
<1>12. EchoOwnBytesInOrder'
  <2> SUFFICES ASSUME NEW x \in Conns, NEW k \in 1..Len(echoed'[x])
               PROVE  /\ echoed'[x][k][1] = x
                      /\ \A j \in 1..(k - 1) : echoed'[x][j][2] < echoed'[x][k][2]
    BY DEF EchoOwnBytesInOrder
  <2>1. CASE x = c
    BY <1>10, <2>1 DEF all
  <2>2. CASE x # c
    BY <1>4, <1>8, <2>2 DEF EchoOwnBytesInOrder
  <2> QED
    BY <2>1, <2>2
<1>13. BytesHeld'
  <2>1. \A g, m : (Writing(g, m) \/ Reported(g, m)) /\ g # fd => SameData(g)
    <3> TAKE g, m
    <3> HAVE (Writing(g, m) \/ Reported(g, m)) /\ g # fd
    <3>1. g \in OpenFds
      BY InUse
    <3>2. g \in Fds /\ fdtab[g] \in Conns /\ fdtab[g] # c
      BY <1>3, <3>1 DEF OpenFds, RingInv, TcpTypeOK
    <3> QED
      BY <1>2, <1>3, <1>8, <3>2 DEF SameData
  <2>2. \A g, m : Writing(g, m)' \/ Reported(g, m)' => Held(g, m)'
    BY <1>7, <2>1, HeldKept, BytesHeldMeaning DEF DataInv
  <2> QED
    BY <2>2 DEF BytesHeld, Writing, Reported
<1> QED
  BY <1>3, <1>4, <1>8, <1>11, <1>12, <1>13 DEF DataInv, RbufType

LEMMA DataClient ==
  ASSUME RingInv, DataInv, NEW c \in Conns, ClientStep(c)
  PROVE  DataInv'
<1>1. UNCHANGED <<fdtab, nread, rbuf, echoed, cut, sq, flight>> /\ Unhandled' = Unhandled
  BY DEF ClientStep, Client, Connect, ClientSend, ClientRead, ClientFin, ClientRst,
         srvVars, history, uringVars, loopVars, batchVars, Unhandled
<1> QED
  BY <1>1, DataQuiet DEF Writing, Reported

LEMMA DataStep ==
  ASSUME RingInv, DataInv, EchoedWhole, [Next]_vars
  PROVE  DataInv'
<1>1. CASE UNCHANGED vars
  <2>1. UNCHANGED <<fdtab, nread, rbuf, echoed, cut, sq, flight>> /\ Unhandled' = Unhandled
    BY <1>1 DEF vars, tcpVars, srvVars, history, uringVars, loopVars, batchVars, Unhandled
  <2> QED
    BY <2>1, DataQuiet DEF Writing, Reported
<1> QED
  BY <1>1, DataBoot, DataLoop, DataHandleAccept, DataHandleRead, DataHandleWrite,
     DataAccept, DataRecv, DataSend, DataClient
  DEF Next, Run, Kernel

-----------------------------------------------------------------------------
(* Where the conversations stand after each step, and what was echoed. *)

\* init, the loop, and completions that are not of a recv.
LEMMA QuietPhases ==
  ASSUME RingInv, Boot \/ (Loop /\ UNCHANGED srvVars) \/ HandleAccept \/ HandleWrite
  PROVE  \A c \in Conns : Phase(c)' = Phase(c)
<1>1. ASSUME Boot
      PROVE  \A c \in Conns : Phase(c)' = Phase(c)
  <2>1. UNCHANGED <<fdtab, done>>
    BY <1>1 DEF Boot, tcpVars
  <2>2. OpenFds = {}
    BY <1>1 DEF Boot, RingInv, Dormant
  <2> QED
    BY <2>1, <2>2, PhasesStay
<1>2. ASSUME Loop
      PROVE  \A c \in Conns : Phase(c)' = Phase(c)
  BY <1>2, LoopPhase
<1>3. ASSUME HandleAccept
      PROVE  \A c \in Conns : Phase(c)' = Phase(c)
  <2>1. Handling("ACCEPT") /\ cq[i + 1].res \in Fds \cup {BadFd} /\ UNCHANGED <<fdtab, done>>
    BY <1>3, HandledKinds DEF HandleAccept, tcpVars
  <2>2. PICK fd \in Fds \cup {BadFd} : Prepare(AfterAccept(fd)) \/ UNCHANGED sq
    BY <1>3, <2>1 DEF HandleAccept
  <2> DEFINE new == AfterAccept(fd)
             a == Accept
             r == RecvInto(fd)
  <2>3. Prepare(new) \/ UNCHANGED sq
    BY <2>2
  <2>4. a \in Sqes /\ a.event = "ACCEPT" /\ r \in Sqes /\ r.event = "READ"
    BY PreparedKinds DEF Accept, RecvInto, Sqe
  <2>5. new = <<a, r>>
    BY DEF AfterAccept
  <2> HIDE DEF new, a, r
  <2>6. new \in Seq(Sqes) /\ \A k \in 1..Len(new) : new[k].event # "WRITE"
    BY <2>4, <2>5
  <2> QED
    BY <2>1, <2>3, <2>6, HandlingPhase
<1>4. ASSUME HandleWrite
      PROVE  \A c \in Conns : Phase(c)' = Phase(c)
  <2> DEFINE new == AfterWrite(cq[i + 1].fd)
             r == RecvInto(cq[i + 1].fd)
  <2>1. /\ Handling("WRITE") /\ cq[i + 1].fd \in Fds /\ Prepare(new)
        /\ UNCHANGED <<fdtab, done>>
    BY <1>4, HandledKinds DEF HandleWrite, tcpVars
  <2>2. r \in Sqes /\ r.event = "READ"
    BY <2>1, HandledKinds
  <2>3. new = <<r>>
    BY DEF AfterWrite
  <2> HIDE DEF new, r
  <2>4. new \in Seq(Sqes) /\ \A k \in 1..Len(new) : new[k].event # "WRITE"
    BY <2>2, <2>3
  <2> QED
    BY <2>1, <2>4, HandlingPhase
<1> QED
  BY <1>1, <1>2, <1>3, <1>4

\* run leaves a client at end of file, and otherwise has only prepared the
\* answer, if the ring has room for it.
LEMMA ReadPhases ==
  ASSUME RingInv, HandleRead, SqNeverFull'
  PROVE  \/ \A c \in Conns : Phase(c)' = Phase(c)
         \/ \E c \in Conns : MovesOn(c, "listening", "over") /\ done' = done \cup {c}
<1>1. PICK fd, ret : fd = cq[i + 1].fd /\ ret = cq[i + 1].res
  OBVIOUS
<1>2. /\ Handling("READ")
      /\ \/ ret = 0 /\ CloseFd(fd) /\ UNCHANGED sq
         \/ ret > 0 /\ Prepare(<<SendFrom(fd, ret)>>) /\ UNCHANGED <<fdtab, done>>
         \/ ret < 0 /\ UNCHANGED <<fdtab, done, sq>>
  BY <1>1 DEF HandleRead, AtEnd
<1>3. ret \in -1..BufferLength /\ (ret >= 0 => fd \in Fds)
  BY <1>1, <1>2, HandledKinds
<1>4. CASE ret = 0 /\ CloseFd(fd) /\ UNCHANGED sq
  <2>1. fd \in Fds
    BY <1>3, <1>4
  <2> QED
    BY <1>1, <1>2, <1>4, <2>1, ClosePhase
<1>5. CASE ret > 0 /\ Prepare(<<SendFrom(fd, ret)>>) /\ UNCHANGED <<fdtab, done>>
  <2>1. PICK s : s = SendFrom(fd, ret)
    OBVIOUS
  <2>2. fd \in Fds /\ ret \in 1..BufferLength
    BY <1>3, <1>5, FdFacts
  <2>3. s \in Sqes /\ s.event = "WRITE" /\ s.fd = fd
    BY <2>1, <2>2, HandledKinds
  <2>4. pc' # "nosqe"
    BY DEF SqNeverFull
  <2> QED
    BY <1>1, <1>2, <1>5, <2>1, <2>2, <2>3, <2>4, ReadPhase
<1>6. CASE ret < 0 /\ UNCHANGED <<fdtab, done, sq>>
  <2>1. ~(ret > 0)
    BY <1>3, <1>6, FdFacts
  <2>2. <<>> \in Seq(Sqes) /\ \A k \in 1..Len(<<>>) : <<>>[k].event # "WRITE"
    BY EmptySeq
  <2> QED
    BY <1>1, <1>2, <1>6, <2>1, <2>2, HandlingPhase
<1> QED
  BY <1>2, <1>4, <1>5, <1>6

\* accept admits a client, fails, or drops a client unseen.
LEMMA AcceptPhases ==
  ASSUME RingInv, Running, NEW op \in flight, KernelAccept(op)
  PROVE  \/ lost' = lost /\ \A c \in Conns : Phase(c)' = Phase(c)
         \/ lost' = lost /\ \E c \in Conns : MovesOn(c, "waiting", "listening")
         \/ \E c \in Conns : MovesOn(c, "waiting", "over") /\ lost' = lost \cup {c}
<1>1. op.event = "ACCEPT" /\ UNCHANGED <<sq, batchVars>>
  BY DEF KernelAccept
<1>2. ASSUME NEW fd \in Fds, AcceptConn(fd), Complete(op, fd), UNCHANGED done
      PROVE  \E c \in Conns : MovesOn(c, "waiting", "listening")
  BY <1>1, <1>2, AcceptPhase
<1>3. ASSUME Complete(op, -1), UNCHANGED <<fdtab, done>>
      PROVE  \A c \in Conns : Phase(c)' = Phase(c)
  BY <1>1, <1>3, AcceptFailedPhase
<1>4. ASSUME Complete(op, -1), UNCHANGED fdtab, backlog # <<>>,
             lost' = lost \cup {Head(backlog)}, done' = done \cup {Head(backlog)}
      PROVE  \E c \in Conns : MovesOn(c, "waiting", "over") /\ lost' = lost \cup {c}
  <2>1. Head(backlog) \in Conns /\ Head(backlog) = backlog[1] /\ 1 \in 1..Len(backlog)
    BY <1>4, TailElements DEF RingInv, TcpTypeOK
  <2>2. PICK c \in Conns : c = Head(backlog) /\ c = backlog[1]
    BY <2>1
  <2>3. c \notin done /\ FdsOf(c) = {}
    BY <2>1, <2>2 DEF RingInv, Ownership, FdsOf
  <2>4. Phase(c) = "waiting" /\ Phase(c)' = "over"
    BY <1>4, <2>2, <2>3 DEF Phase
  <2>5. \A d \in Conns : d # c => Phase(d)' = Phase(d)
    BY <1>1, <1>4, <2>2, AcceptFailedPhase
  <2> QED
    BY <1>4, <2>2, <2>4, <2>5 DEF MovesOn
<1>5. CASE CompleteAccept(op) /\ UNCHANGED <<done, lost>>
  BY <1>2, <1>3, <1>5 DEF CompleteAccept
<1> QED
  BY <1>3, <1>4, <1>5 DEF KernelAccept

\* A client moves no conversation.
LEMMA ClientPhases ==
  ASSUME RingInv, NEW c \in Conns, ClientStep(c)
  PROVE  \A d \in Conns : Phase(d)' = Phase(d)
<1>1. Client(c) /\ UNCHANGED <<sq, flight>> /\ Unhandled' = Unhandled
  BY DEF ClientStep, uringVars, loopVars, batchVars, Unhandled
<1>2. UNCHANGED <<fdtab, done>>
  BY <1>1, ClientBreaks
<1> QED
  BY <1>1, <1>2, StillPhase

LEMMA WholeKept ==
  ASSUME EchoedWhole, SqNeverFull, UNCHANGED <<nread, echoed, cut>>,
         \A c \in Conns : Phase(c)' # "answering" => Phase(c) # "answering"
  PROVE  EchoedWhole'
BY DEF EchoedWhole

\* A recv leaves an answer owing, a send owes nothing more or has cut it, and
\* nothing else touches what was read and what was echoed.
LEMMA WholeStep ==
  ASSUME RingInv, DataInv, EchoedWhole, [Next]_vars
  PROVE  EchoedWhole'
<1>1. CASE UNCHANGED vars
  <2>1. UNCHANGED <<fdtab, done, nread, echoed, cut, sq, flight, pc>> /\ Unhandled' = Unhandled
    BY <1>1 DEF vars, tcpVars, srvVars, history, uringVars, loopVars, batchVars, Unhandled
  <2>2. \A c \in Conns : Phase(c)' = Phase(c)
    BY <2>1, StillPhase
  <2> QED
    BY <2>1, <2>2 DEF EchoedWhole, SqNeverFull
<1> SUFFICES ASSUME Next, SqNeverFull'
             PROVE  EchoedWhole'
  BY <1>1 DEF EchoedWhole
<1>2. SqNeverFull
  BY HandlingEffect
  DEF Next, Run, Boot, Loop, Submit, Submitted, Peek, Advance, HandleAccept, HandleRead,
      HandleWrite, Kernel, ClientStep, Handling, Running, SqNeverFull
<1>3. CASE Boot \/ (Loop /\ UNCHANGED srvVars) \/ HandleAccept \/ HandleWrite
  <2>1. UNCHANGED <<nread, echoed, cut>>
    BY <1>3 DEF Boot, Loop, Submit, Submitted, Peek, Advance, HandleAccept, HandleWrite,
                tcpVars, srvVars, history
  <2> QED
    BY <1>2, <1>3, <2>1, QuietPhases, WholeKept
<1>4. CASE HandleRead
  <2>1. UNCHANGED <<nread, echoed, cut>>
    BY <1>4 DEF HandleRead, history
  <2>2. \A c \in Conns : Phase(c)' # "answering" => Phase(c) # "answering"
    BY <1>4, ReadPhases DEF MovesOn
  <2> QED
    BY <1>2, <2>1, <2>2, WholeKept
<1>5. ASSUME NEW op \in flight, Running, KernelAccept(op)
      PROVE  EchoedWhole'
  <2>1. UNCHANGED <<nread, echoed, cut>>
    BY <1>5 DEF KernelAccept
  <2>2. \A c \in Conns : Phase(c)' # "answering" => Phase(c) # "answering"
    BY <1>5, AcceptPhases DEF MovesOn
  <2> QED
    BY <1>2, <2>1, <2>2, WholeKept
<1>6. ASSUME NEW op \in flight, Running, KernelRecv(op)
      PROVE  EchoedWhole'
  <2>1. PICK c \in Conns, cnt \in -1..BufferLength :
          c = op.conn /\ Recv(c, BufferLength, cnt) /\ Complete(op, cnt)
    BY <1>6, OpOwner DEF KernelRecv, CompleteRecv
  <2>2. op.event = "READ" /\ UNCHANGED <<fdtab, done, sq, batchVars, echoed, cut>>
    BY <1>6 DEF KernelRecv, loopVars, history
  <2>3. CASE cnt > 0
    <3>1. MovesOn(c, "listening", "answering")
      BY <1>6, <2>1, <2>2, <2>3, TransferPhase
    <3>2. \A d \in Conns : d # c => nread'[d] = nread[d]
      <4>1. nread' = [nread EXCEPT ![c] = nread'[c]]
        BY <2>1, <2>3, RecvCount
      <4>2. nread \in [Conns -> 0..MaxSend]
        BY DEF RingInv, TcpTypeOK
      <4>3. \A d \in Conns : d # c => [nread EXCEPT ![c] = nread'[c]][d] = nread[d]
        BY <4>2
      <4> QED
        BY <4>1, <4>3
    <3> QED
      BY <1>2, <2>2, <3>1, <3>2 DEF EchoedWhole, MovesOn
  <2>4. CASE ~(cnt > 0)
    <3>1. \A d \in Conns : Phase(d)' = Phase(d)
      BY <1>6, <2>1, <2>2, <2>4, TransferPhase
    <3>2. nread' = nread
      BY <2>1, <2>4, RecvCount
    <3> QED
      BY <1>2, <2>2, <3>1, <3>2, WholeKept
  <2> QED
    BY <2>3, <2>4
<1>7. ASSUME NEW op \in flight, Running, KernelSend(op)
      PROVE  EchoedWhole'
  <2>1. PICK c \in Conns, fd \in Fds, len \in 1..BufferLength :
           c = op.conn /\ fd = op.fd /\ len = op.len /\ fdtab[fd] = c
    BY <1>7, OpOwner DEF KernelSend
  <2>2. PICK n \in 0..len :
          /\ CompleteSend(op, n)
          /\ echoed' = [echoed EXCEPT ![c] = @ \o SubSeq(rbuf[op.fd], 1, n)]
          /\ cut' = IF n < len THEN cut \cup {c} ELSE cut
    BY <1>7, <2>1 DEF KernelSend
  <2>3. op.event = "WRITE" /\ UNCHANGED <<nread, fdtab, done, sq, batchVars>>
    BY <1>7 DEF KernelSend, loopVars
  <2>4. BufferLength \in Nat
    BY FdFacts
  <2>5. PICK res \in -1..BufferLength : Complete(op, res)
    BY <2>1, <2>2, <2>4 DEF CompleteSend
  <2>6. MovesOn(c, "answering", "listening")
    BY <1>7, <2>1, <2>2, <2>3, <2>5, TransferPhase
  <2>7. /\ nread[c] \in Nat /\ Len(echoed[c]) \in Nat
        /\ Len(echoed'[c]) = Len(echoed[c]) + n
        /\ \A d \in Conns : d # c => echoed'[d] = echoed[d]
    BY <2>1, <2>2, <2>3, EchoAppends
  <2>8. c \notin cut' => Len(echoed'[c]) = nread[c]
    <3>1. Held(fd, len)
      BY <1>7, <2>1, <2>2, <2>3, BytesHeldMeaning DEF DataInv, Writing
    <3>2. c \notin cut => Len(echoed[c]) = nread[c] - len
      BY <2>1, <2>2, <3>1 DEF Held
    <3> QED
      BY <2>1, <2>2, <2>4, <2>7, <3>2
  <2> QED
    BY <1>2, <2>1, <2>2, <2>3, <2>6, <2>7, <2>8 DEF EchoedWhole, MovesOn
<1>8. ASSUME NEW c \in Conns, ClientStep(c)
      PROVE  EchoedWhole'
  <2>1. Client(c) /\ UNCHANGED <<echoed, cut>>
    BY <1>8 DEF ClientStep, srvVars, history
  <2>2. UNCHANGED nread
    BY <2>1, ClientBreaks
  <2> QED
    BY <1>2, <1>8, <2>1, <2>2, ClientPhases, WholeKept
<1> QED
  BY <1>3, <1>4, <1>5, <1>6, <1>7, <1>8 DEF Next, Run, Kernel

-----------------------------------------------------------------------------
(* The invariant. *)

\* A submission stops at an entry that has completed: something is there to
\* wake run when entries are left over.
LEMMA StrandedStep ==
  ASSUME RingInv, NoStrandedSubmission, [Next]_vars
  PROVE  NoStrandedSubmission'
<1> USE DEF NoStrandedSubmission
<1>1. cq \in Seq(Cqes) /\ \A e \in Cqes : Append(cq, e) # <<>>
  <2>1. cq \in Seq(Cqes)
    BY DEF RingInv, UringTypeOK
  <2>2. ASSUME NEW e \in Cqes
        PROVE  Append(cq, e) # <<>>
    BY <2>1, AppendProperties
  <2> QED
    BY <2>1, <2>2
<1>2. CASE Boot
  BY <1>2 DEF Boot
<1>3. CASE Loop
  <2>1. CASE Submit /\ pc' = "wait"
    <3>1. TakeEntry /\ MayStop /\ sq \in Seq(Sqes) /\ sq # <<>>
      BY <2>1, CountsTyped DEF Submit, TakeEntry
    <3>2. Head(sq) \in Sqes /\ Head(sq).fd = BadFd
      BY <3>1, TakeEffect DEF MayStop
    <3>3. cq' = Append(cq, Cqe(Op(Head(sq)), -1))
      BY <3>1, <3>2, FdFacts DEF TakeEntry, Op
    <3>4. Cqe(Op(Head(sq)), -1) =
            [event |-> Head(sq).event, fd |-> BadFd, conn |-> NoConn, res |-> -1]
      BY <3>2, FdFacts DEF Op, Cqe
    <3>5. Head(sq).event \in {"ACCEPT", "READ"}
      BY <3>2, SqeKinds, FdFacts
    <3>6. Cqe(Op(Head(sq)), -1) \in Cqes
      BY <3>4, <3>5 DEF Cqes, AcceptCqes, BadRecvCqes
    <3> QED
      BY <1>1, <3>3, <3>6
  <2>2. CASE Submit /\ pc' # "wait"
    BY <2>2
  <2>3. CASE Submitted
    BY <2>3 DEF Submitted, uringVars
  <2>4. CASE Peek \/ Advance
    BY <2>4 DEF Peek, Advance
  <2> QED
    BY <1>3, <2>1, <2>2, <2>3, <2>4 DEF Loop
<1>4. ASSUME NEW event, Handling(event)
      PROVE  pc = "handle"
  BY <1>4 DEF Handling
<1>5. CASE HandleAccept \/ HandleRead \/ HandleWrite
  BY <1>4, <1>5 DEF HandleAccept, HandleRead, HandleWrite, Prepare
<1>6. ASSUME NEW op \in flight, KernelAccept(op) \/ KernelRecv(op) \/ KernelSend(op)
      PROVE  NoStrandedSubmission'
  <2>1. op \in Ops /\ BufferLength \in Nat
    BY FdFacts DEF RingInv, UringTypeOK
  <2>2. \E res : Complete(op, res) /\ Cqe(op, res) \in Cqes
    <3>1. CASE KernelAccept(op)
      BY <2>1, <3>1, CompletedKinds DEF KernelAccept, CompleteAccept
    <3>2. CASE KernelRecv(op)
      BY <2>1, <3>2, CompletedKinds DEF KernelRecv, CompleteRecv
    <3>3. CASE KernelSend(op)
      <4>1. op.event = "WRITE" /\ op.len \in 1..BufferLength
        BY <2>1, <3>3, OpKinds DEF KernelSend
      <4>2. PICK n \in 0..op.len : CompleteSend(op, n)
        BY <3>3 DEF KernelSend
      <4>3. n \in -1..BufferLength /\ -1 \in -1..BufferLength
        BY <2>1, <4>1
      <4> QED
        BY <2>1, <4>1, <4>2, <4>3, CompletedKinds DEF CompleteSend
    <3> QED
      BY <1>6, <3>1, <3>2, <3>3
  <2> QED
    BY <1>1, <2>2 DEF Complete
<1>7. ASSUME NEW c \in Conns, ClientStep(c)
      PROVE  NoStrandedSubmission'
  BY <1>7 DEF ClientStep, uringVars, loopVars
<1>8. CASE UNCHANGED vars
  BY <1>8 DEF vars, uringVars, loopVars
<1> QED
  BY <1>2, <1>3, <1>5, <1>6, <1>7, <1>8 DEF Next, Run, Kernel

SmallTypes == listening \in BOOLEAN /\ dangling \in BOOLEAN /\ lost \subseteq done

LEMMA SmallStep ==
  ASSUME SmallTypes, [Next]_vars
  PROVE  SmallTypes'
<1> USE DEF SmallTypes
<1>1. CASE Boot
  BY <1>1 DEF Boot, InitSocket, tcpVars, history
<1>2. CASE Loop /\ UNCHANGED srvVars
  BY <1>2 DEF Loop, Submit, Submitted, Peek, Advance, tcpVars, srvVars, history
<1>3. CASE HandleAccept \/ HandleWrite
  BY <1>3 DEF HandleAccept, HandleWrite, tcpVars, srvVars, history
<1>4. CASE HandleRead
  BY <1>4 DEF HandleRead, CloseFd, history
<1>5. ASSUME NEW op \in flight, KernelAccept(op) \/ KernelRecv(op) \/ KernelSend(op)
      PROVE  SmallTypes'
  BY <1>5 DEF KernelAccept, KernelRecv, KernelSend, history
<1>6. ASSUME NEW c \in Conns, ClientStep(c)
      PROVE  SmallTypes'
  BY <1>6 DEF ClientStep, Client, Connect, ClientSend, ClientRead, ClientFin, ClientRst,
              srvVars, history
<1>7. CASE UNCHANGED vars
  BY <1>7 DEF vars, tcpVars, srvVars, history
<1> QED
  BY <1>1, <1>2, <1>3, <1>4, <1>5, <1>6, <1>7 DEF Next, Run, Kernel

LEMMA InvariantParts ==
  IInv <=> RingInv /\ NoStrandedSubmission /\ DataInv /\ SmallTypes /\ EchoedWhole
BY DEF IInv, TypeOK, RingInv, DataInv, RbufType, EchoedType, SmallTypes

LEMMA InitIInv ==
  ASSUME Init
  PROVE  IInv
<1>1. RingInv
  BY InitInv DEF Init
<1>2. NoStrandedSubmission /\ SmallTypes
  BY DEF Init, LoopInit, NoStrandedSubmission, SmallTypes
<1>3. DataInv
  <2>1. RbufType
    BY ByteFacts DEF Init, RbufType
  <2>2. echoed = [c \in Conns |-> <<>>] /\ <<>> \in Seq(Byte) /\ Len(<<>>) = 0
    BY EmptySeq DEF Init
  <2>3. EchoedType /\ EchoedWasRead /\ EchoOwnBytesInOrder
    BY <2>2 DEF Init, EchoedType, EchoedWasRead, EchoOwnBytesInOrder
  <2>4. sq = <<>> /\ flight = {} /\ cq = <<>> /\ i = 0
    BY DEF Init, UringInit, LoopInit
  <2>5. Len(sq) = 0 /\ Len(Unhandled) = 0
    <3>1. Len(Unhandled) = Len(cq) - i
      BY <1>1, UnhandledElements
    <3> QED
      BY <2>4, <3>1, EmptySeq
  <2>6. BytesHeld
    BY <2>4, <2>5 DEF BytesHeld
  <2> QED
    BY <2>1, <2>3, <2>6 DEF DataInv
<1>4. EchoedWhole
  <2>1. \A c \in Conns : Len(echoed[c]) = 0 /\ nread[c] = 0
    BY EmptySeq DEF Init, TcpInit
  <2> QED
    BY <2>1 DEF EchoedWhole
<1> QED
  BY <1>1, <1>2, <1>3, <1>4, InvariantParts

LEMMA StepIInv ==
  ASSUME IInv, [Next]_vars
  PROVE  IInv'
<1>1. RingInv' /\ NoStrandedSubmission' /\ DataInv' /\ SmallTypes' /\ EchoedWhole'
  BY InvariantParts, RingStep, StrandedStep, DataStep, SmallStep, WholeStep
<1> QED
  BY <1>1 DEF IInv, TypeOK, RingInv, DataInv, RbufType, EchoedType, SmallTypes

-----------------------------------------------------------------------------
(* The theorems. *)

\* One operation carries every open descriptor on and nobody else touches
\* what it has read, whatever the kernel completes first.
THEOREM Invariance == Spec => []IInv
<1>1. Init => IInv
  BY InitIInv
<1>2. IInv /\ [Next]_vars => IInv'
  BY StepIInv
<1> QED
  BY <1>1, <1>2, PTL DEF Spec

\* Every variable keeps its type.
THEOREM TypeCorrect == Spec => []TypeOK
BY Invariance, PTL DEF IInv

\* run always has an accept under way.
THEOREM AlwaysAnAccept == Spec => []AcceptArmed
<1>1. IInv => AcceptArmed
  BY DEF IInv, RingInv
<1> QED
  BY <1>1, Invariance, PTL

\* No two operations ever use a descriptor's buffer.
THEOREM OneChain == Spec => []OneChainPerDescriptor
<1>1. IInv => OneChainPerDescriptor
  BY DEF IInv, RingInv
<1> QED
  BY <1>1, Invariance, PTL

\* A descriptor that is handed out again is never confused with the one
\* before.
THEOREM NoStaleCompletion == Spec => []CompletionsFresh
<1>1. IInv => CompletionsFresh
  BY DEF IInv, RingInv
<1> QED
  BY <1>1, Invariance, PTL

\* run does not wait while what it prepared is left behind.
THEOREM NothingStranded == Spec => []NoStrandedSubmission
<1>1. IInv => NoStrandedSubmission
  BY DEF IInv
<1> QED
  BY <1>1, Invariance, PTL

\* Clients get back their own bytes, in order and once.
THEOREM OwnBytesInOrder == Spec => []EchoOwnBytesInOrder
<1>1. IInv => EchoOwnBytesInOrder
  BY DEF IInv
<1> QED
  BY <1>1, Invariance, PTL

\* A connection is closed when nothing more can come from it, and when its
\* client has got back all that was read, unless a send was cut short.
THEOREM ClosesAtEnd == Spec => CloseOnlyAtEnd
<1> DEFINE AtTheEnd == \A c \in (done' \ done) \ lost' :
                         /\ peer[c] \in {"fin", "finrst", "dead"} /\ Avail(c) = 0
                         /\ c \notin cut => Len(echoed[c]) = nread[c]
<1>1. ASSUME IInv, [Next]_vars
      PROVE  [AtTheEnd]_vars
  <2>1. CASE HandleRead
    <3>1. PICK fd, ret : fd = cq[i + 1].fd /\ ret = cq[i + 1].res
      OBVIOUS
    <3>2. /\ RingInv /\ Handling("READ")
          /\ (ret = 0 /\ CloseFd(fd) /\ UNCHANGED sq) \/ UNCHANGED done
      BY <1>1, <2>1, <3>1 DEF HandleRead, AtEnd, IInv
    <3>3. CASE ret = 0 /\ CloseFd(fd) /\ UNCHANGED sq
      <4>1. /\ fd \in Fds /\ Unhandled[1].fd = fd /\ Unhandled[1].res = 0
            /\ Unhandled[1].event = "READ" /\ 1 \in 1..Len(Unhandled)
        <5>1. fd \in Fds
          BY <3>1, <3>2, <3>3, HandledKinds
        <5>2. /\ cq[i + 1] = Unhandled[1] /\ cq[i + 1].event = "READ"
              /\ 1 \in 1..Len(Unhandled)
          BY <3>2, HandlingEffect
        <5> QED
          BY <3>1, <3>3, <5>1, <5>2
      <4>2. peer[fdtab[fd]] \in {"fin", "finrst", "dead"} /\ Avail(fdtab[fd]) = 0
        BY <3>2, <4>1 DEF RingInv, EndsStand, CompletionsFresh
      <4>3. PICK c \in Conns : MovesOn(c, "listening", "over") /\ done' = done \cup {c}
        BY <3>1, <3>2, <3>3, <4>1, ClosePhase
      <4>4. c \notin cut => Len(echoed[c]) = nread[c]
        <5>1. SqNeverFull /\ EchoedWhole
          BY <1>1, <3>2 DEF IInv, Handling, SqNeverFull
        <5> QED
          BY <4>3, <5>1 DEF MovesOn, EchoedWhole
      <4>5. c \notin done
        BY <4>3 DEF MovesOn, Phase
      <4> QED
        BY <3>3, <4>2, <4>3, <4>4, <4>5 DEF CloseFd
    <3> QED
      BY <3>2, <3>3
  <2>2. ASSUME NEW op \in flight, KernelAccept(op)
        PROVE  AtTheEnd
    BY <2>2 DEF KernelAccept
  <2>3. CASE done' = done
    BY <2>3
  <2>4. CASE \/ Boot \/ Loop \/ HandleAccept \/ HandleWrite
             \/ \E op \in flight : KernelRecv(op) \/ KernelSend(op)
             \/ \E c \in Conns : ClientStep(c)
    <3>1. done' = done
      BY <2>4 DEF Boot, Loop, Submit, Submitted, Peek, Advance, HandleAccept, HandleWrite,
         KernelRecv, KernelSend, ClientStep, Client, Connect, ClientSend, ClientRead,
         ClientFin, ClientRst, tcpVars
    <3> QED
      BY <2>3, <3>1
  <2> QED
    BY <1>1, <2>1, <2>2, <2>4 DEF Next, Run, Kernel
<1>2. IInv /\ [Next]_vars => [AtTheEnd]_vars
  BY <1>1
<1> QED
  BY Invariance, <1>2, PTL DEF CloseOnlyAtEnd, Spec

LEMMA CqStep ==
  ASSUME RingInv, RingInv', CqInv, [Next]_vars
  PROVE  CqInv'
<1>1. CASE Boot
  <2>1. pc = "boot" /\ UNCHANGED <<flight, cq, batchVars>>
    BY <1>1 DEF Boot
  <2>2. CASE sq' = <<Accept>>
    BY <2>1, <2>2, CqInvBoot, FdFacts DEF Accept, Sqe, AcceptSqes
  <2>3. CASE pc' = "crashed"
    BY <2>1, <2>3, CqInvOver DEF Running
  <2> QED
    BY <1>1, <2>2, <2>3 DEF Boot
<1>2. CASE Loop
  BY <1>2, CqInvLoop
<1>3. CASE HandleAccept
  <2>1. /\ Handling("ACCEPT") /\ BadFd \in Fds \cup {BadFd}
        /\ UNCHANGED <<flight, cq>>
    BY <1>3 DEF HandleAccept, Handling
  <2>2. CASE \E fd \in Fds \cup {BadFd} : Prepare(AfterAccept(fd))
    <3>1. PICK fd \in Fds \cup {BadFd} : Prepare(<<Accept, RecvInto(fd)>>)
      BY <2>2 DEF AfterAccept
    <3>2. /\ Accept \in AcceptSqes
          /\ RecvInto(fd) \in Sqes /\ RecvInto(fd).event # "ACCEPT"
      BY <3>1, PreparedKinds DEF Accept, AcceptSqes, RecvInto, Sqe
    <3> QED
      BY <2>1, <3>1, <3>2, CqInvAccept
  <2>3. CASE pc' = "crashed"
    BY <2>1, <2>3, CqInvOver DEF Running
  <2> QED
    BY <1>3, <2>1, <2>2, <2>3 DEF HandleAccept
<1>4. CASE HandleRead
  <2>1. PICK fd, ret : fd = cq[i + 1].fd /\ ret = cq[i + 1].res
    OBVIOUS
  <2>2. /\ Handling("READ")
        /\ \/ UNCHANGED sq
           \/ ret > 0 /\ Prepare(<<SendFrom(fd, ret)>>)
    BY <1>4, <2>1 DEF HandleRead, AtEnd
  <2>3. CASE UNCHANGED sq
    BY <2>2, <2>3, CqInvTransfer
  <2>4. CASE ret > 0 /\ Prepare(<<SendFrom(fd, ret)>>)
    <3>1. fd \in Fds /\ ret \in 1..BufferLength
      BY <2>1, <2>2, <2>4, HandledKinds, FdFacts
    <3>2. /\ SendFrom(fd, ret) \in Sqes /\ SendFrom(fd, ret).event # "ACCEPT"
          /\ SendFrom(fd, ret).fd # BadFd
      BY <3>1, HandledKinds, FdFacts
    <3> QED
      BY <2>2, <2>4, <3>2, CqInvTransfer
  <2> QED
    BY <2>2, <2>3, <2>4
<1>5. CASE HandleWrite
  <2>1. Handling("WRITE") /\ Prepare(<<RecvInto(cq[i + 1].fd)>>)
    BY <1>5 DEF HandleWrite, AfterWrite
  <2>2. /\ cq[i + 1].fd \in Fds /\ RecvInto(cq[i + 1].fd) \in Sqes
        /\ RecvInto(cq[i + 1].fd).event # "ACCEPT"
        /\ RecvInto(cq[i + 1].fd).fd = cq[i + 1].fd
    BY <2>1, HandledKinds
  <2>3. RecvInto(cq[i + 1].fd).fd # BadFd
    BY <2>2, FdFacts
  <2> QED
    BY <2>1, <2>2, <2>3, CqInvTransfer
<1>6. ASSUME NEW op \in flight, Running, KernelAccept(op) \/ KernelRecv(op) \/ KernelSend(op)
      PROVE  CqInv'
  <2>1. UNCHANGED <<sq, batchVars>> /\ op \in Ops
    BY <1>6 DEF KernelAccept, KernelRecv, KernelSend, loopVars, RingInv, UringTypeOK
  <2>2. \E res : Cqe(op, res) \in Cqes /\ Complete(op, res)
    <3>1. CASE KernelAccept(op)
      <4>1. op.event = "ACCEPT" /\ \E res \in Fds \cup {-1} : Complete(op, res)
        BY <3>1 DEF KernelAccept, CompleteAccept
      <4> QED
        BY <2>1, <4>1, CompletedKinds
    <3>2. CASE KernelRecv(op)
      <4>1. op.event = "READ" /\ \E res \in -1..BufferLength : Complete(op, res)
        BY <3>2 DEF KernelRecv, CompleteRecv
      <4> QED
        BY <2>1, <4>1, CompletedKinds
    <3>3. CASE KernelSend(op)
      <4>1. op.event = "WRITE" /\ op.len \in 1..BufferLength
        BY <2>1, <3>3, OpKinds DEF KernelSend
      <4>2. \E res \in {-1} \cup 0..op.len : Complete(op, res)
        BY <3>3 DEF KernelSend, CompleteSend
      <4>3. \A res \in {-1} \cup 0..op.len : res \in -1..BufferLength
        BY <4>1, FdFacts
      <4> QED
        BY <2>1, <4>1, <4>2, <4>3, CompletedKinds
    <3> QED
      BY <1>6, <3>1, <3>2, <3>3
  <2> QED
    BY <1>6, <2>1, <2>2, CqInvComplete
<1>7. ASSUME NEW c \in Conns, ClientStep(c)
      PROVE  CqInv'
  <2>1. Running /\ UNCHANGED <<uringVars, i>>
    BY <1>7 DEF ClientStep, loopVars, batchVars
  <2> QED
    BY <2>1, CqInvFrame
<1>8. CASE UNCHANGED vars
  <2>1. UNCHANGED <<uringVars, i, pc>>
    BY <1>8 DEF vars, loopVars, batchVars
  <2> QED
    BY <2>1, CqInvFrame, CqInvOver DEF Running, uringVars
<1> QED
  BY <1>1, <1>2, <1>3, <1>4, <1>5, <1>6, <1>7, <1>8 DEF Next, Run, Kernel

\* The completion ring never runs full if it takes three more completions than
\* there are descriptors, whatever the size of a batch: 2048 in the code.
THEOREM CqHasRoom == Spec => []CqNeverFull
<1>1. Init => CqInv
  BY CqInvInit DEF Init
<1>2. IInv /\ IInv' /\ CqInv /\ [Next]_vars => CqInv'
  BY CqStep DEF IInv
<1>3. IInv /\ CqInv => CqNeverFull
  BY CqInvBounds DEF IInv
<1> QED
  BY <1>1, <1>2, <1>3, Invariance, PTL DEF Spec

LEMMA RoomStep ==
  ASSUME RingInv, RoomInv, SqNeverFull, Roomy, [Next]_vars
  PROVE  RoomInv' /\ SqNeverFull'
<1>1. CASE Boot
  BY <1>1, RoomBoot DEF Boot, Accept, SqNeverFull
<1>2. CASE Loop
  BY <1>2, RoomLoop DEF Loop, Submit, Submitted, Peek, Advance, SqNeverFull
<1>3. CASE HandleAccept
  <2>1. Handling("ACCEPT") /\ cq[i + 1].res \in Fds \cup {BadFd} /\ BadFd \in Fds \cup {BadFd}
    BY <1>3, HandledKinds DEF HandleAccept
  <2>2. CASE \E fd \in Fds \cup {BadFd} : Prepare(AfterAccept(fd))
    <3>1. PICK fd \in Fds \cup {BadFd} :
            Prepare(<<Sqe("ACCEPT", ListenFd, 0), Sqe("READ", fd, BufferLength)>>)
      BY <2>2 DEF AfterAccept, Accept, RecvInto
    <3> QED
      BY <2>1, <3>1, RoomAccept DEF SqNeverFull
  <2>3. CASE pc' = "crashed" /\ UNCHANGED sq
    BY <2>1, <2>3, RoomNothing DEF SqNeverFull
  <2> QED
    BY <1>3, <2>1, <2>2, <2>3 DEF HandleAccept
<1>4. CASE HandleRead
  <2>1. PICK fd, ret : fd = cq[i + 1].fd /\ ret = cq[i + 1].res
    OBVIOUS
  <2>2. /\ Handling("READ")
        /\ \/ UNCHANGED <<pc, sq>>
           \/ ret > 0 /\ Prepare(<<SendFrom(fd, ret)>>)
    BY <1>4, <2>1 DEF HandleRead, AtEnd
  <2>3. CASE UNCHANGED <<pc, sq>>
    BY <2>2, <2>3, RoomNothing DEF SqNeverFull
  <2>4. CASE ret > 0 /\ Prepare(<<SendFrom(fd, ret)>>)
    <3>1. fd \in Fds /\ ret \in 1..BufferLength
      BY <2>1, <2>2, <2>4, HandledKinds, FdFacts
    <3>2. /\ SendFrom(fd, ret) \in Sqes /\ SendFrom(fd, ret).event # "ACCEPT"
          /\ SendFrom(fd, ret).fd \in Fds
      BY <3>1, HandledKinds
    <3> QED
      BY <2>2, <2>4, <3>2, RoomTransfer DEF SqNeverFull
  <2> QED
    BY <2>2, <2>3, <2>4
<1>5. CASE HandleWrite
  <2>1. Handling("WRITE") /\ Prepare(<<RecvInto(cq[i + 1].fd)>>)
    BY <1>5 DEF HandleWrite, AfterWrite
  <2>2. /\ RecvInto(cq[i + 1].fd) \in Sqes /\ RecvInto(cq[i + 1].fd).event # "ACCEPT"
        /\ RecvInto(cq[i + 1].fd).fd \in Fds
    BY <2>1, HandledKinds
  <2> QED
    BY <2>1, <2>2, RoomTransfer DEF SqNeverFull
<1>6. ASSUME NEW op \in flight, KernelAccept(op) \/ KernelRecv(op) \/ KernelSend(op)
      PROVE  RoomInv' /\ SqNeverFull'
  <2>1. UNCHANGED <<sq, nready, i>> /\ pc' \in {pc, "crashed"}
    BY <1>6 DEF KernelAccept, KernelRecv, KernelSend, loopVars, batchVars
  <2> QED
    BY <2>1, RoomFrame DEF SqNeverFull
<1>7. ASSUME UNCHANGED vars \/ \E c \in Conns : ClientStep(c)
      PROVE  RoomInv' /\ SqNeverFull'
  <2>1. UNCHANGED <<sq, nready, i, pc>>
    BY <1>7 DEF vars, ClientStep, uringVars, loopVars, batchVars
  <2> QED
    BY <2>1, RoomFrame DEF SqNeverFull
<1> QED
  BY <1>1, <1>2, <1>3, <1>4, <1>5, <1>6, <1>7 DEF Next, Run, Kernel

\* The submission ring never runs full if it takes two batches, as the code's
\* does: 1024 entries, of which a round uses less than 257.
LEMMA SqHasRoom ==
  ASSUME SqEntries >= 2 * CqBatch
  PROVE  Spec => []SqNeverFull
<1>1. Roomy
  BY DEF Roomy
<1>2. Init => RoomInv /\ SqNeverFull
  BY RoomInit DEF Init, LoopInit, SqNeverFull
<1>3. IInv /\ RoomInv /\ SqNeverFull /\ [Next]_vars => RoomInv' /\ SqNeverFull'
  BY <1>1, RoomStep DEF IInv
<1> QED
  BY <1>2, <1>3, Invariance, PTL DEF Spec

\* Neither ring ever runs full.
THEOREM RingsHaveRoom ==
  ASSUME SqEntries >= 2 * CqBatch
  PROVE  Spec => []RingsNeverFull
<1>1. Spec => []SqNeverFull
  BY SqHasRoom
<1>2. SqNeverFull /\ CqNeverFull => RingsNeverFull
  BY DEF RingsNeverFull
<1> QED
  BY <1>1, <1>2, CqHasRoom, PTL

-----------------------------------------------------------------------------
(* How much was sent. *)

\* The numbers of the bytes sent grow, so no more were sent than the last says.
Counted == \A c \in Conns : \A k \in 1..Len(echoed[c]) : k <= echoed[c][k][2]

\* What is being sent is longer than all that was sent before.
LEMMA SendCounts ==
  ASSUME RingInv, DataInv, Counted, NEW op \in flight, op.event = "WRITE",
         NEW n \in 0..op.len, NEW c, c = op.conn,
         echoed' = [echoed EXCEPT ![c] = @ \o SubSeq(rbuf[op.fd], 1, n)]
  PROVE  /\ Len(echoed[c]) + op.len <= nread[c]
         /\ \A k \in 1..Len(echoed'[c]) : k <= echoed'[c][k][2]
<1> DEFINE old == echoed[c]
           all == echoed'[c]
<1>1. PICK len : len = op.len
  OBVIOUS
<1>2. /\ c \in Conns /\ nread[c] \in Nat /\ len \in Nat /\ len <= nread[c]
      /\ Len(old) \in Nat
      /\ \A k \in 1..Len(old) : old[k][2] \in Int /\ old[k][2] <= nread[c] - len
  BY <1>1, EchoAppends
<1>3. \A k \in 1..Len(all) :
        \/ k \in 1..Len(old) /\ all[k] = old[k]
        \/ /\ k > Len(old) /\ k - Len(old) \in 1..n
           /\ all[k] = <<c, nread[c] - len + (k - Len(old))>>
  <2>1. Appended(c, len, n)
    BY <1>1, EchoAppends
  <2> QED
    BY <2>1 DEF Appended
<1>4. \A k \in 1..Len(old) : k <= old[k][2]
  BY <1>2 DEF Counted
<1> HIDE DEF old, all
<1>5. Len(old) + len <= nread[c]
  <2>1. CASE Len(old) = 0
    BY <1>2, <2>1
  <2>2. CASE Len(old) # 0
    <3>1. Len(old) \in 1..Len(old)
      BY <1>2, <2>2
    <3>2. /\ old[Len(old)][2] \in Int /\ old[Len(old)][2] <= nread[c] - len
          /\ Len(old) <= old[Len(old)][2]
      BY <1>2, <1>4, <3>1
    <3> QED
      BY <1>2, <3>2
  <2> QED
    BY <2>1, <2>2
<1>6. ASSUME NEW k \in 1..Len(all)
      PROVE  k <= all[k][2]
  <2>1. CASE k \in 1..Len(old) /\ all[k] = old[k]
    BY <1>4, <2>1
  <2>2. CASE k > Len(old) /\ all[k] = <<c, nread[c] - len + (k - Len(old))>>
    <3>1. all[k][2] = nread[c] - len + (k - Len(old))
      BY <2>2
    <3> QED
      BY <1>2, <1>5, <3>1
  <2> QED
    BY <1>3, <2>1, <2>2
<1> QED
  BY <1>1, <1>5, <1>6 DEF old, all

LEMMA CountedStep ==
  ASSUME IInv, Counted, [Next]_vars
  PROVE  Counted'
<1>1. RingInv /\ DataInv
  BY InvariantParts
<1>2. CASE echoed' = echoed
  BY <1>2 DEF Counted
<1>3. ASSUME NEW op \in flight, KernelSend(op)
      PROVE  Counted'
  <2>1. PICK n, c :
          /\ n \in 0..op.len /\ op.event = "WRITE" /\ c = op.conn
          /\ echoed' = [echoed EXCEPT ![c] = @ \o SubSeq(rbuf[op.fd], 1, n)]
    BY <1>3 DEF KernelSend
  <2>2. \A k \in 1..Len(echoed'[c]) : k <= echoed'[c][k][2]
    BY <1>1, <2>1, SendCounts
  <2>3. \A x \in Conns : x # c => echoed'[x] = echoed[x]
    BY <1>1, <2>1, EchoAppends
  <2> QED
    BY <2>2, <2>3 DEF Counted
<1>4. CASE Boot \/ (Loop /\ UNCHANGED srvVars) \/ HandleAccept \/ HandleRead \/ HandleWrite
  <2>1. echoed' = echoed
    BY <1>4 DEF Boot, HandleAccept, HandleRead, HandleWrite, srvVars, history
  <2> QED
    BY <1>2, <2>1
<1>5. ASSUME NEW op \in flight, KernelAccept(op) \/ KernelRecv(op)
      PROVE  Counted'
  BY <1>2, <1>5 DEF KernelAccept, KernelRecv, history
<1>6. ASSUME NEW c \in Conns, ClientStep(c)
      PROVE  Counted'
  BY <1>2, <1>6 DEF ClientStep, srvVars, history
<1>7. CASE UNCHANGED vars
  BY <1>2, <1>7 DEF vars, srvVars, history
<1> QED
  BY <1>3, <1>4, <1>5, <1>6, <1>7 DEF Next, Run, Kernel

\* A client never gets more bytes back than it has sent.
LEMMA CountedHolds == Spec => []Counted
<1>1. Init => Counted
  <2> SUFFICES ASSUME Init, NEW c \in Conns, NEW k \in 1..Len(echoed[c])
               PROVE  k <= echoed[c][k][2]
    BY DEF Counted
  <2>1. Len(echoed[c]) = 0
    BY EmptySeq DEF Init
  <2> QED
    BY <2>1
<1>2. IInv /\ Counted /\ [Next]_vars => Counted'
  BY CountedStep
<1> QED
  BY <1>1, <1>2, Invariance, PTL DEF Spec

-----------------------------------------------------------------------------
(* The io_uring server implements Conversation. *)

TalkStep == [Talk!Next]_(Talk!conversationVars)

LEMMA TalkInit ==
  ASSUME Init
  PROVE  Talk!Init
<1>1. \A c \in Conns : FdsOf(c) = {} /\ ~Broken(c) /\ c \notin done
  BY TcpAssumption DEF Init, TcpInit, FdsOf, Broken, TcpAssumption
<1>2. \A c \in Conns : Stage(c) = "waiting"
  BY <1>1 DEF Phase, Stage
<1>3. [c \in Conns |-> Stage(c)] = [c \in Conns |-> "waiting"]
  BY <1>2
<1>4. {c \in Conns : Broken(c)} = {}
  BY <1>1
<1>5. [c \in Conns |-> Len(echoed[c])] = [c \in Conns |-> 0]
  <2>1. \A c \in Conns : Len(echoed[c]) = 0
    BY EmptySeq DEF Init
  <2> QED
    BY <2>1
<1>6. nread = [c \in Conns |-> 0]
  BY DEF Init, TcpInit
<1> QED
  BY <1>3, <1>4, <1>5, <1>6 DEF Talk!Init

SameStages == \A c \in Conns : Stage(c)' = Stage(c)
SameBroken == \A c \in Conns : Broken(c)' <=> Broken(c)

LEMMA StagesStay ==
  ASSUME lost' = lost, \A c \in Conns : Phase(c)' = Phase(c)
  PROVE  SameStages
BY DEF SameStages, Stage

LEMMA SameSaid ==
  ASSUME echoed' = echoed
  PROVE  [c \in Conns |-> Len(echoed[c])]' = [c \in Conns |-> Len(echoed[c])]
OBVIOUS

\* Nothing that the conversations are about changes.
LEMMA TalkStutters ==
  ASSUME UNCHANGED <<nread, echoed>>, SameStages, SameBroken
  PROVE  TalkStep
<1>1. [c \in Conns |-> Stage(c)]' = [c \in Conns |-> Stage(c)]
  BY DEF SameStages
<1>2. {c \in Conns : Broken(c)}' = {c \in Conns : Broken(c)}
  BY DEF SameBroken
<1> QED
  BY <1>1, <1>2, SameSaid DEF TalkStep, Talk!conversationVars

\* One conversation takes a turn, and no connection breaks.
LEMMA TurnTaken ==
  ASSUME IInv, NEW c \in Conns, NEW from, NEW to, from # "over",
         MovesOn(c, from, to), lost' = lost, SameBroken
  PROVE  /\ Talk!Turn(c, from, to)
         /\ {d \in Conns : Broken(d)}' = {d \in Conns : Broken(d)}
<1>1. c \notin done
  BY DEF MovesOn, Phase
<1>2. c \notin lost
  BY <1>1 DEF IInv, TypeOK
<1>3. Stage(c) = from /\ Stage(c)' = to
  BY <1>2 DEF MovesOn, Stage
<1>4. \A d \in Conns : d # c => Stage(d)' = Stage(d)
  BY DEF MovesOn, Stage
<1>5. [d \in Conns |-> Stage(d)][c] = from
  BY <1>3
<1>6. [d \in Conns |-> Stage(d)]' = [[d \in Conns |-> Stage(d)] EXCEPT ![c] = to]
  BY <1>3, <1>4
<1>7. {d \in Conns : Broken(d)}' = {d \in Conns : Broken(d)}
  BY DEF SameBroken
<1> QED
  BY <1>5, <1>6, <1>7 DEF Talk!Turn

\* init, the loop, and completions that are not of a recv.
LEMMA RunTalk ==
  ASSUME IInv, Boot \/ (Loop /\ UNCHANGED srvVars) \/ HandleAccept \/ HandleWrite
  PROVE  TalkStep
<1>1. RingInv /\ UNCHANGED <<peer, nread, echoed, lost>>
  BY DEF IInv, Boot, Loop, Submit, Submitted, Peek, Advance, HandleAccept, HandleWrite,
         tcpVars, srvVars, history
<1>2. SameStages
  BY <1>1, QuietPhases, StagesStay
<1>3. SameBroken
  BY <1>1 DEF SameBroken, Broken
<1> QED
  BY <1>1, <1>2, <1>3, TalkStutters

\* run leaves a client at end of file, and otherwise answers it later.
LEMMA ReadTalk ==
  ASSUME IInv, HandleRead, SqNeverFull'
  PROVE  TalkStep
<1>1. RingInv /\ UNCHANGED <<peer, nread, echoed, lost>>
  BY DEF IInv, HandleRead, history
<1>2. SameBroken
  BY <1>1 DEF SameBroken, Broken
<1>3. CASE \A c \in Conns : Phase(c)' = Phase(c)
  BY <1>1, <1>2, <1>3, StagesStay, TalkStutters
<1>4. CASE \E c \in Conns : MovesOn(c, "listening", "over")
  <2>1. PICK c \in Conns : MovesOn(c, "listening", "over")
    BY <1>4
  <2>2. Talk!Leave(c)
    BY <1>1, <1>2, <2>1, TurnTaken, SameSaid DEF Talk!Leave
  <2> QED
    BY <2>2 DEF TalkStep, Talk!Next
<1> QED
  BY <1>1, <1>3, <1>4, ReadPhases

\* accept admits a client, or fails; what it drops unseen was never admitted.
LEMMA AcceptTalk ==
  ASSUME IInv, Running, NEW op \in flight, KernelAccept(op)
  PROVE  TalkStep
<1>1. RingInv /\ UNCHANGED <<peer, nread, echoed>>
  BY DEF IInv, KernelAccept
<1>2. SameBroken
  BY <1>1 DEF SameBroken, Broken
<1>3. CASE lost' = lost /\ \A c \in Conns : Phase(c)' = Phase(c)
  BY <1>1, <1>2, <1>3, StagesStay, TalkStutters
<1>4. CASE lost' = lost /\ \E c \in Conns : MovesOn(c, "waiting", "listening")
  <2>1. PICK c \in Conns : MovesOn(c, "waiting", "listening")
    BY <1>4
  <2>2. Talk!Admit(c)
    BY <1>1, <1>2, <1>4, <2>1, TurnTaken, SameSaid DEF Talk!Admit
  <2> QED
    BY <2>2 DEF TalkStep, Talk!Next
<1>5. CASE \E c \in Conns : MovesOn(c, "waiting", "over") /\ lost' = lost \cup {c}
  <2>1. SameStages
    BY <1>5 DEF SameStages, Stage, MovesOn
  <2> QED
    BY <1>1, <1>2, <2>1, TalkStutters
<1> QED
  BY <1>1, <1>3, <1>4, <1>5, AcceptPhases

\* A recv hears something new, or only the end.
LEMMA RecvTalk ==
  ASSUME IInv, Running, NEW op \in flight, KernelRecv(op)
  PROVE  TalkStep
<1>1. PICK c \in Conns, cnt \in -1..BufferLength :
        c = op.conn /\ Recv(c, BufferLength, cnt) /\ Complete(op, cnt)
  BY OpOwner DEF IInv, KernelRecv, CompleteRecv
<1>2. /\ RingInv /\ op.event = "READ"
      /\ UNCHANGED <<fdtab, done, sq, batchVars, echoed, lost>>
  BY DEF IInv, KernelRecv, loopVars, history
<1>3. SameBroken
  BY <1>1, <1>2, TransferBroken DEF SameBroken
<1>4. CASE cnt > 0
  <2>1. MovesOn(c, "listening", "answering")
    BY <1>1, <1>2, <1>4, TransferPhase
  <2>2. nread'[c] > nread[c] /\ nread' = [nread EXCEPT ![c] = nread'[c]]
    BY <1>1, <1>2, <1>4, RecvCount
  <2>3. Talk!Hear(c)
    BY <1>2, <1>3, <2>1, <2>2, TurnTaken, SameSaid DEF Talk!Hear
  <2> QED
    BY <2>3 DEF TalkStep, Talk!Next
<1>5. CASE ~(cnt > 0)
  <2>1. SameStages
    BY <1>1, <1>2, <1>5, TransferPhase, StagesStay
  <2>2. nread' = nread
    BY <1>1, <1>2, <1>5, RecvCount
  <2> QED
    BY <1>2, <1>3, <2>1, <2>2, TalkStutters
<1> QED
  BY <1>4, <1>5

\* A send answers, unless the client has reset.
LEMMA SendTalk ==
  ASSUME IInv, Counted, Running, NEW op \in flight, KernelSend(op)
  PROVE  TalkStep
<1>1. PICK c \in Conns, n \in 0..op.len :
        /\ c = op.conn /\ CompleteSend(op, n)
        /\ echoed' = [echoed EXCEPT ![c] = @ \o SubSeq(rbuf[op.fd], 1, n)]
  BY OpOwner DEF IInv, KernelSend
<1>2. /\ RingInv /\ DataInv /\ op.event = "WRITE"
      /\ UNCHANGED <<nread, fdtab, done, sq, batchVars, lost>>
  BY InvariantParts DEF KernelSend, loopVars
<1>3. op.len \in 1..BufferLength
  BY <1>2, OpOwner
<1>4. /\ nread[c] \in Nat /\ Len(echoed[c]) \in Nat
      /\ Len(echoed[c]) + op.len <= nread[c]
      /\ Len(echoed'[c]) = Len(echoed[c]) + n
      /\ \A d \in Conns : d # c => echoed'[d] = echoed[d]
  BY <1>1, <1>2, EchoAppends, SendCounts
<1>5. ASSUME NEW res \in -1..BufferLength, Complete(op, res)
      PROVE  MovesOn(c, "answering", "listening")
  BY <1>1, <1>2, <1>5, TransferPhase
<1>6. CASE n \in SendLengths(op) /\ Send(c, "sent") /\ Complete(op, n)
  <2>1. n > 0 /\ n <= op.len /\ n \in -1..BufferLength
    <3>1. SendLengths(op) \subseteq 1..op.len
      BY <1>3 DEF SendLengths
    <3>2. n \in 1..op.len
      BY <1>6, <3>1
    <3> QED
      BY <1>3, <3>2, FdFacts
  <2>2. MovesOn(c, "answering", "listening")
    BY <1>5, <1>6, <2>1
  <2>3. SameBroken
    BY <1>2, <1>6, TransferBroken DEF SameBroken
  <2> DEFINE said == [d \in Conns |-> Len(echoed[d])]
  <2>4. /\ said'[c] = Len(echoed[c]) + n /\ said[c] = Len(echoed[c])
        /\ \A d \in Conns : d # c => said'[d] = said[d]
    BY <1>4
  <2>5. said'[c] > said[c] /\ said'[c] <= nread[c]
    BY <1>3, <1>4, <2>1, <2>4
  <2>6. said' = [said EXCEPT ![c] = said'[c]]
    BY <2>4
  <2>7. Talk!Answer(c)
    BY <1>2, <2>2, <2>3, <2>5, <2>6, TurnTaken DEF Talk!Answer
  <2> QED
    BY <2>7 DEF TalkStep, Talk!Next
<1>7. ASSUME n = 0, NEW res \in {"reset", "pipe"}, Send(c, res), Complete(op, -1)
      PROVE  TalkStep
  <2>1. MovesOn(c, "answering", "listening")
    BY <1>5, <1>7, FdFacts
  <2>2. SameBroken /\ Broken(c)
    BY <1>2, <1>7, TransferBroken DEF SameBroken
  <2>3. \A d \in Conns : Len(echoed'[d]) = Len(echoed[d])
    BY <1>4, <1>7
  <2>4. [d \in Conns |-> Len(echoed[d])]' = [d \in Conns |-> Len(echoed[d])]
    BY <2>3
  <2>5. Talk!Falter(c)
    BY <1>2, <2>1, <2>2, <2>4, TurnTaken DEF Talk!Falter
  <2> QED
    BY <2>5 DEF TalkStep, Talk!Next
<1> QED
  BY <1>1, <1>6, <1>7 DEF CompleteSend

\* A client may break its conversation, and nothing else.
LEMMA ClientTalk ==
  ASSUME IInv, NEW c \in Conns, ClientStep(c)
  PROVE  TalkStep
<1>1. /\ RingInv /\ Client(c)
      /\ UNCHANGED <<echoed, lost, sq, flight>> /\ Unhandled' = Unhandled
  BY DEF IInv, ClientStep, srvVars, history, uringVars, loopVars, batchVars, Unhandled
<1>2. /\ UNCHANGED <<nread, fdtab, done>>
      /\ Broken(c) => Broken(c)'
      /\ \A d \in Conns : d # c => (Broken(d)' <=> Broken(d))
  BY <1>1, ClientBreaks
<1>3. SameStages
  BY <1>1, ClientPhases, StagesStay
<1>4. CASE Broken(c)' <=> Broken(c)
  <2>1. SameBroken
    BY <1>2, <1>4 DEF SameBroken
  <2> QED
    BY <1>1, <1>2, <1>3, <2>1, TalkStutters
<1>5. CASE ~Broken(c) /\ Broken(c)'
  <2>1. {d \in Conns : Broken(d)}' = {d \in Conns : Broken(d)} \cup {c}
    BY <1>2, <1>5
  <2>2. [d \in Conns |-> Stage(d)]' = [d \in Conns |-> Stage(d)]
    BY <1>3 DEF SameStages
  <2>3. Talk!Break(c)
    BY <1>1, <1>2, <1>5, <2>1, <2>2, SameSaid DEF Talk!Break
  <2> QED
    BY <2>3 DEF TalkStep, Talk!Next
<1> QED
  BY <1>2, <1>4, <1>5

LEMMA StepTalk == IInv /\ Counted /\ SqNeverFull' /\ [Next]_vars => TalkStep
<1> SUFFICES ASSUME IInv, Counted, SqNeverFull', [Next]_vars
             PROVE  TalkStep
  OBVIOUS
<1>1. CASE Boot \/ (Loop /\ UNCHANGED srvVars) \/ HandleAccept \/ HandleWrite
  BY <1>1, RunTalk
<1>2. CASE HandleRead
  BY <1>2, ReadTalk
<1>3. ASSUME NEW fd \in AllFds, Kernel(fd)
      PROVE  TalkStep
  BY <1>3, AcceptTalk, RecvTalk, SendTalk DEF Kernel
<1>4. ASSUME NEW c \in Conns, ClientStep(c)
      PROVE  TalkStep
  BY <1>4, ClientTalk
<1>5. CASE UNCHANGED vars
  <2>1. UNCHANGED <<peer, nread, echoed, lost, fdtab, done, sq, flight, cq, i>>
    BY <1>5 DEF vars, tcpVars, srvVars, history, uringVars, loopVars, batchVars
  <2>2. Unhandled' = Unhandled
    BY <2>1 DEF Unhandled
  <2>3. SameStages
    BY <2>1, <2>2, StillPhase, StagesStay
  <2>4. SameBroken
    BY <2>1 DEF SameBroken, Broken
  <2> QED
    BY <2>1, <2>3, <2>4, TalkStutters
<1> QED
  BY <1>1, <1>2, <1>3, <1>4, <1>5 DEF Next, Run

\* The io_uring server implements Conversation: it echoes no more than it has
\* read, once per turn, and drops a turn only on a broken connection.
THEOREM Refinement ==
  ASSUME SqEntries >= 2 * CqBatch
  PROVE  Spec => TakesTurns
<1>1. Init => Talk!Init
  BY TalkInit
<1>2. Spec => []SqNeverFull
  BY SqHasRoom
<1> QED
  BY <1>1, <1>2, StepTalk, Invariance, CountedHolds, PTL
  DEF Spec, TakesTurns, Talk!Spec, TalkStep
=============================================================================
