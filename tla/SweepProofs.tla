---------------------------- MODULE SweepProofs ----------------------------
(***************************************************************************)
(* Proofs about the select and the poll server, for every value of the     *)
(* constants: first that the steps they share keep SweepInv.               *)
(***************************************************************************)
EXTENDS SelectProps, PollServer, TLAPS, SequenceTheorems

-----------------------------------------------------------------------------
(* Facts about sequences. *)

\* What is left of a sequence after its head.
LEMMA TailElements ==
  ASSUME NEW S, NEW s \in Seq(S), s # <<>>
  PROVE  /\ Tail(s) \in Seq(S)
         /\ Len(s) \in Nat /\ Len(s) > 0
         /\ Len(Tail(s)) = Len(s) - 1
         /\ \A k \in 1..Len(Tail(s)) : k + 1 \in 1..Len(s) /\ Tail(s)[k] = s[k + 1]
         /\ 1 \in 1..Len(s)
         /\ Head(s) = s[1]
         /\ Head(s) \in S
BY HeadTailProperties, LenProperties, EmptySeq

\* What appending one element changes.
LEMMA AppendElements ==
  ASSUME NEW S, NEW s \in Seq(S), NEW e \in S
  PROVE  /\ Append(s, e) \in Seq(S)
         /\ Len(s) \in Nat
         /\ Len(Append(s, e)) = Len(s) + 1
         /\ \A k \in 1..Len(Append(s, e)) :
              Append(s, e)[k] = IF k = Len(s) + 1 THEN e ELSE s[k]
BY AppendProperties, LenProperties

\* The typing facts that the steps below use most.
LEMMA Typing ==
  ASSUME TypeOK
  PROVE  /\ \A fd \in Fds : fd \in Nat /\ fd >= 1 /\ fdtab[fd] \in Conns \cup {NoConn}
         /\ \A fd \in OpenFds : fd \in Fds /\ fdtab[fd] \in Conns
         /\ \A fd \in AllFds : fd \in Nat /\ (fd \in Fds \/ fd = ListenFd)
         /\ Fds \subseteq AllFds /\ ListenFd \in AllFds /\ ListenFd = 0 /\ ListenFd \notin Fds
         /\ FreeFds = Fds \ OpenFds
         /\ mxfd \in Int /\ cur \in Nat /\ count \in Int /\ nready \in {-1, 1}
         /\ \A c \in Conns : /\ nread[c] \in Nat /\ sent[c] \in Nat
                             /\ nread[c] <= sent[c] /\ nread[c] \in 0..MaxSend
                             /\ unread[c] \in Nat /\ echoed[c] \in Nat
                             /\ peer[c] \in PeerState
         /\ BufferLength \in Nat /\ BufferLength > 0 /\ MaxSend \in Nat /\ SndRoom \in Nat
         /\ NoConn \notin Conns
<1> USE DEF TypeOK, TcpTypeOK, AllFds, Fds, ListenFd, Deaf
<1>1. MaxFd \in Nat /\ MaxSend \in Nat /\ SndRoom \in Nat /\ NoConn \notin Conns
  BY TcpAssumption DEF TcpAssumption
<1>2. BufferLength \in Nat /\ BufferLength > 0
  BY SweepAssumption DEF SweepAssumption
<1>3. \A c \in Conns : /\ nread[c] \in 0..MaxSend /\ sent[c] \in 0..MaxSend
                       /\ nread[c] <= sent[c] /\ unread[c] \in 0..SndRoom
                       /\ echoed[c] \in 0..MaxSend /\ peer[c] \in PeerState
  OBVIOUS
<1>4. \A fd \in OpenFds : fd \in Fds /\ fdtab[fd] \in Conns
  BY DEF OpenFds
<1>5. FreeFds = Fds \ OpenFds
  BY DEF FreeFds, OpenFds
<1> QED
  BY <1>1, <1>2, <1>3, <1>4, <1>5

\* Every lemma about a step says, besides, that it keeps ReadyFresh.
LEMMA SweepInitInv ==
  ASSUME SweepInit, ready \subseteq Fds
  PROVE  SweepInv /\ (ready = {} => ReadyFresh)
<1> USE DEF SweepInit, TcpInit
<1>1. OpenFds = {} /\ FreeFds = Fds /\ ListenFd \in AllFds /\ ready \subseteq AllFds
  BY TcpAssumption DEF OpenFds, FreeFds, AllFds, ListenFd, TcpAssumption
<1>2. TypeOK
  BY <1>1, TcpAssumption, SweepAssumption, EmptySeq
  DEF TypeOK, TcpTypeOK, TcpAssumption, SweepAssumption, PeerState
<1>3. Dormant /\ SendsToOpen
  BY <1>1 DEF Dormant, SendsToOpen
<1>4. Ownership
  BY <1>1 DEF Ownership
<1>5. ReportsKept
  <2>1. \A fd \in Fds : fd > mxfd
    BY <1>2, Typing
  <2> QED
    BY <1>1, <2>1 DEF ReportsKept, Highest
<1>6. NothingLost
  BY DEF NothingLost, Pending
<1>7. ready = {} => ReadyFresh
  BY DEF ReadyFresh
<1> QED
  BY <1>2, <1>3, <1>4, <1>5, <1>6, <1>7 DEF SweepInv

LEMMA BootInv ==
  ASSUME SweepInv, Boot
  PROVE  SweepInv' /\ (ReadyFresh => ReadyFresh')
<1> USE DEF SweepInv, Boot
<1>1. /\ UNCHANGED <<peer, sent, nread, unread, backlog, fdtab, done, nready, mxfd, ready,
                     cur, count, echoed>>
      /\ OpenFds' = OpenFds /\ FreeFds' = FreeFds /\ pc = "boot"
      /\ ListenFd \in AllFds
  BY DEF tcpVars, OpenFds, FreeFds, AllFds
<1>2. TypeOK'
  BY <1>1 DEF TypeOK, TcpTypeOK
<1>3. Dormant' /\ SendsToOpen'
  BY <1>1 DEF Dormant, SendsToOpen
<1>4. Ownership'
  BY <1>1 DEF Ownership
<1>5. (nready # -1 => ReportsKept') /\ (ReadyFresh => ReadyFresh')
  BY <1>1 DEF ReportsKept, ReadyFresh, Unswept, ReadyToRead, Readable, Avail, Highest
<1>6. NothingLost'
  BY <1>1 DEF NothingLost, Pending, Broken
<1> QED
  BY <1>1, <1>2, <1>3, <1>4, <1>5, <1>6

\* A step of main that changes nothing of the clients and of what is sent.
LEMMA LocalStep ==
  ASSUME SweepInv, UNCHANGED <<tcpVars, count, echoed>>,
         pc \in {"wait", "accept", "sweep"}, pc' \in {"wait", "accept", "sweep", "aborted"},
         nready' \in {-1, 1}, mxfd' \in {mxfd, Deaf}, cur' \in AllFds,
         ready' \subseteq AllFds, watched' \subseteq AllFds, nready' # -1 => ReportsKept'
  PROVE  SweepInv'
<1> USE DEF SweepInv
<1>1. UNCHANGED <<peer, sent, nread, unread, backlog, fdtab, done>> /\ OpenFds' = OpenFds
  BY DEF tcpVars, OpenFds
<1>2. TypeOK'
  BY <1>1 DEF TypeOK, TcpTypeOK
<1>3. Dormant' /\ SendsToOpen'
  BY <1>1 DEF Dormant, SendsToOpen
<1>4. Ownership'
  BY <1>1 DEF Ownership
<1>5. NothingLost'
  BY <1>1 DEF NothingLost, Pending, Broken
<1> QED
  BY <1>2, <1>3, <1>4, <1>5

\* select and poll report what is readable now; what poll leaves in the entries
\* above mxfd is as good as it was.
LEMMA ReturnedInv ==
  ASSUME SweepInv, NEW result \in {-1, 1}, Returned(result), UNCHANGED mxfd,
         UNCHANGED watched, ready' \subseteq AllFds,
         result # -1 =>
           \A fd \in ready' : \/ fd \in Polled
                              \/ nready # -1 /\ fd \in ready /\ fd > mxfd
  PROVE  /\ SweepInv'
         /\ result # -1 /\ (ReadyFresh \/ ready' \subseteq Polled) => ReadyFresh'
<1> USE DEF SweepInv
<1>1. /\ pc = "wait" /\ pc' = "accept" /\ cur' = ListenFd /\ nready' = result
      /\ UNCHANGED <<tcpVars, count, echoed>>
      /\ UNCHANGED <<peer, sent, nread, unread, backlog, fdtab, done>>
      /\ OpenFds' = OpenFds /\ FreeFds' = FreeFds
      /\ ListenFd \in AllFds /\ mxfd \in Int /\ \A fd \in AllFds : fd \in Int
      /\ watched' \subseteq AllFds
  BY Typing DEF Returned, tcpVars, OpenFds, FreeFds, TypeOK
<1>2. ASSUME NEW fd \in AllFds, ReadyToRead(fd) PROVE ReadyToRead(fd)'
  BY <1>1, <1>2 DEF ReadyToRead, Readable, Avail
<1>3. ASSUME result # -1 PROVE ReportsKept'
  <2> SUFFICES ASSUME NEW fd \in ready'
               PROVE  ReadyToRead(fd)' \/ (fd > mxfd' /\ fd \in FreeFds' /\ Highest(fd)')
    BY DEF ReportsKept
  <2>1. CASE fd \in Polled
    BY <1>2, <2>1 DEF Polled
  <2>2. CASE nready # -1 /\ fd \in ready /\ fd > mxfd
    <3>1. ReadyToRead(fd) \/ (fd > mxfd /\ fd \in FreeFds /\ Highest(fd)) \/ fd = mxfd
      BY <2>2 DEF ReportsKept, Unswept
    <3>2. fd # mxfd
      BY <1>1, <2>2
    <3> QED
      BY <1>1, <1>2, <3>1, <3>2 DEF Highest
  <2> QED
    BY <1>3, <2>1, <2>2
<1>4. ASSUME result # -1, ReadyFresh \/ ready' \subseteq Polled PROVE ReadyFresh'
  <2> SUFFICES ASSUME NEW fd \in ready' PROVE ReadyToRead(fd)'
    BY DEF ReadyFresh
  <2>1. ReadyToRead(fd)
    BY <1>4 DEF ReadyFresh, Unswept, Polled
  <2> QED
    BY <1>2, <2>1
<1> QED
  BY <1>1, <1>3, <1>4, LocalStep

LEMMA NothingToAcceptInv ==
  ASSUME SweepInv, NothingToAccept
  PROVE  SweepInv' /\ (ReadyFresh => ReadyFresh')
<1> USE DEF SweepInv, NothingToAccept
<1>1. /\ UNCHANGED <<peer, sent, nread, backlog, fdtab>>
      /\ OpenFds' = OpenFds /\ FreeFds' = FreeFds
  BY DEF tcpVars, OpenFds, FreeFds
<1>2. (nready # -1 => ReportsKept') /\ (ReadyFresh => ReadyFresh')
  BY <1>1 DEF ReportsKept, ReadyFresh, Unswept, ReadyToRead, Readable, Avail, Highest
<1> QED
  BY <1>2, LocalStep, Typing DEF TypeOK

LEMMA SweepDoneInv ==
  ASSUME SweepInv, SweepDone
  PROVE  SweepInv' /\ (ReadyFresh => ReadyFresh')
<1> USE DEF SweepInv, SweepDone
<1>1. /\ UNCHANGED <<peer, sent, nread, backlog, fdtab>>
      /\ OpenFds' = OpenFds /\ FreeFds' = FreeFds
  BY DEF tcpVars, OpenFds, FreeFds
<1>2. \A fd \in ready : Unswept(fd)' => Unswept(fd) /\ fd > mxfd
  BY DEF Unswept, Remaining
<1>3. (nready # -1 => ReportsKept') /\ (ReadyFresh => ReadyFresh')
  <2>1. \A fd \in ready : fd > mxfd => fd # mxfd
    BY Typing DEF TypeOK
  <2> QED
    BY <1>1, <1>2, <2>1
    DEF ReportsKept, ReadyFresh, ReadyToRead, Readable, Avail, Highest
<1> QED
  BY <1>3, LocalStep, Typing DEF TypeOK

\* A failed accept leaves all as it was: only mxfd may be destroyed, and what
\* was reported of the descriptors that it covered has not been used yet.
LEMMA AcceptFailedInv ==
  ASSUME SweepInv, AcceptFailed, watched' \subseteq AllFds,
         pc' \in {"sweep", "aborted"}, mxfd' \in {mxfd, Deaf}
  PROVE  SweepInv' /\ (ReadyFresh => ReadyFresh')
<1> USE DEF SweepInv, AcceptFailed
<1>1. /\ UNCHANGED <<peer, sent, nread, backlog, fdtab>>
      /\ OpenFds' = OpenFds /\ FreeFds' = FreeFds
  BY DEF tcpVars, OpenFds, FreeFds
<1>2. \A fd \in ready : ReadyToRead(fd) => ReadyToRead(fd)'
  BY <1>1 DEF ReadyToRead, Readable, Avail
<1>3. ReadyFresh => ReadyFresh'
  BY <1>2 DEF ReadyFresh, Unswept
<1>4. ASSUME nready # -1 PROVE ReportsKept'
  <2> SUFFICES ASSUME NEW fd \in ready
               PROVE  ReadyToRead(fd)' \/ (fd > mxfd' /\ fd \in FreeFds' /\ Highest(fd)')
    BY DEF ReportsKept
  <2>1. ReadyToRead(fd) \/ (fd > mxfd /\ fd \in FreeFds /\ Highest(fd))
    BY <1>4 DEF ReportsKept, Unswept
  <2>2. fd \in FreeFds => fd > Deaf
    BY Typing DEF TypeOK, Deaf
  <2> QED
    BY <1>1, <1>2, <2>1, <2>2 DEF Highest
<1> QED
  BY <1>3, <1>4, LocalStep, Typing DEF TypeOK

\* A new connection takes the lowest descriptor that was closed; what poll has
\* left in its entry matters only if that becomes the new mxfd.
LEMMA AcceptedInv ==
  ASSUME SweepInv, NEW fd \in Fds, Accepted(fd), ready' = ready
  PROVE  SweepInv' /\ (ReadyFresh => ReadyFresh')
<1> USE DEF SweepInv, Accepted
<1> DEFINE c == Head(backlog)
<1>1. TypeOK /\ backlog \in Seq(Conns) /\ backlog # <<>>
  BY DEF TypeOK, TcpTypeOK, AcceptConn
<1>2. /\ Tail(backlog) \in Seq(Conns) /\ c \in Conns /\ c = backlog[1]
      /\ 1 \in 1..Len(backlog) /\ Len(backlog) \in Nat
      /\ Len(Tail(backlog)) = Len(backlog) - 1
      /\ \A k \in 1..Len(Tail(backlog)) :
           k + 1 \in 1..Len(backlog) /\ Tail(backlog)[k] = backlog[k + 1]
  BY <1>1, TailElements
<1>3. /\ fdtab[fd] = NoConn /\ fd \notin OpenFds /\ backlog' = Tail(backlog)
      /\ fdtab' = [fdtab EXCEPT ![fd] = c]
      /\ \A g \in FreeFds : fd <= g
  BY DEF AcceptConn, FreeFds, OpenFds
<1>4. /\ fdtab' \in [Fds -> Conns \cup {NoConn}] /\ fdtab'[fd] = c
      /\ \A g \in Fds : g # fd => fdtab'[g] = fdtab[g]
  BY <1>1, <1>2, <1>3 DEF TypeOK, TcpTypeOK
<1>5. OpenFds' = OpenFds \cup {fd} /\ FreeFds' = FreeFds \ {fd}
  BY <1>2, <1>4, TcpAssumption DEF OpenFds, FreeFds, TcpAssumption
<1>6. /\ mxfd' = Raised(fd) /\ mxfd \in Int /\ fd \in Nat /\ mxfd' \in Int
      /\ mxfd' \in AllFds \cup {Deaf} /\ fd <= mxfd' /\ mxfd <= mxfd'
      /\ mxfd' = mxfd \/ mxfd' = fd
      /\ \A g \in AllFds : g \in Nat
  BY <1>1, Typing DEF Raised, TypeOK
<1>7. TypeOK'
  <2>1. watched' \subseteq AllFds
    BY <1>1, Typing DEF TypeOK
  <2>2. TcpTypeOK'
    BY <1>1, <1>2, <1>3, <1>4 DEF TypeOK, TcpTypeOK
  <2> QED
    BY <1>1, <1>6, <2>1, <2>2 DEF TypeOK
<1>8. Dormant' /\ SendsToOpen'
  BY DEF Dormant, SendsToOpen
<1>9. Ownership'
  <2>1. /\ c \notin done /\ peer[c] # "idle" /\ \A g \in Fds : fdtab[g] # c
        /\ \A k \in 1..Len(backlog) : backlog[k] = c => k = 1
    BY <1>2 DEF Ownership
  <2>2. ASSUME NEW g \in OpenFds'
        PROVE  /\ fdtab'[g] \notin done' /\ peer'[fdtab'[g]] # "idle"
               /\ \A other \in OpenFds' : fdtab'[other] = fdtab'[g] => other = g
    <3>1. CASE g = fd
      BY <1>1, <1>4, <1>5, <2>1, <3>1, Typing
    <3>2. CASE g # fd
      <4>1. g \in OpenFds /\ g \in Fds /\ fdtab'[g] = fdtab[g]
        BY <1>1, <1>4, <1>5, <3>2, Typing
      <4>2. fdtab[g] \notin done /\ peer[fdtab[g]] # "idle" /\ fdtab[g] # c
        BY <2>1, <4>1 DEF Ownership
      <4>3. \A other \in OpenFds : fdtab[other] = fdtab[g] => other = g
        BY <4>1 DEF Ownership
      <4>4. ASSUME NEW other \in OpenFds', fdtab'[other] = fdtab'[g] PROVE other = g
        <5>1. other # fd
          BY <1>4, <4>1, <4>2, <4>4
        <5>2. other \in OpenFds /\ other \in Fds
          BY <1>1, <1>5, <5>1, Typing
        <5> QED
          BY <1>4, <4>1, <4>3, <4>4, <5>1, <5>2
      <4> QED
        BY <4>1, <4>2, <4>4
    <3> QED
      BY <3>1, <3>2
  <2>3. ASSUME NEW j \in 1..Len(backlog')
        PROVE  /\ backlog'[j] \notin done' /\ peer'[backlog'[j]] # "idle"
               /\ \A g \in Fds : fdtab'[g] # backlog'[j]
               /\ \A k \in 1..Len(backlog') : backlog'[k] = backlog'[j] => k = j
    <3>1. j + 1 \in 1..Len(backlog) /\ backlog'[j] = backlog[j + 1]
      BY <1>2, <1>3
    <3>2. /\ backlog[j + 1] \notin done /\ peer[backlog[j + 1]] # "idle"
          /\ \A g \in Fds : fdtab[g] # backlog[j + 1]
          /\ \A k \in 1..Len(backlog) : backlog[k] = backlog[j + 1] => k = j + 1
      BY <3>1 DEF Ownership
    <3>3. backlog[j + 1] # c
      BY <1>2, <3>1, <2>1
    <3>4. \A k \in 1..Len(backlog') : backlog'[k] = backlog'[j] => k = j
      BY <1>2, <1>3, <3>1, <3>2
    <3> QED
      BY <1>4, <3>1, <3>2, <3>3, <3>4
  <2> QED
    BY <2>2, <2>3 DEF Ownership
<1>10. ASSUME NEW g \in ready, Unswept(g)'
       PROVE  g \in Fds /\ g \in Nat /\ Unswept(g) /\ (ReadyToRead(g) => ReadyToRead(g)')
  <2>1. g # ListenFd /\ g \in AllFds /\ g \in Nat /\ g \in Fds
    BY <1>1, <1>6, <1>10, Typing DEF Unswept, TypeOK
  <2>2. ReadyToRead(g) => g # fd /\ fdtab'[g] = fdtab[g]
    BY <1>3, <1>4, <2>1 DEF ReadyToRead
  <2> QED
    BY <2>1, <2>2 DEF Unswept, ReadyToRead, Readable, Avail
<1>11. ReadyFresh => ReadyFresh'
  BY <1>10 DEF ReadyFresh
<1>12. ASSUME nready # -1 PROVE ReportsKept'
  <2> SUFFICES ASSUME NEW g \in ready, Unswept(g)'
               PROVE  \/ ReadyToRead(g)'
                      \/ g > mxfd' /\ g \in FreeFds' /\ Highest(g)'
                      \/ g = mxfd' /\ g \in OpenFds' /\ Highest(g)'
    BY DEF ReportsKept
  <2>1. ReadyToRead(g) \/ (g > mxfd /\ g \in FreeFds /\ Highest(g))
    BY <1>10, <1>12 DEF ReportsKept, Unswept
  <2>2. CASE g > mxfd /\ g \in FreeFds /\ Highest(g)
    <3>1. fd <= g /\ g \in Nat
      BY <1>3, <1>10, <2>2
    <3>2. Highest(g)'
      BY <1>5, <2>2, <3>1 DEF Highest
    <3>3. CASE g = fd
      <4>1. mxfd' = g
        BY <1>6, <2>2, <3>3 DEF Raised
      <4> QED
        BY <1>5, <3>2, <3>3, <4>1
    <3>4. CASE g # fd
      <4>1. g > mxfd'
        BY <1>6, <2>2, <3>1, <3>4
      <4> QED
        BY <1>5, <2>2, <3>2, <3>4, <4>1
    <3> QED
      BY <3>3, <3>4
  <2> QED
    BY <1>10, <2>1, <2>2
<1>13. NothingLost'
  BY DEF NothingLost, Pending, Broken
<1> QED
  BY <1>7, <1>8, <1>9, <1>11, <1>12, <1>13

\* What recv changes is about its own connection only.
LEMMA RecvEffect ==
  ASSUME TypeOK, NEW c \in Conns, NEW cnt \in -1..BufferLength,
         Recv(c, BufferLength, cnt)
  PROVE  /\ nread' \in [Conns -> 0..MaxSend] /\ nread'[c] <= sent[c]
         /\ peer' \in [Conns -> PeerState]
         /\ \A d \in Conns : d # c => nread'[d] = nread[d] /\ peer'[d] = peer[d]
         /\ peer[c] # "idle" => peer'[c] # "idle"
         /\ cnt = 0 => /\ UNCHANGED <<nread, peer>>
                       /\ Avail(c) = 0 /\ peer[c] \in {"fin", "finrst", "dead"}
         /\ cnt # 0 => \/ nread'[c] = nread[c] + cnt /\ peer' = peer /\ cnt > 0
                       \/ nread' = nread /\ Broken(c) /\ peer'[c] = "dead"
<1>1. /\ nread \in [Conns -> 0..MaxSend] /\ peer \in [Conns -> PeerState]
      /\ sent \in [Conns -> 0..MaxSend]
      /\ nread[c] \in Nat /\ sent[c] \in Nat /\ nread[c] <= sent[c] /\ sent[c] <= MaxSend
      /\ MaxSend \in Nat /\ BufferLength \in Nat /\ BufferLength > 0 /\ cnt \in Int
  <2>1. /\ nread \in [Conns -> 0..MaxSend] /\ peer \in [Conns -> PeerState]
        /\ sent \in [Conns -> 0..MaxSend]
    BY DEF TypeOK, TcpTypeOK
  <2>2. /\ nread[c] \in Nat /\ sent[c] \in Nat /\ nread[c] <= sent[c]
        /\ MaxSend \in Nat /\ BufferLength \in Nat /\ BufferLength > 0
    BY Typing
  <2> QED
    BY <2>1, <2>2
<1>2. CASE /\ Avail(c) > 0
           /\ cnt = IF Avail(c) < BufferLength THEN Avail(c) ELSE BufferLength
           /\ nread' = [nread EXCEPT ![c] = @ + cnt]
           /\ UNCHANGED peer
  <2>1. cnt > 0 /\ cnt <= sent[c] - nread[c]
    BY <1>1, <1>2 DEF Avail
  <2>2. nread[c] + cnt \in 0..MaxSend /\ nread[c] + cnt <= sent[c]
    BY <1>1, <2>1
  <2> QED
    BY <1>1, <1>2, <2>1, <2>2
<1>3. CASE /\ Avail(c) = 0
           /\ peer[c] \in {"fin", "finrst", "dead"}
           /\ cnt = 0
           /\ UNCHANGED <<peer, nread>>
  BY <1>1, <1>3
<1>4. CASE /\ Avail(c) = 0
           /\ peer[c] = "rst"
           /\ cnt = -1
           /\ peer' = [peer EXCEPT ![c] = "dead"]
           /\ UNCHANGED nread
  BY <1>1, <1>4 DEF PeerState, Broken
<1> QED
  BY <1>2, <1>3, <1>4 DEF Recv

\* The sweep comes to open descriptors, unless select has failed.
LEMMA RemainingOpen ==
  ASSUME SweepInv, pc = "sweep", NEW fd \in Remaining
  PROVE  /\ fd \in Fds /\ fd \in ready /\ fd \in Nat /\ fd \in AllFds
         /\ cur < fd /\ fd <= mxfd
         /\ fdtab[fd] # NoConn => fd \in OpenFds /\ fdtab[fd] \in Conns
         /\ fdtab[fd] = NoConn => fd \in FreeFds /\ nready = -1
<1>1. TypeOK /\ fd \in ready /\ cur < fd /\ fd <= mxfd /\ fd \in AllFds
  BY DEF SweepInv, TypeOK, Remaining
<1>2. fd \in Fds /\ fd \in Nat
  BY <1>1, Typing
<1>3. fdtab[fd] # NoConn => fd \in OpenFds /\ fdtab[fd] \in Conns
  BY <1>1, <1>2, Typing DEF OpenFds
<1>4. ASSUME fdtab[fd] = NoConn PROVE fd \in FreeFds /\ nready = -1
  <2>1. fd \in FreeFds /\ fd \notin OpenFds
    BY <1>2, <1>4 DEF FreeFds, OpenFds
  <2>2. ~ReadyToRead(fd) /\ ~(fd > mxfd) /\ Unswept(fd)
    BY <1>1, <1>2, <1>4, Typing DEF ReadyToRead, Unswept
  <2> QED
    BY <1>1, <2>1, <2>2 DEF SweepInv, ReportsKept
<1> QED
  BY <1>1, <1>2, <1>3, <1>4

\* After select has failed, recv fails on a closed descriptor.
LEMMA ReceiveStrayInv ==
  ASSUME SweepInv, Receive, cur' \in FreeFds
  PROVE  SweepInv' /\ (ReadyFresh => ReadyFresh')
<1> USE DEF SweepInv
<1>1. PICK fd \in Remaining, cnt \in -1..BufferLength :
        /\ RecvOn(fd, cnt)
        /\ cur' = fd
        /\ \/ AtEnd(cnt) /\ CloseFd(fd) /\ Unwatch(fd) /\ UNCHANGED <<pc, count>>
           \/ /\ ~AtEnd(cnt)
              /\ pc' = "send"
              /\ count' = cnt
              /\ UNCHANGED <<fdtab, done, watched>>
  BY DEF Receive
<1>2. /\ pc = "sweep" /\ TypeOK
      /\ UNCHANGED <<sent, unread, backlog, nready, mxfd, ready, echoed>>
  BY DEF Receive
<1>3. fd \in FreeFds /\ fdtab[fd] = NoConn /\ nready = -1 /\ fd \in AllFds /\ cur < fd
      /\ NoConn \notin Conns
  BY <1>1, <1>2, RemainingOpen, Typing DEF FreeFds
<1>4. /\ cnt = -1 /\ UNCHANGED <<peer, nread, fdtab, done, watched>>
      /\ pc' = "send" /\ count' = -1 /\ OpenFds' = OpenFds /\ FreeFds' = FreeFds
  BY <1>1, <1>3 DEF RecvOn, AtEnd, OpenFds, FreeFds
<1>5. TypeOK'
  BY <1>1, <1>2, <1>3, <1>4 DEF TypeOK, TcpTypeOK
<1>6. Dormant' /\ SendsToOpen'
  BY <1>1, <1>2, <1>3, <1>4 DEF Dormant, SendsToOpen, OnStray
<1>7. Ownership'
  BY <1>2, <1>4 DEF Ownership
<1>8. NothingLost'
  BY <1>1, <1>2, <1>3, <1>4 DEF NothingLost, Pending, Broken
<1>9. ASSUME ReadyFresh, NEW g \in ready, Unswept(g)' PROVE ReadyToRead(g)'
  <2>1. Unswept(g)
    BY <1>1, <1>2, <1>3, <1>4, <1>9, Typing DEF Unswept, TypeOK
  <2> QED
    BY <1>2, <1>4, <1>9, <2>1 DEF ReadyFresh, ReadyToRead, Readable, Avail
<1> QED
  BY <1>2, <1>3, <1>5, <1>6, <1>7, <1>8, <1>9 DEF ReadyFresh

\* Otherwise recv is called for an open descriptor.
LEMMA ReceiveOpenInv ==
  ASSUME SweepInv, Receive, cur' \notin FreeFds
  PROVE  SweepInv' /\ (ReadyFresh => ReadyFresh')
<1> USE DEF SweepInv
<1>1. PICK fd \in Remaining, cnt \in -1..BufferLength :
        /\ RecvOn(fd, cnt)
        /\ cur' = fd
        /\ \/ AtEnd(cnt) /\ CloseFd(fd) /\ Unwatch(fd) /\ UNCHANGED <<pc, count>>
           \/ /\ ~AtEnd(cnt)
              /\ pc' = "send"
              /\ count' = cnt
              /\ UNCHANGED <<fdtab, done, watched>>
  BY DEF Receive
<1>2. /\ pc = "sweep" /\ TypeOK
      /\ UNCHANGED <<sent, unread, backlog, nready, mxfd, ready, echoed>>
  BY DEF Receive
<1> DEFINE c == fdtab[fd]
<1>3. /\ fd \in Fds /\ fd \in ready /\ cur < fd /\ fd <= mxfd /\ fd \in Nat /\ cur \in Nat
      /\ fd # ListenFd /\ fd \in AllFds
  BY <1>1, <1>2, RemainingOpen, Typing
<1>4. fd \in OpenFds /\ c \in Conns /\ peer[c] # "idle" /\ c # NoConn
  <2>1. fd \in OpenFds /\ c \in Conns /\ c # NoConn
    BY <1>1, <1>2, <1>3, RemainingOpen DEF FreeFds
  <2> QED
    BY <2>1 DEF Ownership
<1>5. /\ nread' \in [Conns -> 0..MaxSend] /\ nread'[c] <= sent[c]
      /\ peer' \in [Conns -> PeerState]
      /\ \A d \in Conns : d # c => nread'[d] = nread[d] /\ peer'[d] = peer[d]
      /\ peer'[c] # "idle"
      /\ cnt = 0 => UNCHANGED <<nread, peer>>
      /\ cnt # 0 => \/ nread'[c] = nread[c] + cnt /\ peer' = peer /\ cnt > 0
                    \/ peer'[c] = "dead"
  <2>1. Recv(c, BufferLength, cnt)
    BY <1>1, <1>4 DEF RecvOn
  <2> QED
    BY <1>2, <1>4, <2>1, RecvEffect
<1>6. \A g \in Fds : g # fd => fdtab'[g] = fdtab[g]
  BY <1>1, <1>2 DEF CloseFd, TypeOK, TcpTypeOK
<1>7. /\ OpenFds' = IF cnt = 0 THEN OpenFds \ {fd} ELSE OpenFds
      /\ FreeFds' = IF cnt = 0 THEN FreeFds \cup {fd} ELSE FreeFds
      /\ watched' = IF cnt = 0 THEN watched \ {fd} ELSE watched
      /\ fdtab' \in [Fds -> Conns \cup {NoConn}] /\ done' \subseteq Conns
      /\ pc' = IF cnt = 0 THEN "sweep" ELSE "send"
      /\ count' \in -1..BufferLength
  <2>1. /\ fdtab \in [Fds -> Conns \cup {NoConn}] /\ done \subseteq Conns
        /\ count \in -1..BufferLength
    BY <1>2 DEF TypeOK, TcpTypeOK
  <2>2. CASE cnt = 0
    <3>1. /\ fdtab' = [fdtab EXCEPT ![fd] = NoConn] /\ done' = done \cup {c}
          /\ watched' = watched \ {fd} /\ UNCHANGED <<pc, count>>
      BY <1>1, <1>4, <2>2, Typing DEF AtEnd, CloseFd, Unwatch
    <3>2. fdtab' \in [Fds -> Conns \cup {NoConn}] /\ fdtab'[fd] = NoConn
      BY <1>3, <2>1, <3>1
    <3>3. OpenFds' = OpenFds \ {fd} /\ FreeFds' = FreeFds \cup {fd}
      BY <1>3, <1>6, <3>2 DEF OpenFds, FreeFds
    <3> QED
      BY <1>2, <1>4, <2>1, <2>2, <3>1, <3>2, <3>3
  <2>3. CASE cnt # 0
    BY <1>1, <2>1, <2>3 DEF AtEnd, OpenFds, FreeFds
  <2> QED
    BY <2>2, <2>3
<1>8. TypeOK'
  <2>1. \A d \in Conns : nread'[d] <= sent'[d]
    BY <1>2, <1>5 DEF TypeOK, TcpTypeOK
  <2>2. watched' \subseteq AllFds
    BY <1>2, <1>7 DEF TypeOK
  <2> QED
    BY <1>1, <1>2, <1>3, <1>5, <1>7, <2>1, <2>2 DEF TypeOK, TcpTypeOK
<1>9. Dormant' /\ SendsToOpen'
  <2>1. Dormant'
    BY <1>7 DEF Dormant
  <2>2. cnt # 0 => fdtab' = fdtab /\ count' = cnt /\ (cnt > 0 \/ peer'[c] = "dead")
    BY <1>1, <1>5 DEF AtEnd
  <2> QED
    BY <1>1, <1>4, <1>7, <2>1, <2>2 DEF SendsToOpen, Broken
<1>10. Ownership'
  <2>0. done' = IF cnt = 0 THEN done \cup {c} ELSE done
    BY <1>1, <1>2, <1>4, Typing DEF AtEnd, CloseFd
  <2>1. \A d \in Conns : peer[d] # "idle" => peer'[d] # "idle"
    BY <1>5
  <2>2. ASSUME NEW g \in OpenFds'
        PROVE  /\ fdtab'[g] \notin done' /\ peer'[fdtab'[g]] # "idle"
               /\ \A other \in OpenFds' : fdtab'[other] = fdtab'[g] => other = g
    <3>1. \A h \in OpenFds' : h \in OpenFds /\ fdtab'[h] = fdtab[h]
      <4>1. CASE cnt = 0
        BY <1>2, <1>6, <1>7, <4>1, Typing
      <4>2. CASE cnt # 0
        BY <1>1, <1>7, <4>2 DEF AtEnd
      <4> QED
        BY <4>1, <4>2
    <3>2. fdtab[g] \notin done'
      <4>1. CASE cnt = 0
        BY <1>4, <1>7, <2>0, <3>1, <4>1 DEF Ownership
      <4>2. CASE cnt # 0
        BY <1>7, <2>0, <3>1, <4>2 DEF Ownership
      <4> QED
        BY <4>1, <4>2
    <3> QED
      BY <1>2, <2>1, <3>1, <3>2, Typing DEF Ownership
  <2>3. ASSUME NEW j \in 1..Len(backlog)
        PROVE  /\ backlog[j] \notin done' /\ peer'[backlog[j]] # "idle"
               /\ \A g \in Fds : fdtab'[g] # backlog[j]
    <3>0. backlog \in Seq(Conns) /\ NoConn \notin Conns
      BY <1>2, Typing DEF TypeOK, TcpTypeOK
    <3>1. backlog[j] \in Conns /\ backlog[j] # NoConn
      BY <3>0, ElementOfSeq
    <3>2. \A g \in Fds : fdtab'[g] = fdtab[g] \/ fdtab'[g] = NoConn
      BY <1>1, <1>2 DEF CloseFd, TypeOK, TcpTypeOK
    <3>3. backlog[j] # c
      BY <1>3 DEF Ownership
    <3> QED
      BY <2>0, <2>1, <3>1, <3>2, <3>3 DEF Ownership
  <2>4. \A d \in done' : peer'[d] # "idle"
    BY <1>2, <1>4, <2>0, <2>1 DEF Ownership, TypeOK, TcpTypeOK
  <2> QED
    BY <1>2, <2>2, <2>3, <2>4 DEF Ownership
<1>11. \* what is reported of the others is still so
  ASSUME NEW g \in ready, Unswept(g)'
  PROVE  Unswept(g) /\ g # fd /\ (ReadyToRead(g) => ReadyToRead(g)')
  <2>1. g \in AllFds /\ g \in Nat /\ g # fd /\ Unswept(g) /\ (g \in Fds \/ g = ListenFd)
    BY <1>1, <1>2, <1>3, <1>7, <1>11, Typing DEF TypeOK, Unswept
  <2>2. ASSUME ReadyToRead(g), g # ListenFd PROVE ReadyToRead(g)'
    <3>1. g \in OpenFds /\ fdtab[g] \in Conns /\ fdtab[g] # c /\ fdtab'[g] = fdtab[g]
      BY <1>2, <1>4, <1>6, <2>1, <2>2, Typing DEF ReadyToRead, OpenFds, Ownership
    <3>2. /\ sent'[fdtab[g]] = sent[fdtab[g]] /\ nread'[fdtab[g]] = nread[fdtab[g]]
          /\ peer'[fdtab[g]] = peer[fdtab[g]]
      BY <1>2, <1>5, <3>1
    <3> QED
      BY <2>1, <2>2, <3>1, <3>2 DEF ReadyToRead, Readable, Avail
  <2>3. g = ListenFd => ReadyToRead(g)' = ReadyToRead(g)
    BY <1>2 DEF ReadyToRead
  <2> QED
    BY <2>1, <2>2, <2>3
<1>12. ReadyFresh => ReadyFresh'
  BY <1>2, <1>11 DEF ReadyFresh
<1>13. ASSUME nready # -1 PROVE ReportsKept'
  <2> SUFFICES ASSUME NEW g \in ready, Unswept(g)'
               PROVE  \/ ReadyToRead(g)'
                      \/ g > mxfd /\ g \in FreeFds' /\ Highest(g)'
                      \/ g = mxfd /\ g \in OpenFds' /\ Highest(g)'
    BY <1>2, <1>7 DEF ReportsKept
  <2>1. \/ ReadyToRead(g)
        \/ g > mxfd /\ g \in FreeFds /\ Highest(g)
        \/ g = mxfd /\ g \in OpenFds /\ Highest(g)
    BY <1>11, <1>13 DEF ReportsKept
  <2>2. Highest(g) => Highest(g)'
    BY <1>7 DEF Highest
  <2> QED
    BY <1>7, <1>11, <2>1, <2>2
<1>14. NothingLost'
  <2>1. \A d \in Conns : ~Broken(d) => echoed[d] + 0 = nread[d]
    BY <1>2 DEF NothingLost, Pending
  <2>2. \A d \in Conns : echoed[d] \in Nat /\ nread[d] \in Nat /\ echoed'[d] = echoed[d]
    BY <1>2, Typing
  <2>3. CASE cnt = 0
    BY <1>5, <1>7, <2>1, <2>2, <2>3 DEF NothingLost, Pending, Broken
  <2>4. CASE cnt # 0
    <3>1. pc' = "send" /\ cur' = fd /\ count' = cnt /\ fdtab'[fd] = c /\ cnt \in Int
      BY <1>1, <2>4 DEF AtEnd
    <3>2. ASSUME NEW d \in Conns, ~Broken(d)' PROVE echoed'[d] + Pending(d)' = nread'[d]
      <4>1. CASE d = c
        <5>1. nread'[c] = nread[c] + cnt /\ peer' = peer
          BY <1>5, <2>4, <3>2, <4>1 DEF Broken
        <5>2. echoed[c] = nread[c] /\ echoed[c] \in Nat
          BY <1>4, <2>1, <2>2, <3>2, <4>1, <5>1 DEF Broken
        <5>3. Pending(d)' = cnt
          BY <3>1, <4>1 DEF Pending
        <5> QED
          BY <2>2, <3>1, <4>1, <5>1, <5>2, <5>3
      <4>2. CASE d # c
        BY <1>5, <2>1, <2>2, <3>1, <3>2, <4>2 DEF Pending, Broken
      <4> QED
        BY <4>1, <4>2
    <3> QED
      BY <3>2 DEF NothingLost
  <2> QED
    BY <2>3, <2>4
<1> QED
  BY <1>2, <1>8, <1>9, <1>10, <1>12, <1>13, <1>14

\* send is called for an open descriptor, and what it sends is what was read;
\* or it fails on the closed one that recv has failed on.
LEMMA SendBackInv ==
  ASSUME SweepInv, SendBack
  PROVE  SweepInv' /\ (ReadyFresh => ReadyFresh')
<1> USE DEF SweepInv
<1>1. PICK res \in {"sent", "reset", "pipe", "closed"} :
        /\ SendOn(cur, res)
        /\ pc' = IF res = "pipe" THEN "killed" ELSE "sweep"
        /\ echoed' = IF res = "sent" THEN [echoed EXCEPT ![fdtab[cur]] = @ + count]
                                     ELSE echoed
  BY DEF SendBack
<1>2. /\ pc = "send" /\ TypeOK /\ count' = 0
      /\ UNCHANGED <<sent, nread, backlog, fdtab, done, nready, mxfd, watched, ready, cur>>
      /\ OpenFds' = OpenFds /\ FreeFds' = FreeFds
  BY DEF SendBack, OpenFds, FreeFds
<1> DEFINE c == fdtab[cur]
<1>3. /\ res = "closed" \/ (cur \in OpenFds /\ c \in Conns /\ c # NoConn /\ Send(c, res))
      /\ res = "closed" => c = NoConn /\ UNCHANGED <<peer, unread>>
  <2>1. CASE c # NoConn
    <3>1. Send(c, res) /\ res # "closed"
      BY <1>1, <2>1 DEF SendOn, Send
    <3>2. cur \in OpenFds /\ c \in Conns
      BY <1>2, <2>1, Typing DEF SendsToOpen, OnStray, FreeFds
    <3> QED
      BY <2>1, <3>1, <3>2
  <2>2. CASE c = NoConn
    BY <1>1, <2>2 DEF SendOn
  <2> QED
    BY <2>1, <2>2
<1>4. /\ peer \in [Conns -> PeerState] /\ unread \in [Conns -> 0..SndRoom]
      /\ echoed \in [Conns -> 0..MaxSend] /\ SndRoom \in Nat /\ NoConn \notin Conns
  BY <1>2, Typing DEF TypeOK, TcpTypeOK
<1>5. /\ peer' \in [Conns -> PeerState] /\ unread' \in [Conns -> 0..SndRoom]
      /\ \A d \in Conns : d # c => peer'[d] = peer[d]
      /\ peer' = peer \/ (peer[c] = "rst" /\ peer'[c] = "dead")
      /\ res = "sent" => ~Broken(c) /\ peer' = peer
      /\ res # "sent" => c \notin Conns \/ peer'[c] \in {"finrst", "dead"}
  <2>1. CASE res = "sent"
    BY <1>3, <1>4, <2>1 DEF Send
  <2>2. CASE res = "reset"
    BY <1>3, <1>4, <2>2 DEF Send, PeerState
  <2>3. CASE res = "pipe"
    BY <1>3, <1>4, <2>3 DEF Send
  <2>4. CASE res = "closed"
    BY <1>3, <1>4, <2>4
  <2> QED
    BY <2>1, <2>2, <2>3, <2>4
<1>6. ASSUME res = "sent"
      PROVE  echoed[c] + count = nread[c] /\ echoed'[c] = nread[c]
  <2>1. echoed[c] + count = nread[c]
    BY <1>2, <1>3, <1>5, <1>6 DEF NothingLost, Pending
  <2> QED
    BY <1>1, <1>3, <1>4, <1>6, <2>1
<1>7. \A d \in Conns : d # c => echoed'[d] = echoed[d]
  BY <1>1, <1>4
<1>8. TypeOK'
  <2>1. echoed' \in [Conns -> 0..MaxSend]
    <3>1. CASE res = "sent"
      <4>1. nread[c] \in 0..MaxSend /\ echoed[c] + count \in 0..MaxSend
        BY <1>2, <1>3, <1>6, <3>1, Typing
      <4> QED
        BY <1>1, <1>3, <1>4, <3>1, <4>1
    <3>2. CASE res # "sent"
      BY <1>1, <1>4, <3>2
    <3> QED
      BY <3>1, <3>2
  <2>2. 0 \in -1..BufferLength
    BY <1>2, Typing
  <2> QED
    BY <1>1, <1>2, <1>5, <2>1, <2>2 DEF TypeOK, TcpTypeOK
<1>9. Dormant' /\ SendsToOpen'
  BY <1>1, <1>2 DEF Dormant, SendsToOpen
<1>10. Ownership'
  <2>1. \A d \in Conns : peer[d] # "idle" => peer'[d] # "idle"
    BY <1>5
  <2>2. /\ \A j \in 1..Len(backlog) : backlog[j] \in Conns
        /\ done \subseteq Conns
    BY <1>2, ElementOfSeq DEF TypeOK, TcpTypeOK
  <2> QED
    BY <1>2, <2>1, <2>2, Typing DEF Ownership
<1>11. (nready # -1 => ReportsKept') /\ (ReadyFresh => ReadyFresh')
  <2>1. \A g \in AllFds : ReadyToRead(g) => ReadyToRead(g)'
    <3>1. \A d \in Conns : peer[d] # "up" => peer'[d] # "up"
      BY <1>5
    <3> QED
      BY <1>2, <3>1, Typing DEF ReadyToRead, Readable, Avail
  <2>2. \A g \in ready : g \in AllFds /\ (Unswept(g)' => Unswept(g))
    BY <1>1, <1>2 DEF Unswept, TypeOK
  <2> QED
    BY <1>1, <1>2, <2>1, <2>2 DEF ReadyFresh, ReportsKept, Highest
<1>12. NothingLost'
  <2> SUFFICES ASSUME NEW d \in Conns, ~Broken(d)' PROVE echoed'[d] = nread[d]
    BY <1>1, <1>2, <1>4, <1>8, Typing DEF NothingLost, Pending, TypeOK
  <2>1. CASE d = c
    BY <1>5, <1>6, <2>1 DEF Broken
  <2>2. CASE d # c
    <3>1. ~Broken(d) /\ Pending(d) = 0
      BY <1>5, <2>2 DEF Broken, Pending
    <3>2. echoed[d] + 0 = nread[d] /\ echoed[d] \in Nat
      BY <1>2, <3>1, Typing DEF NothingLost
    <3> QED
      BY <1>7, <2>2, <3>2
  <2> QED
    BY <2>1, <2>2
<1> QED
  BY <1>2, <1>8, <1>9, <1>10, <1>11, <1>12

\* What a client may change: its peer state moves on, it sends or reads, it
\* joins the accept queue; it never touches what the server keeps.
LEMMA ClientEffect ==
  ASSUME SweepInv, NEW c \in Conns, ClientStep(c)
  PROVE  /\ UNCHANGED <<nread, fdtab, done, pc, nready, mxfd, watched, ready, cur, count, echoed>>
         /\ peer' \in [Conns -> PeerState]
         /\ sent' \in [Conns -> 0..MaxSend] /\ unread' \in [Conns -> 0..SndRoom]
         /\ \A d \in Conns : /\ sent[d] <= sent'[d]
                             /\ peer[d] \notin {"up", "idle"} => peer'[d] # "up"
                             /\ Broken(d) => Broken(d)'
                             /\ peer[d] # "idle" => peer'[d] # "idle"
                             /\ d # c => peer'[d] = peer[d]
         /\ \/ backlog' = backlog
            \/ /\ peer[c] = "idle" /\ peer'[c] # "idle"
               /\ backlog' = Append(backlog, c)
<1>1. /\ UNCHANGED <<pc, nready, mxfd, watched, ready, cur, count, echoed>>
      /\ Client(c)
  BY DEF ClientStep, sweepVars
<1>2. /\ peer \in [Conns -> PeerState] /\ sent \in [Conns -> 0..MaxSend]
      /\ unread \in [Conns -> 0..SndRoom]
      /\ MaxSend \in Nat /\ SndRoom \in Nat
  BY TcpAssumption DEF SweepInv, TypeOK, TcpTypeOK, TcpAssumption
<1> USE DEF Broken, PeerState
<1>3. CASE Connect(c)
  BY <1>1, <1>2, <1>3 DEF Connect
<1>4. CASE ClientSend(c)
  BY <1>1, <1>2, <1>4 DEF ClientSend
<1>5. CASE ClientRead(c)
  BY <1>1, <1>2, <1>5 DEF ClientRead
<1>6. CASE ClientFin(c)
  BY <1>1, <1>2, <1>6 DEF ClientFin
<1>7. CASE ClientRst(c)
  <2>1. CASE peer[c] = "up" /\ peer' = [peer EXCEPT ![c] = "rst"]
    BY <1>1, <1>2, <1>7, <2>1 DEF ClientRst
  <2>2. CASE peer[c] = "fin" /\ peer' = [peer EXCEPT ![c] = "finrst"]
    BY <1>1, <1>2, <1>7, <2>2 DEF ClientRst
  <2> QED
    BY <1>7, <2>1, <2>2 DEF ClientRst
<1> QED
  BY <1>1, <1>3, <1>4, <1>5, <1>6, <1>7 DEF Client

\* Whatever a client does meanwhile, what was reported stays true of it.
LEMMA ClientInv ==
  ASSUME SweepInv, NEW c \in Conns, ClientStep(c)
  PROVE  SweepInv' /\ (ReadyFresh => ReadyFresh')
<1> USE DEF SweepInv
<1>1. /\ UNCHANGED <<nread, fdtab, done, pc, nready, mxfd, watched, ready, cur, count, echoed>>
      /\ peer' \in [Conns -> PeerState]
      /\ sent' \in [Conns -> 0..MaxSend] /\ unread' \in [Conns -> 0..SndRoom]
      /\ OpenFds' = OpenFds /\ FreeFds' = FreeFds /\ TypeOK /\ backlog \in Seq(Conns)
  BY ClientEffect DEF OpenFds, FreeFds, TypeOK, TcpTypeOK
<1>2. \A d \in Conns : /\ sent[d] <= sent'[d]
                       /\ peer[d] \notin {"up", "idle"} => peer'[d] # "up"
                       /\ Broken(d) => Broken(d)'
                       /\ peer[d] # "idle" => peer'[d] # "idle"
  BY ClientEffect
<1>3. \/ backlog' = backlog
      \/ /\ peer[c] = "idle" /\ peer'[c] # "idle"
         /\ backlog' = Append(backlog, c)
  BY ClientEffect
<1>4. backlog' \in Seq(Conns) /\ (backlog # <<>> => backlog' # <<>>)
  <2>1. backlog \in Seq(Conns)
    BY <1>1
  <2>2. Append(backlog, c) \in Seq(Conns) /\ Append(backlog, c) # <<>>
    BY <2>1, AppendProperties
  <2> QED
    BY <1>3, <2>1, <2>2
<1>5. \A d \in Conns : /\ nread[d] \in Nat /\ sent[d] \in Nat /\ sent'[d] \in Nat
                       /\ nread[d] <= sent[d] /\ nread[d] <= sent'[d]
                       /\ sent[d] - nread[d] > 0 => sent'[d] - nread[d] > 0
  <2>1. \A d \in Conns : nread[d] \in Nat /\ sent[d] \in Nat /\ nread[d] <= sent[d]
    BY <1>1, Typing
  <2>2. \A d \in Conns : sent'[d] \in Nat
    BY <1>1, TcpAssumption DEF TcpAssumption
  <2> QED
    BY <1>2, <2>1, <2>2
<1>6. TypeOK'
  BY <1>1, <1>4, <1>5 DEF TypeOK, TcpTypeOK
<1>7. Dormant' /\ SendsToOpen'
  <2>1. Dormant'
    BY <1>1 DEF Dormant
  <2>2. SendsToOpen'
    BY <1>1, <1>2, Typing DEF SendsToOpen, OnStray
  <2> QED
    BY <2>1, <2>2
<1>8. (nready # -1 => ReportsKept') /\ (ReadyFresh => ReadyFresh')
  <2>1. ASSUME NEW g \in AllFds, ReadyToRead(g) PROVE ReadyToRead(g)'
    <3>1. CASE g = ListenFd
      BY <1>4, <2>1, <3>1 DEF ReadyToRead
    <3>2. CASE g # ListenFd
      <4>1. g \in OpenFds /\ fdtab[g] \in Conns /\ peer[fdtab[g]] # "idle"
            /\ Readable(fdtab[g]) /\ fdtab[g] # NoConn
        BY <1>1, <2>1, <3>2, Typing DEF ReadyToRead, OpenFds, Ownership
      <4> QED
        BY <1>1, <1>2, <1>5, <3>2, <4>1 DEF ReadyToRead, Readable, Avail
    <3> QED
      BY <3>1, <3>2
  <2>2. \A g \in ready : g \in AllFds /\ Unswept(g)' = Unswept(g)
    BY <1>1 DEF Unswept, TypeOK
  <2> QED
    BY <1>1, <2>1, <2>2 DEF ReadyFresh, ReportsKept, Highest
<1>9. Ownership'
  <2>1. ASSUME NEW j \in 1..Len(backlog')
        PROVE  /\ backlog'[j] \notin done /\ peer'[backlog'[j]] # "idle"
               /\ \A fd \in Fds : fdtab[fd] # backlog'[j]
               /\ \A k \in 1..Len(backlog') : backlog'[k] = backlog'[j] => k = j
    <3>0. \A k \in 1..Len(backlog) : backlog[k] \in Conns
      BY <1>1, ElementOfSeq
    <3>1. CASE backlog' = backlog
      BY <1>2, <3>0, <3>1 DEF Ownership
    <3>2. CASE peer[c] = "idle" /\ peer'[c] # "idle" /\ backlog' = Append(backlog, c)
      <4>1. /\ Len(backlog) \in Nat /\ Len(backlog') = Len(backlog) + 1
            /\ \A k \in 1..Len(backlog') :
                 backlog'[k] = IF k = Len(backlog) + 1 THEN c ELSE backlog[k]
        BY <1>1, <3>2, AppendElements
      <4>2. \A fd \in Fds : fdtab[fd] # c
        BY <3>2, TcpAssumption DEF Ownership, OpenFds, TcpAssumption
      <4>3. \A k \in 1..Len(backlog) : backlog[k] # c
        BY <3>2 DEF Ownership
      <4>4. CASE j = Len(backlog) + 1
        BY <3>2, <4>1, <4>2, <4>3, <4>4 DEF Ownership
      <4>5. CASE j \in 1..Len(backlog)
        <5>1. /\ backlog[j] \notin done /\ peer[backlog[j]] # "idle"
              /\ \A fd \in Fds : fdtab[fd] # backlog[j]
              /\ \A k \in 1..Len(backlog) : backlog[k] = backlog[j] => k = j
          BY <4>5 DEF Ownership
        <5>2. backlog'[j] = backlog[j] /\ backlog[j] \in Conns
          BY <3>0, <4>1, <4>5
        <5>3. \A k \in 1..Len(backlog') : backlog'[k] = backlog'[j] => k = j
          BY <4>1, <4>3, <4>5, <5>1, <5>2
        <5> QED
          BY <1>2, <5>1, <5>2, <5>3
      <4> QED
        BY <4>1, <4>4, <4>5
    <3> QED
      BY <1>3, <3>1, <3>2
  <2>2. done \subseteq Conns
    BY <1>1 DEF TypeOK, TcpTypeOK
  <2> QED
    BY <1>1, <1>2, <2>1, <2>2, Typing DEF Ownership
<1>10. NothingLost'
  BY <1>1, <1>2 DEF NothingLost, Pending
<1> QED
  BY <1>1, <1>6, <1>7, <1>8, <1>9, <1>10

-----------------------------------------------------------------------------
(* What SweepInv gives. *)

LEMMA StutterInv ==
  ASSUME SweepInv, UNCHANGED vars
  PROVE  SweepInv' /\ (ReadyFresh => ReadyFresh')
<1>1. UNCHANGED <<peer, sent, nread, unread, backlog, fdtab, done, pc, nready, mxfd,
                  watched, ready, cur, count, echoed>>
  BY DEF vars, tcpVars, sweepVars
<1>2. OpenFds' = OpenFds /\ FreeFds' = FreeFds
  BY <1>1 DEF OpenFds, FreeFds
<1>3. TypeOK' /\ Dormant' /\ SendsToOpen'
  BY <1>1, <1>2 DEF SweepInv, TypeOK, TcpTypeOK, Dormant, SendsToOpen, OnStray, Broken
<1>4. Ownership' /\ (nready # -1 => ReportsKept') /\ (ReadyFresh => ReadyFresh')
  BY <1>1, <1>2 DEF SweepInv, Ownership, ReadyFresh, ReportsKept, Unswept, Highest,
     ReadyToRead, Readable, Avail
<1>5. NothingLost'
  BY <1>1 DEF SweepInv, NothingLost, Pending, Broken
<1> QED
  BY <1>1, <1>3, <1>4, <1>5 DEF SweepInv

\* The steps that both servers take in the same way.
SharedStep ==
  \/ Boot \/ NothingToAccept \/ SweepFds
  \/ \E fd \in Fds : Accepted(fd) /\ UNCHANGED ready
  \/ \E c \in Conns : ClientStep(c)
  \/ UNCHANGED vars

LEMMA SharedStepInv ==
  ASSUME SweepInv, SharedStep
  PROVE  SweepInv' /\ (ReadyFresh => ReadyFresh') /\ UNCHANGED nready
<1>1. CASE Boot
  BY <1>1, BootInv DEF Boot
<1>2. CASE NothingToAccept
  BY <1>2, NothingToAcceptInv DEF NothingToAccept
<1>3. CASE Receive
  BY <1>3, ReceiveStrayInv, ReceiveOpenInv DEF Receive
<1>4. CASE SendBack
  BY <1>4, SendBackInv DEF SendBack
<1>5. CASE SweepDone
  BY <1>5, SweepDoneInv DEF SweepDone
<1>6. ASSUME NEW fd \in Fds, Accepted(fd), UNCHANGED ready
      PROVE  SweepInv' /\ (ReadyFresh => ReadyFresh') /\ UNCHANGED nready
  BY <1>6, AcceptedInv DEF Accepted
<1>7. ASSUME NEW c \in Conns, ClientStep(c)
      PROVE  SweepInv' /\ (ReadyFresh => ReadyFresh') /\ UNCHANGED nready
  BY <1>7, ClientInv DEF ClientStep, sweepVars
<1>8. CASE UNCHANGED vars
  BY <1>8, StutterInv DEF vars, sweepVars
<1> QED
  BY <1>1, <1>2, <1>3, <1>4, <1>5, <1>6, <1>7, <1>8 DEF SharedStep, SweepFds

\* The shared steps put a descriptor into rfds, or fds, when they open it, take
\* it out when they close it, and never lower mxfd.
LEMMA SharedWatch ==
  ASSUME SweepInv, SharedStep
  PROVE  /\ Running' => Running \/ (pc = "boot" /\ watched' = {ListenFd})
         /\ \/ OpenFds' = OpenFds /\ (watched' = watched \/ pc = "boot") /\ mxfd' = mxfd
            \/ \E fd \in Fds : /\ OpenFds' = OpenFds \ {fd} /\ watched' = watched \ {fd}
                               /\ mxfd' = mxfd
            \/ \E fd \in Fds : /\ OpenFds' = OpenFds \cup {fd} /\ watched' = watched \cup {fd}
                               /\ mxfd' = Raised(fd)
<1> USE DEF Running
<1>1. CASE Boot
  BY <1>1 DEF Boot, OpenFds, tcpVars
<1>2. CASE NothingToAccept \/ SweepDone
  BY <1>2 DEF NothingToAccept, SweepDone, OpenFds, tcpVars
<1>3. CASE SendBack
  BY <1>3 DEF SendBack, OpenFds
<1>4. CASE Receive
  <2>1. PICK fd \in Remaining, cnt \in -1..BufferLength :
          \/ CloseFd(fd) /\ Unwatch(fd) /\ UNCHANGED <<pc, count>>
          \/ UNCHANGED <<fdtab, done, watched>>
    BY <1>4 DEF Receive
  <2>2. pc = "sweep" /\ fd \in Fds /\ UNCHANGED mxfd
    BY <1>4, RemainingOpen DEF Receive
  <2>3. CASE CloseFd(fd) /\ Unwatch(fd)
    BY <2>2, <2>3 DEF CloseFd, Unwatch, OpenFds, SweepInv, TypeOK, TcpTypeOK
  <2>4. CASE UNCHANGED <<fdtab, done, watched>>
    BY <2>2, <2>4 DEF OpenFds
  <2> QED
    BY <2>1, <2>3, <2>4
<1>5. ASSUME NEW fd \in Fds, Accepted(fd)
      PROVE  /\ Running
             /\ OpenFds' = OpenFds \cup {fd} /\ watched' = watched \cup {fd}
             /\ mxfd' = Raised(fd)
  <2>1. backlog \in Seq(Conns) /\ backlog # <<>> /\ fdtab \in [Fds -> Conns \cup {NoConn}]
    BY <1>5 DEF SweepInv, TypeOK, TcpTypeOK, Accepted, AcceptConn
  <2>2. Head(backlog) \in Conns /\ NoConn \notin Conns
    BY <2>1, TailElements, TcpAssumption DEF TcpAssumption
  <2> QED
    BY <1>5, <2>1, <2>2 DEF Accepted, AcceptConn, OpenFds
<1>6. ASSUME NEW c \in Conns, ClientStep(c)
      PROVE  OpenFds' = OpenFds /\ watched' = watched /\ mxfd' = mxfd /\ pc' = pc
  BY <1>6, ClientEffect DEF OpenFds
<1>7. CASE UNCHANGED vars
  BY <1>7 DEF vars, tcpVars, sweepVars, OpenFds
<1> QED
  BY <1>1, <1>2, <1>3, <1>4, <1>5, <1>6, <1>7 DEF SharedStep, SweepFds

\* So they keep rfds, or fds, exact, but for descriptors that are stray.
LEMMA WatchesKept ==
  ASSUME SweepInv, SharedStep, NEW stray, Running => Watches(stray)
  PROVE  Running' => Watches(stray)'
<1>1. \A fd \in Fds : fd # ListenFd
  BY Typing DEF SweepInv
<1>2. pc = "boot" => OpenFds' = {}
  <2>1. CASE pc = "boot"
    <3>1. Boot \/ (\E c \in Conns : ClientStep(c)) \/ UNCHANGED vars
      BY <2>1 DEF SharedStep, NothingToAccept, SweepFds, Receive, SendBack, SweepDone, Accepted
    <3>2. UNCHANGED fdtab
      BY <3>1, ClientEffect DEF Boot, vars, tcpVars
    <3> QED
      BY <2>1, <3>2 DEF SweepInv, Dormant, OpenFds
  <2> QED
    BY <2>1
<1>3. ASSUME Running', Running PROVE Watches(stray)'
  <2>1. pc # "boot" /\ OpenFds \cup {ListenFd} \subseteq watched
        /\ watched \subseteq OpenFds \cup {ListenFd} \cup stray
    BY <1>3 DEF Running, Watches
  <2>2. /\ OpenFds' \cup {ListenFd} \subseteq watched'
        /\ watched' \subseteq OpenFds' \cup {ListenFd} \cup stray
    BY <1>1, <2>1, SharedWatch
  <2> QED
    BY <2>2 DEF Watches
<1>4. ASSUME Running', ~Running PROVE Watches(stray)'
  BY <1>2, <1>4, SharedWatch DEF Watches
<1> QED
  BY <1>3, <1>4

\* And mxfd goes on covering the open descriptors.
LEMMA CoversKept ==
  ASSUME SweepInv, SharedStep, MxfdCoversOpen
  PROVE  MxfdCoversOpen'
<1>1. /\ mxfd \in Int /\ \A fd \in Fds : fd \in Int
      /\ \A fd \in OpenFds \cup {ListenFd} : fd \in Int
  BY Typing DEF SweepInv
<1>2. ASSUME Running' PROVE \A fd \in OpenFds \cup {ListenFd} : fd <= mxfd
  <2>1. CASE Running
    BY <2>1 DEF MxfdCoversOpen
  <2>2. CASE ~Running
    BY <1>1, <1>2, <2>2, SharedWatch DEF SweepInv, Dormant
  <2> QED
    BY <2>1, <2>2
<1>3. ASSUME Running', NEW fd \in OpenFds' \cup {ListenFd} PROVE fd <= mxfd'
  <2>1. CASE mxfd' = mxfd /\ OpenFds' \subseteq OpenFds
    BY <1>2, <1>3, <2>1
  <2>2. ASSUME NEW g \in Fds, OpenFds' = OpenFds \cup {g}, mxfd' = Raised(g)
        PROVE  fd <= mxfd'
    <3>1. g <= mxfd' /\ mxfd <= mxfd' /\ mxfd' \in Int
      BY <1>1, <2>2 DEF Raised
    <3>2. CASE fd = g
      BY <3>1, <3>2
    <3>3. CASE fd # g
      <4>1. fd <= mxfd /\ fd \in Int
        BY <1>1, <1>2, <1>3, <2>2, <3>3
      <4> QED
        BY <1>1, <3>1, <4>1
    <3> QED
      BY <3>2, <3>3
  <2> QED
    BY <2>1, <2>2, SharedWatch
<1> QED
  BY <1>3 DEF MxfdCoversOpen

LEMMA ImpliesNeverWaits ==
  ASSUME SweepInv, nready # -1 => ReadyFresh
  PROVE  NeverWaits
<1>1. \A fd \in Remaining : fd \in ready /\ cur < fd
  BY DEF Remaining
<1> QED
  BY <1>1 DEF NeverWaits, ReadyFresh, Unswept

LEMMA ImpliesWaitsOnlyForNewest ==
  ASSUME SweepInv
  PROVE  WaitsOnlyForNewest
<1> SUFFICES ASSUME nready # -1 PROVE WaitsOnlyForNewest
  BY DEF WaitsOnlyForNewest
<1>1. ASSUME pc = "accept", ListenFd \in ready PROVE ReadyToRead(ListenFd)
  <2>1. ListenFd \notin FreeFds
    BY Typing DEF SweepInv
  <2> QED
    BY <1>1, <2>1 DEF SweepInv, ReportsKept, Unswept
<1>2. ASSUME pc \in {"accept", "sweep", "send"}, NEW fd \in Remaining
      PROVE  fd \in OpenFds /\ (ReadyToRead(fd) \/ (fd = mxfd /\ Highest(fd) /\ pc # "accept"))
  <2>1. /\ fd \in ready /\ cur < fd /\ fd <= mxfd
        /\ fd \in Fds /\ fd # ListenFd /\ fd \in Nat /\ cur \in Nat /\ mxfd \in Int
    <3>1. fd \in ready /\ cur < fd /\ fd <= mxfd /\ fd \in AllFds
      BY DEF Remaining, SweepInv, TypeOK
    <3> QED
      BY <3>1, Typing DEF SweepInv
  <2>2. Unswept(fd) /\ ~(fd > mxfd)
    BY <1>2, <2>1 DEF Unswept
  <2>3. ReadyToRead(fd) => fd \in OpenFds
    BY <2>1 DEF ReadyToRead, OpenFds
  <2> QED
    BY <2>1, <2>2, <2>3 DEF SweepInv, ReportsKept
<1> QED
  BY <1>1, <1>2 DEF WaitsOnlyForNewest

\* Only the sweep closes descriptors, when recv returns 0; and it never asks
\* recv for 0 bytes.
LEMMA ClosesAtEnd ==
  ASSUME SweepInv, Receive
  PROVE  \A c \in done' \ done : peer[c] \notin {"up", "rst"} /\ Avail(c) = 0
<1>1. PICK fd \in Remaining, cnt \in -1..BufferLength :
        /\ RecvOn(fd, cnt)
        /\ \/ AtEnd(cnt) /\ CloseFd(fd)
           \/ ~AtEnd(cnt) /\ UNCHANGED done
  BY DEF Receive
<1>2. CASE ~AtEnd(cnt)
  BY <1>1, <1>2
<1>3. CASE AtEnd(cnt)
  <2>1. pc = "sweep" /\ TypeOK /\ cnt = 0
    BY <1>3 DEF SweepInv, Receive, AtEnd
  <2>2. fdtab[fd] # NoConn /\ Recv(fdtab[fd], BufferLength, cnt)
    BY <1>1, <2>1 DEF RecvOn
  <2>3. fdtab[fd] \in Conns
    BY <2>1, <2>2, RemainingOpen
  <2>4. Avail(fdtab[fd]) = 0 /\ peer[fdtab[fd]] \in {"fin", "finrst", "dead"}
    BY <2>1, <2>2, <2>3, RecvEffect
  <2> QED
    BY <1>1, <1>3, <2>4 DEF CloseFd
<1> QED
  BY <1>2, <1>3

-----------------------------------------------------------------------------
(* Every step that the two servers share is a step of the conversation with *)
(* one client, or none: the parts of TakesTurns.                            *)

TalkStep == [Talk!Next]_(Talk!conversationVars)

\* Nothing that the conversations are about changes.
LEMMA TalkStutters ==
  ASSUME UNCHANGED <<nread, echoed>>,
         \A c \in Conns : Phase(c)' = Phase(c) /\ Broken(c)' = Broken(c)
  PROVE  TalkStep
<1>1. [c \in Conns |-> Phase(c)]' = [c \in Conns |-> Phase(c)]
  OBVIOUS
<1>2. {c \in Conns : Broken(c)}' = {c \in Conns : Broken(c)}
  OBVIOUS
<1> QED
  BY <1>1, <1>2 DEF TalkStep, Talk!conversationVars

LEMMA TalkInit ==
  ASSUME SweepInit
  PROVE  Talk!Init
<1>1. \A c \in Conns : FdsOf(c) = {} /\ ~Broken(c)
  BY TcpAssumption DEF SweepInit, TcpInit, FdsOf, Broken, TcpAssumption
<1>2. \A c \in Conns : Phase(c) = "waiting"
  BY <1>1 DEF SweepInit, TcpInit, Phase
<1>3. [c \in Conns |-> Phase(c)] = [c \in Conns |-> "waiting"]
  BY <1>2
<1>4. {c \in Conns : Broken(c)} = {}
  BY <1>1
<1>5. nread = [c \in Conns |-> 0] /\ echoed = [c \in Conns |-> 0]
  BY DEF SweepInit, TcpInit
<1> QED
  BY <1>3, <1>4, <1>5 DEF Talk!Init

\* Where a conversation stands, by what the server holds.
LEMMA PhaseOver ==
  ASSUME NEW c \in Conns, c \in done
  PROVE  Phase(c) = "over"
BY DEF Phase

LEMMA PhaseWaiting ==
  ASSUME NEW c \in Conns, c \notin done, FdsOf(c) = {}
  PROVE  Phase(c) = "waiting"
BY DEF Phase

LEMMA PhaseAnswering ==
  ASSUME NEW c \in Conns, c \notin done, FdsOf(c) # {},
         pc \in {"send", "killed"}, cur \in FdsOf(c)
  PROVE  Phase(c) = "answering"
BY DEF Phase

LEMMA PhaseListening ==
  ASSUME NEW c \in Conns, c \notin done, FdsOf(c) # {},
         pc \notin {"send", "killed"}
  PROVE  Phase(c) = "listening"
BY DEF Phase

\* One conversation takes a turn while the others stay where they are.
LEMMA TurnTaken ==
  ASSUME NEW c \in Conns, NEW from, NEW to, Phase(c) = from, Phase(c)' = to,
         \A d \in Conns : d # c => Phase(d)' = Phase(d)
  PROVE  Talk!Turn(c, from, to)
<1>1. [d \in Conns |-> Phase(d)][c] = from
  OBVIOUS
<1>2. [d \in Conns |-> Phase(d)]' = [[d \in Conns |-> Phase(d)] EXCEPT ![c] = to]
  OBVIOUS
<1> QED
  BY <1>1, <1>2 DEF Talk!Turn

LEMMA SameBroken ==
  ASSUME \A d \in Conns : Broken(d)' = Broken(d)
  PROVE  {d \in Conns : Broken(d)}' = {d \in Conns : Broken(d)}
OBVIOUS

\* A step that is not about sending, closing or accepting.
LEMMA IdleTalk ==
  ASSUME UNCHANGED <<tcpVars, echoed>>,
         pc \notin {"send", "killed"}, pc' \notin {"send", "killed"}
  PROVE  TalkStep
<1>1. UNCHANGED <<peer, nread, fdtab, done>>
  BY DEF tcpVars
<1>2. \A c \in Conns : FdsOf(c)' = FdsOf(c)
  BY <1>1 DEF FdsOf
<1>3. \A c \in Conns : Phase(c)' = Phase(c)
  BY <1>1, <1>2 DEF Phase
<1>4. \A c \in Conns : Broken(c)' = Broken(c)
  BY <1>1 DEF Broken
<1> QED
  BY <1>1, <1>3, <1>4, TalkStutters

\* An open descriptor is the only one of its connection.
LEMMA OwnDescriptor ==
  ASSUME SweepInv, NEW fd \in OpenFds
  PROVE  /\ fdtab[fd] \in Conns /\ FdsOf(fdtab[fd]) = {fd} /\ fdtab[fd] \notin done
         /\ \A d \in Conns : d # fdtab[fd] => fd \notin FdsOf(d)
<1>1. fd \in Fds /\ fdtab[fd] \in Conns /\ NoConn \notin Conns
  BY Typing DEF SweepInv
<1>2. \A g \in Fds : fdtab[g] = fdtab[fd] => g \in OpenFds
  BY <1>1 DEF OpenFds
<1> QED
  BY <1>1, <1>2 DEF SweepInv, Ownership, FdsOf

\* accept admits the client.
LEMMA AcceptedTalk ==
  ASSUME SweepInv, NEW fd \in Fds, Accepted(fd)
  PROVE  TalkStep
<1>1. TypeOK /\ backlog \in Seq(Conns) /\ backlog # <<>>
  BY DEF SweepInv, TypeOK, TcpTypeOK, Accepted, AcceptConn
<1>2. Head(backlog) \in Conns /\ Head(backlog) = backlog[1] /\ 1 \in 1..Len(backlog)
  BY <1>1, TailElements
<1>3. PICK c \in Conns : c = Head(backlog) /\ c = backlog[1]
  BY <1>2
<1>4. c \notin done /\ FdsOf(c) = {}
  BY <1>2, <1>3 DEF SweepInv, Ownership, FdsOf
<1>5. /\ fdtab[fd] = NoConn /\ fdtab'[fd] = c
      /\ \A g \in Fds : g # fd => fdtab'[g] = fdtab[g]
  BY <1>1, <1>3 DEF Accepted, AcceptConn, FreeFds, TypeOK, TcpTypeOK
<1>6. FdsOf(c)' = {fd}
  BY <1>4, <1>5 DEF FdsOf
<1>7. \A d \in Conns : d # c => FdsOf(d)' = FdsOf(d)
  BY <1>5, TcpAssumption DEF FdsOf, TcpAssumption
<1>8. pc = "accept" /\ pc' = "sweep" /\ UNCHANGED <<peer, nread, echoed, done>>
  BY DEF Accepted
<1>9. Phase(c) = "waiting"
  BY <1>4, PhaseWaiting
<1>10. Phase(c)' = "listening"
  BY <1>4, <1>6, <1>8 DEF Phase
<1>11. \A d \in Conns : d # c => Phase(d)' = Phase(d)
  BY <1>7, <1>8 DEF Phase
<1>12. Talk!Turn(c, "waiting", "listening")
  BY <1>9, <1>10, <1>11, TurnTaken
<1>13. {d \in Conns : Broken(d)}' = {d \in Conns : Broken(d)}
  BY <1>8, SameBroken DEF Broken
<1>14. Talk!Admit(c)
  BY <1>8, <1>12, <1>13 DEF Talk!Admit
<1> QED
  BY <1>14 DEF TalkStep, Talk!Next

\* On a closed descriptor recv and send do nothing.
LEMMA StrayTalk ==
  ASSUME SweepInv, (Receive /\ cur' \in FreeFds) \/ (SendBack /\ OnStray)
  PROVE  TalkStep
<1>1. \A c \in Conns : cur \in FreeFds => cur \notin FdsOf(c)
  BY TcpAssumption DEF FreeFds, FdsOf, TcpAssumption
<1>2. CASE Receive /\ cur' \in FreeFds
  <2>1. PICK fd \in Remaining, cnt \in -1..BufferLength :
          /\ RecvOn(fd, cnt)
          /\ cur' = fd
          /\ \/ AtEnd(cnt) /\ CloseFd(fd) /\ Unwatch(fd) /\ UNCHANGED <<pc, count>>
             \/ /\ ~AtEnd(cnt)
                /\ pc' = "send"
                /\ count' = cnt
                /\ UNCHANGED <<fdtab, done, watched>>
    BY <1>2 DEF Receive
  <2>2. fdtab[fd] = NoConn /\ pc = "sweep" /\ UNCHANGED echoed
    BY <1>2, <2>1 DEF FreeFds, Receive
  <2>3. UNCHANGED <<peer, nread, fdtab, done>> /\ pc' = "send"
    BY <2>1, <2>2 DEF RecvOn, AtEnd
  <2>4. \A c \in Conns : FdsOf(c)' = FdsOf(c) /\ cur' \notin FdsOf(c)
    BY <1>2, <2>3, TcpAssumption DEF FreeFds, FdsOf, TcpAssumption
  <2>5. \A c \in Conns : Phase(c)' = Phase(c)
    BY <2>2, <2>3, <2>4 DEF Phase
  <2> QED
    BY <2>2, <2>3, <2>5, TalkStutters DEF Broken
<1>3. CASE SendBack /\ OnStray
  <2>1. PICK res \in {"sent", "reset", "pipe", "closed"} :
          /\ SendOn(cur, res)
          /\ pc' = IF res = "pipe" THEN "killed" ELSE "sweep"
          /\ echoed' = IF res = "sent" THEN [echoed EXCEPT ![fdtab[cur]] = @ + count]
                                       ELSE echoed
    BY <1>3 DEF SendBack
  <2>2. cur \in FreeFds /\ pc = "send" /\ UNCHANGED <<nread, fdtab, done, cur>>
    BY <1>3 DEF SendBack, OnStray
  <2>3. res = "closed" /\ UNCHANGED peer
    BY <2>1, <2>2 DEF SendOn, FreeFds
  <2>4. \A c \in Conns : FdsOf(c)' = FdsOf(c) /\ cur \notin FdsOf(c)
    BY <1>1, <2>2 DEF FdsOf
  <2>5. \A c \in Conns : Phase(c)' = Phase(c)
    BY <2>1, <2>2, <2>3, <2>4 DEF Phase
  <2> QED
    BY <2>1, <2>2, <2>3, <2>5, TalkStutters DEF Broken
<1> QED
  BY <1>2, <1>3

\* recv hears something new, or the end; the error of a reset is an empty turn.
LEMMA ReceiveTalk ==
  ASSUME SweepInv, Receive, cur' \notin FreeFds
  PROVE  TalkStep
<1>1. PICK fd \in Remaining, cnt \in -1..BufferLength :
        /\ RecvOn(fd, cnt)
        /\ cur' = fd
        /\ \/ AtEnd(cnt) /\ CloseFd(fd) /\ Unwatch(fd) /\ UNCHANGED <<pc, count>>
           \/ /\ ~AtEnd(cnt)
              /\ pc' = "send"
              /\ count' = cnt
              /\ UNCHANGED <<fdtab, done, watched>>
  BY DEF Receive
<1>2. pc = "sweep" /\ TypeOK /\ UNCHANGED <<sent, echoed>>
  BY DEF SweepInv, Receive
<1>3. fd \in OpenFds /\ fd \in Fds /\ fdtab[fd] # NoConn
  BY <1>1, <1>2, RemainingOpen DEF FreeFds
<1>4. PICK c \in Conns : c = fdtab[fd]
  BY <1>3, OwnDescriptor
<1>5. /\ FdsOf(c) = {fd} /\ c \notin done
      /\ \A d \in Conns : d # c => fd \notin FdsOf(d)
  BY <1>3, <1>4, OwnDescriptor
<1>6. Phase(c) = "listening"
  BY <1>2, <1>5, PhaseListening
<1>7. /\ nread' \in [Conns -> 0..MaxSend]
      /\ \A d \in Conns : d # c => nread'[d] = nread[d] /\ peer'[d] = peer[d]
      /\ cnt = 0 => UNCHANGED <<nread, peer>>
      /\ cnt # 0 => \/ nread'[c] = nread[c] + cnt /\ peer' = peer /\ cnt > 0
                    \/ nread' = nread /\ Broken(c) /\ peer'[c] = "dead"
  BY <1>1, <1>2, <1>3, <1>4, RecvEffect DEF RecvOn
<1>8. CASE cnt = 0
  <2>1. /\ fdtab' = [fdtab EXCEPT ![fd] = NoConn] /\ done' = done \cup {c} /\ pc' = pc
    BY <1>1, <1>4, <1>8, TcpAssumption DEF AtEnd, CloseFd, TcpAssumption
  <2>2. \A d \in Conns : d # c => FdsOf(d)' = FdsOf(d)
    <3>1. /\ fdtab[fd] = c /\ fdtab'[fd] = NoConn /\ NoConn \notin Conns
          /\ \A g \in Fds : g # fd => fdtab'[g] = fdtab[g]
      BY <1>2, <1>3, <1>4, <2>1, TcpAssumption DEF TypeOK, TcpTypeOK, TcpAssumption
    <3> QED
      BY <3>1 DEF FdsOf
  <2>3. Phase(c)' = "over"
    BY <2>1 DEF Phase
  <2>4. \A d \in Conns : d # c => Phase(d)' = Phase(d)
    BY <1>2, <2>1, <2>2 DEF Phase
  <2>5. Talk!Turn(c, "listening", "over")
    BY <1>6, <2>3, <2>4, TurnTaken
  <2>6. {d \in Conns : Broken(d)}' = {d \in Conns : Broken(d)}
    BY <1>7, <1>8, SameBroken DEF Broken
  <2>7. Talk!Leave(c)
    BY <1>2, <1>7, <1>8, <2>5, <2>6 DEF Talk!Leave
  <2> QED
    BY <2>7 DEF TalkStep, Talk!Next
<1>9. CASE cnt # 0
  <2>1. pc' = "send" /\ cur' = fd /\ UNCHANGED <<fdtab, done>>
    BY <1>1, <1>9 DEF AtEnd
  <2>2. \A d \in Conns : FdsOf(d)' = FdsOf(d)
    BY <2>1 DEF FdsOf
  <2>3. Phase(c)' = "answering"
    BY <1>5, <2>1, <2>2 DEF Phase
  <2>4. \A d \in Conns : d # c => Phase(d)' = Phase(d)
    BY <1>2, <1>5, <2>1, <2>2 DEF Phase
  <2>5. Talk!Turn(c, "listening", "answering")
    BY <1>6, <2>3, <2>4, TurnTaken
  <2>6. CASE nread'[c] = nread[c] + cnt /\ peer' = peer /\ cnt > 0
    <3>1. nread'[c] > nread[c]
      BY <1>2, <2>6, Typing
    <3>2. nread' = [nread EXCEPT ![c] = nread'[c]]
      BY <1>2, <1>7 DEF TypeOK, TcpTypeOK
    <3>3. {d \in Conns : Broken(d)}' = {d \in Conns : Broken(d)}
      BY <2>6, SameBroken DEF Broken
    <3>4. Talk!Hear(c)
      BY <1>2, <2>5, <3>1, <3>2, <3>3 DEF Talk!Hear
    <3> QED
      BY <3>4 DEF TalkStep, Talk!Next
  <2>7. CASE nread' = nread /\ Broken(c) /\ peer'[c] = "dead"
    <3>1. {d \in Conns : Broken(d)}' = {d \in Conns : Broken(d)}
      BY <1>7, <2>7, SameBroken DEF Broken
    <3>2. Talk!Falter(c)
      BY <1>2, <2>5, <2>7, <3>1 DEF Talk!Falter
    <3> QED
      BY <3>2 DEF TalkStep, Talk!Next
  <2> QED
    BY <1>7, <1>9, <2>6, <2>7
<1> QED
  BY <1>8, <1>9

\* send answers with what was heard; a client that has reset may get nothing.
LEMMA SendBackTalk ==
  ASSUME SweepInv, SendBack, ~OnStray
  PROVE  TalkStep
<1>1. PICK res \in {"sent", "reset", "pipe", "closed"} :
        /\ SendOn(cur, res)
        /\ pc' = IF res = "pipe" THEN "killed" ELSE "sweep"
        /\ echoed' = IF res = "sent" THEN [echoed EXCEPT ![fdtab[cur]] = @ + count]
                                     ELSE echoed
  BY DEF SendBack
<1>2. /\ pc = "send" /\ TypeOK
      /\ UNCHANGED <<nread, fdtab, done, cur>> /\ cur \in OpenFds
  BY DEF SendBack, SweepInv, SendsToOpen
<1>3. PICK c \in Conns : c = fdtab[cur] /\ Send(c, res)
  BY <1>1, <1>2, OwnDescriptor DEF SendOn, OpenFds
<1>4. /\ FdsOf(c) = {cur} /\ c \notin done
      /\ \A d \in Conns : d # c => cur \notin FdsOf(d)
  BY <1>2, <1>3, OwnDescriptor
<1>5. \A d \in Conns : FdsOf(d)' = FdsOf(d)
  BY <1>2 DEF FdsOf
<1>6. Phase(c) = "answering"
  BY <1>2, <1>4, PhaseAnswering
<1>7. \A d \in Conns : d # c => Phase(d)' = Phase(d)
  BY <1>2, <1>4, <1>5 DEF Phase
<1>8. ASSUME res # "pipe" PROVE Talk!Turn(c, "answering", "listening")
  <2>1. Phase(c)' = "listening"
    BY <1>1, <1>2, <1>4, <1>5, <1>8 DEF Phase
  <2> QED
    BY <1>6, <1>7, <2>1, TurnTaken
<1>9. CASE res = "sent"
  <2>1. peer' = peer /\ ~Broken(c)
    BY <1>3, <1>9 DEF Send
  <2>2. count > 0 /\ echoed[c] + count = nread[c] /\ echoed[c] \in Nat /\ count \in Int
    BY <1>2, <1>3, <2>1, Typing DEF SweepInv, SendsToOpen, NothingLost, Pending
  <2>3. echoed' = [echoed EXCEPT ![c] = echoed[c] + count]
    BY <1>1, <1>3, <1>9
  <2>4. echoed'[c] = echoed[c] + count /\ echoed' = [echoed EXCEPT ![c] = echoed'[c]]
    BY <1>2, <2>3 DEF TypeOK
  <2>5. echoed'[c] > echoed[c] /\ echoed'[c] <= nread[c]
    BY <2>2, <2>4
  <2>6. {d \in Conns : Broken(d)}' = {d \in Conns : Broken(d)}
    BY <2>1, SameBroken DEF Broken
  <2>7. Talk!Answer(c)
    BY <1>2, <1>8, <1>9, <2>4, <2>5, <2>6 DEF Talk!Answer
  <2> QED
    BY <2>7 DEF TalkStep, Talk!Next
<1>10. CASE res = "reset"
  <2>1. peer[c] = "rst" /\ peer' = [peer EXCEPT ![c] = "dead"] /\ echoed' = echoed
    BY <1>1, <1>3, <1>10 DEF Send
  <2>2. Broken(c) /\ \A d \in Conns : Broken(d)' = Broken(d)
    BY <1>2, <2>1 DEF Broken, TypeOK, TcpTypeOK
  <2>3. {d \in Conns : Broken(d)}' = {d \in Conns : Broken(d)}
    BY <2>2, SameBroken
  <2>4. Talk!Falter(c)
    BY <1>2, <1>8, <1>10, <2>1, <2>2, <2>3 DEF Talk!Falter
  <2> QED
    BY <2>4 DEF TalkStep, Talk!Next
<1>11. CASE res = "pipe"
  <2>1. peer' = peer /\ echoed' = echoed /\ pc' = "killed"
    BY <1>1, <1>3, <1>11 DEF Send
  <2>2. \A d \in Conns : Phase(d)' = Phase(d)
    BY <1>2, <1>5, <2>1 DEF Phase
  <2> QED
    BY <1>2, <2>1, <2>2, TalkStutters DEF Broken
<1> QED
  BY <1>3, <1>9, <1>10, <1>11 DEF Send

\* A client may break its conversation, and nothing else.
LEMMA ClientTalk ==
  ASSUME SweepInv, NEW c \in Conns, ClientStep(c)
  PROVE  TalkStep
<1>1. UNCHANGED <<nread, fdtab, done, pc, cur, echoed>>
  BY ClientEffect
<1>2. \A d \in Conns : /\ Broken(d) => Broken(d)'
                       /\ d # c => Broken(d)' = Broken(d)
  BY ClientEffect DEF Broken
<1>3. \A d \in Conns : Phase(d)' = Phase(d)
  BY <1>1 DEF Phase, FdsOf
<1>4. CASE Broken(c)' = Broken(c)
  BY <1>1, <1>2, <1>3, <1>4, TalkStutters
<1>5. CASE ~Broken(c) /\ Broken(c)'
  <2>1. {d \in Conns : Broken(d)}' = {d \in Conns : Broken(d)} \cup {c}
    BY <1>2, <1>5
  <2>2. [d \in Conns |-> Phase(d)]' = [d \in Conns |-> Phase(d)]
    BY <1>3
  <2>3. Talk!Break(c)
    BY <1>1, <1>5, <2>1, <2>2 DEF Talk!Break
  <2> QED
    BY <2>3 DEF TalkStep, Talk!Next
<1> QED
  BY <1>2, <1>4, <1>5 DEF Broken

\* The steps of main and of the clients that both servers take in the same way.
LEMMA SharedTalk ==
  ASSUME SweepInv, SharedStep
  PROVE  TalkStep
<1>1. CASE Boot \/ NothingToAccept \/ SweepDone
  <2>1. /\ UNCHANGED <<tcpVars, echoed>>
        /\ pc \notin {"send", "killed"} /\ pc' \notin {"send", "killed"}
    BY <1>1 DEF Boot, NothingToAccept, SweepDone
  <2> QED
    BY <2>1, IdleTalk
<1>2. CASE Receive \/ SendBack
  BY <1>2, StrayTalk, ReceiveTalk, SendBackTalk
<1>3. ASSUME NEW fd \in Fds, Accepted(fd) PROVE TalkStep
  BY <1>3, AcceptedTalk
<1>4. ASSUME NEW c \in Conns, ClientStep(c) PROVE TalkStep
  BY <1>4, ClientTalk
<1>5. CASE UNCHANGED vars
  <2>1. UNCHANGED <<peer, nread, fdtab, done, pc, cur, echoed>>
    BY <1>5 DEF vars, tcpVars, sweepVars
  <2> QED
    BY <2>1, TalkStutters DEF Phase, FdsOf, Broken
<1> QED
  BY <1>1, <1>2, <1>3, <1>4, <1>5 DEF SharedStep, SweepFds

\* A connection is closed by a shared step only, and at the end of its stream.
EndsOnly == [\A c \in done' \ done : peer[c] \notin {"up", "rst"} /\ Avail(c) = 0]_vars

LEMMA SharedEnds ==
  ASSUME SweepInv, SharedStep
  PROVE  EndsOnly
<1>1. CASE Receive
  BY <1>1, ClosesAtEnd DEF EndsOnly
<1>2. CASE ~Receive
  <2>1. done' = done
    BY <1>2 DEF SharedStep, Boot, NothingToAccept, Accepted, SweepFds, SendBack, SweepDone,
       ClientStep, Client, Connect, ClientSend, ClientRead, ClientFin, ClientRst, vars, tcpVars
  <2> QED
    BY <2>1 DEF EndsOnly
<1> QED
  BY <1>1, <1>2

-----------------------------------------------------------------------------
(* The select server. *)

SelectInv ==
  /\ SweepInv
  /\ nready # -1 => ReadyFresh
  /\ WatchedExact
  /\ MxfdCoversOpen

\* What select reports is what is readable; if it fails, that is rfds.
LEMMA SelectReports ==
  ASSUME SelectInv, Select
  PROVE  SelectInv'
<1> USE DEF SelectInv
<1>1. TypeOK /\ Polled \subseteq AllFds /\ watched \subseteq AllFds
  BY DEF SweepInv, TypeOK, Polled
<1>2. PICK result \in {-1, 1} :
        /\ Returned(result)
        /\ ready' = IF result = -1 THEN watched ELSE Polled
  BY DEF Select, SelectSucceeds, SelectFails
<1>3. UNCHANGED <<mxfd, watched, fdtab>> /\ nready' = result /\ Running /\ OpenFds' = OpenFds
  BY <1>2 DEF Returned, tcpVars, Running, OpenFds
<1>4. SweepInv' /\ (result # -1 => ReadyFresh')
  BY <1>1, <1>2, <1>3, ReturnedInv
<1>5. WatchedExact' /\ MxfdCoversOpen'
  BY <1>3 DEF WatchedExact, MxfdCoversOpen, Watches
<1> QED
  BY <1>3, <1>4, <1>5

\* FD_SET(-1) sets the stray bit.
LEMMA SelectAddFailedInv ==
  ASSUME SelectInv, SelectAddFailed
  PROVE  SelectInv'
<1> USE DEF SelectInv
<1>1. TypeOK /\ watched \subseteq AllFds /\ Fds \subseteq AllFds
  BY Typing DEF SweepInv, TypeOK
<1>2. /\ AcceptFailed /\ UNCHANGED mxfd /\ UNCHANGED <<nready, fdtab>>
      /\ pc' \in {"sweep", "aborted"} /\ Running /\ OpenFds' = OpenFds
      /\ watched \subseteq watched' /\ watched' \subseteq watched \cup ({StrayFd} \cap Fds)
  BY DEF SelectAddFailed, AcceptFailed, tcpVars, Running, OpenFds
<1>3. SweepInv' /\ (ReadyFresh => ReadyFresh')
  BY <1>1, <1>2, AcceptFailedInv
<1>4. WatchedExact' /\ MxfdCoversOpen'
  BY <1>2 DEF WatchedExact, MxfdCoversOpen, Watches
<1> QED
  BY <1>2, <1>3, <1>4

LEMMA SelectSteps ==
  ASSUME [SelectNext]_vars
  PROVE  Select \/ SelectAddFailed \/ SharedStep
BY DEF SelectNext, SelectMain, SelectAccept, SelectAdded, SharedStep

\* SelectInv is an inductive invariant of the select server.
THEOREM SelectInvariance == SelectSpec => []SelectInv
<1>1. SelectInit => SelectInv
  BY SweepInitInv DEF SelectInit, SelectInv, SweepInit, WatchedExact, MxfdCoversOpen, Running
<1>2. ASSUME SelectInv, [SelectNext]_vars PROVE SelectInv'
  <2>1. CASE SharedStep
    <3>1. SweepInv' /\ (ReadyFresh => ReadyFresh') /\ nready' = nready /\ MxfdCoversOpen'
      BY <1>2, <2>1, SharedStepInv, CoversKept DEF SelectInv
    <3>2. WatchedExact'
      BY <1>2, <2>1, WatchesKept DEF SelectInv, WatchedExact
    <3> QED
      BY <1>2, <3>1, <3>2 DEF SelectInv
  <2> QED
    BY <1>2, <2>1, SelectSteps, SelectReports, SelectAddFailedInv
<1> QED
  BY <1>1, <1>2, PTL DEF SelectSpec

\* rfds loses no open descriptor and keeps no closed one, whenever accept fails,
\* but for the bit that FD_SET(-1) sets.
THEOREM SelectWatchedExact == SelectSpec => []WatchedExact
<1>1. SelectInv => WatchedExact
  BY DEF SelectInv
<1> QED
  BY <1>1, SelectInvariance, PTL

\* mxfd covers every open descriptor, though it is only raised.
THEOREM SelectMxfdCovers == SelectSpec => []MxfdCoversOpen
<1>1. SelectInv => MxfdCoversOpen
  BY DEF SelectInv
<1> QED
  BY <1>1, SelectInvariance, PTL

\* After a select that has not failed, accept and recv are only called when they
\* can return at once.
THEOREM SelectNeverWaits == SelectSpec => []NeverWaits
<1>1. SelectInv => NeverWaits
  BY ImpliesNeverWaits DEF SelectInv
<1> QED
  BY <1>1, SelectInvariance, PTL

\* What was read from a client that is still there was sent back to it.
THEOREM SelectNothingLost == SelectSpec => []NothingLost
<1>1. SelectInv => NothingLost
  BY DEF SelectInv, SweepInv
<1> QED
  BY <1>1, SelectInvariance, PTL

\* A connection is closed only at the end of its stream.
THEOREM SelectClosesAtEnd == SelectSpec => CloseOnlyAtEnd
<1>1. ASSUME SelectInv, [SelectNext]_vars PROVE EndsOnly
  <2>1. CASE SharedStep
    BY <1>1, <2>1, SharedEnds DEF SelectInv
  <2>2. CASE Select \/ SelectAddFailed
    BY <2>2 DEF Select, SelectSucceeds, SelectFails, Returned, SelectAddFailed, AcceptFailed,
       tcpVars, EndsOnly
  <2> QED
    BY <1>1, <2>1, <2>2, SelectSteps
<1> QED
  BY <1>1, SelectInvariance, PTL DEF SelectSpec, CloseOnlyAtEnd, EndsOnly

\* The select server implements Conversation, also after a failed accept and a
\* failed select.
THEOREM SelectRefinement == SelectSpec => TakesTurns
<1>1. SelectInit => Talk!Init
  BY TalkInit DEF SelectInit
<1>2. ASSUME SelectInv, [SelectNext]_vars PROVE TalkStep
  <2>1. CASE SharedStep
    BY <1>2, <2>1, SharedTalk DEF SelectInv
  <2>2. CASE Select \/ SelectAddFailed
    <3>1. /\ UNCHANGED <<tcpVars, echoed>>
          /\ pc \notin {"send", "killed"} /\ pc' \notin {"send", "killed"}
      BY <2>2 DEF Select, SelectSucceeds, SelectFails, Returned, SelectAddFailed, AcceptFailed
    <3> QED
      BY <3>1, IdleTalk
  <2> QED
    BY <1>2, <2>1, <2>2, SelectSteps
<1> QED
  BY <1>1, <1>2, SelectInvariance, PTL
  DEF SelectSpec, TakesTurns, Talk!Spec, TalkStep

-----------------------------------------------------------------------------
(* The poll server.  Only NeverWaits needs that revents of a new entry does  *)
(* not hold POLLIN by chance: run poll_garbage shows that it fails otherwise. *)

\* What poll reports of the entries it is given is true; of the others, what
\* they held before is left.
LEMMA PollReports ==
  ASSUME SweepInv, nready = 1, Poll
  PROVE  SweepInv' /\ (ReadyFresh => ReadyFresh')
<1>1. /\ ready' = (ready \ 0..mxfd) \cup Polled /\ Returned(1)
      /\ Polled \subseteq AllFds /\ ready \subseteq AllFds /\ mxfd \in Int
      /\ \A fd \in AllFds : fd \in Nat
  BY Typing DEF Poll, Polled, SweepInv, TypeOK
<1>2. \A fd \in ready' : fd \in Polled \/ (fd \in ready /\ fd > mxfd)
  BY <1>1
<1>3. UNCHANGED <<mxfd, watched>> /\ ready' \subseteq AllFds
  BY <1>1 DEF Returned
<1> QED
  BY <1>1, <1>2, <1>3, ReturnedInv

LEMMA PollSteps ==
  ASSUME [PollNext]_vars
  PROVE  Poll \/ PollAddFailed \/ SharedStep
BY DEF PollNext, PollMain, PollAccept, PollAdded, SharedStep

PollInv == SweepInv /\ nready = 1

LEMMA PollStepInv ==
  ASSUME PollInv, [PollNext]_vars
  PROVE  PollInv' /\ (ReadyFresh => ReadyFresh')
<1> USE DEF PollInv
<1>1. CASE Poll
  BY <1>1, PollReports DEF Poll, Returned
<1>2. CASE PollAddFailed
  <2>1. AcceptFailed /\ pc' = "sweep" /\ mxfd' \in {mxfd, Deaf} /\ watched' \subseteq AllFds
    BY <1>2 DEF PollAddFailed, SweepInv, TypeOK
  <2> QED
    BY <2>1, AcceptFailedInv DEF AcceptFailed
<1>3. CASE SharedStep
  BY <1>3, SharedStepInv
<1> QED
  BY <1>1, <1>2, <1>3, PollSteps

LEMMA PollInitInv ==
  ASSUME PollInit
  PROVE  PollInv /\ ("garbage" \notin PollFaults => ReadyFresh)
<1>1. ready \subseteq Fds /\ ("garbage" \notin PollFaults => ready = {})
  BY DEF PollInit
<1> QED
  BY <1>1, SweepInitInv DEF PollInit, SweepInit, PollInv

\* SweepInv is an inductive invariant of the poll server, whatever undefined
\* behaviour does.
THEOREM PollInvariance == PollSpec => []PollInv
BY PollInitInv, PollStepInv, PTL DEF PollSpec

\* fds holds exactly the open descriptors, also after failed accepts.
THEOREM PollWatchedExact == PollSpec => [](Running => Watches({}))
<1>1. PollInit => (Running => Watches({}))
  BY DEF PollInit, SweepInit, Running
<1>2. ASSUME PollInv, Running => Watches({}), [PollNext]_vars
      PROVE  Running' => Watches({})'
  <2>1. CASE SharedStep
    BY <1>2, <2>1, WatchesKept DEF PollInv
  <2>2. CASE Poll \/ PollAddFailed
    <3>1. UNCHANGED <<fdtab, watched>> /\ Running
      BY <2>2 DEF Poll, Returned, PollAddFailed, AcceptFailed, tcpVars, Running
    <3> QED
      BY <1>2, <3>1 DEF Watches, OpenFds
  <2> QED
    BY <1>2, <2>1, <2>2, PollSteps
<1> QED
  BY <1>1, <1>2, PollInvariance, PTL DEF PollSpec

\* Where fds[-1] does not lie over mxfd, mxfd covers every open descriptor,
\* whenever accept fails.
THEOREM PollMxfdCovers ==
  ASSUME "overlap" \notin PollFaults
  PROVE  PollSpec => []MxfdCoversOpen
<1>1. PollInit => MxfdCoversOpen
  BY DEF PollInit, SweepInit, Running, MxfdCoversOpen
<1>2. ASSUME PollInv, MxfdCoversOpen, [PollNext]_vars PROVE MxfdCoversOpen'
  <2>1. CASE SharedStep
    BY <1>2, <2>1, CoversKept DEF PollInv
  <2>2. CASE Poll \/ PollAddFailed
    <3>1. UNCHANGED <<fdtab, mxfd>> /\ Running
      BY <2>2 DEF Poll, Returned, PollAddFailed, AcceptFailed, tcpVars, Running
    <3> QED
      BY <1>2, <3>1 DEF MxfdCoversOpen, OpenFds
  <2> QED
    BY <1>2, <2>1, <2>2, PollSteps
<1> QED
  BY <1>1, <1>2, PollInvariance, PTL DEF PollSpec

\* Of the open descriptors, the one just accepted for the first time is the
\* only one that recv may wait for, even where revents holds POLLIN by chance
\* and fds[-1] lies over mxfd.
THEOREM PollWaitsOnlyForNewest == PollSpec => []WaitsOnlyForNewest
<1>1. PollInv => WaitsOnlyForNewest
  BY ImpliesWaitsOnlyForNewest DEF PollInv
<1> QED
  BY <1>1, PollInvariance, PTL

\* Where revents does not, accept and recv are only called when they can
\* return at once.
THEOREM PollNeverWaits ==
  ASSUME "garbage" \notin PollFaults
  PROVE  PollSpec => []NeverWaits
<1>1. PollInit => PollInv /\ ReadyFresh
  BY PollInitInv
<1>2. PollInv /\ ReadyFresh => NeverWaits
  BY ImpliesNeverWaits DEF PollInv
<1> QED
  BY <1>1, <1>2, PollStepInv, PTL DEF PollSpec

\* What was read from a client that is still there was sent back to it.
THEOREM PollNothingLost == PollSpec => []NothingLost
<1>1. PollInv => NothingLost
  BY DEF PollInv, SweepInv
<1> QED
  BY <1>1, PollInvariance, PTL

\* A connection is closed only at the end of its stream.
THEOREM PollClosesAtEnd == PollSpec => CloseOnlyAtEnd
<1>1. ASSUME PollInv, [PollNext]_vars PROVE EndsOnly
  <2>1. CASE SharedStep
    BY <1>1, <2>1, SharedEnds DEF PollInv
  <2>2. CASE Poll \/ PollAddFailed
    BY <2>2 DEF Poll, Returned, PollAddFailed, AcceptFailed, tcpVars, EndsOnly
  <2> QED
    BY <1>1, <2>1, <2>2, PollSteps
<1> QED
  BY <1>1, PollInvariance, PTL DEF PollSpec, CloseOnlyAtEnd, EndsOnly

\* The poll server implements Conversation, whatever undefined behaviour does.
THEOREM PollRefinement == PollSpec => TakesTurns
<1>1. PollInit => Talk!Init
  BY TalkInit DEF PollInit
<1>2. ASSUME PollInv, [PollNext]_vars PROVE TalkStep
  <2>1. CASE SharedStep
    BY <1>2, <2>1, SharedTalk DEF PollInv
  <2>2. CASE Poll \/ PollAddFailed
    <3>1. /\ UNCHANGED <<tcpVars, echoed>>
          /\ pc \notin {"send", "killed"} /\ pc' \notin {"send", "killed"}
      BY <2>2 DEF Poll, Returned, PollAddFailed, AcceptFailed
    <3> QED
      BY <3>1, IdleTalk
  <2> QED
    BY <1>2, <2>1, <2>2, PollSteps
<1> QED
  BY <1>1, <1>2, PollInvariance, PTL
  DEF PollSpec, TakesTurns, Talk!Spec, TalkStep
=============================================================================
