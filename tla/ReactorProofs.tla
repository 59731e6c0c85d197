--------------------------- MODULE ReactorProofs ---------------------------
(***************************************************************************)
(* Proofs about the epoll server, for every value of the constants.        *)
(***************************************************************************)
EXTENDS ReactorProps, TLAPS, FiniteSetTheorems, SequenceTheorems

-----------------------------------------------------------------------------
(* Facts about sequences. *)

\* A function on 1..n is a sequence of length n.
LEMMA FunctionIsSeq ==
  ASSUME NEW S, NEW n \in Nat, NEW f \in [1..n -> S]
  PROVE  f \in Seq(S) /\ Len(f) = n
<1>1. f \in Seq(S)
  BY SeqDef
<1>2. Len(f) \in Nat /\ DOMAIN f = 1..Len(f)
  BY <1>1, LenProperties
<1>3. 1..n = 1..Len(f)
  BY <1>2
<1> QED
  BY <1>1, <1>2, <1>3

\* What is left of a sequence after its head.
LEMMA TailElements ==
  ASSUME NEW S, NEW s \in Seq(S), s # <<>>
  PROVE  /\ Tail(s) \in Seq(S)
         /\ Len(s) \in Nat /\ Len(s) > 0
         /\ Len(Tail(s)) = Len(s) - 1
         /\ \A k \in 1..Len(Tail(s)) : k + 1 \in 1..Len(s) /\ Tail(s)[k] = s[k + 1]
         /\ 1 \in 1..Len(s)
         /\ Head(s) = s[1]
         /\ Head(s) \in S
BY HeadTailProperties, LenProperties, EmptySeq

\* What appending one element changes.
LEMMA AppendElements ==
  ASSUME NEW S, NEW s \in Seq(S), NEW e \in S
  PROVE  /\ Append(s, e) \in Seq(S)
         /\ Len(s) \in Nat
         /\ Len(Append(s, e)) = Len(s) + 1
         /\ \A k \in 1..Len(Append(s, e)) :
              Append(s, e)[k] = IF k = Len(s) + 1 THEN e ELSE s[k]
BY AppendProperties, LenProperties

-----------------------------------------------------------------------------
(* Facts that hold in every state of the invariant. *)

\* The typing facts that the steps below use most.
LEMMA Typing ==
  ASSUME TypeOK
  PROVE  /\ \A fd \in Fds : fdtab[fd] \in Conns \cup {NoConn}
         /\ \A fd \in OpenFds : fd \in Fds /\ fdtab[fd] \in Conns
         /\ \A c \in Conns : /\ nread[c] \in Nat /\ sent[c] \in Nat
                             /\ nread[c] <= sent[c] /\ unread[c] \in Nat
                             /\ peer[c] \in PeerState
         /\ Fds \subseteq AllFds /\ ListenFd \in AllFds /\ ListenFd \notin Fds
         /\ BufferLength \in Nat /\ SndRoom \in Nat
BY TcpAssumption, ReactorAssumption
DEF TypeOK, TcpTypeOK, OpenFds, AllFds, Fds, ListenFd

\* BytesHold of one descriptor, as a relation between values: its buffer, its
\* connection c, and c's nread, replies and peer.
BytesRight(buf, c, n, r, p) ==
  /\ \A k \in Positions :
       \/ k <= n /\ buf[k] = ByteOf(c, k)
       \/ /\ k <= ResponseLength + 1 /\ buf[k] = Answer(k)
          /\ r # <<>> \/ p \in {"rst", "finrst", "dead"}
       \/ k > n /\ buf[k] = Zero
  /\ p \notin {"rst", "finrst", "dead"} =>
       \A k \in ((IF r = <<>> THEN 0 ELSE r[Len(r)]) + 1)..n : buf[k] = ByteOf(c, k)

LEMMA BytesHoldNow ==
  BytesHold <=> \A g \in OpenFds :
    BytesRight(rbuf[g], fdtab[g], nread[fdtab[g]], replies[fdtab[g]], peer[fdtab[g]])
BY DEF BytesHold, BytesRight, MayHold, Broken, LastReply

LEMMA BytesHoldNext ==
  BytesHold' <=> \A g \in OpenFds' :
    BytesRight(rbuf'[g], fdtab'[g], nread'[fdtab'[g]], replies'[fdtab'[g]],
               peer'[fdtab'[g]])
BY DEF BytesHold, BytesRight, MayHold, Broken, LastReply

\* What rbuffer holds stays right on a descriptor of which nothing changes.
LEMMA BytesKept ==
  ASSUME BytesHold, NEW g \in OpenFds, fdtab'[g] = fdtab[g], rbuf'[g] = rbuf[g],
         nread'[fdtab[g]] = nread[fdtab[g]], replies'[fdtab[g]] = replies[fdtab[g]],
         peer[fdtab[g]] \in {"rst", "finrst", "dead"} =>
           peer'[fdtab[g]] \in {"rst", "finrst", "dead"}
  PROVE  BytesRight(rbuf'[g], fdtab'[g], nread'[fdtab'[g]], replies'[fdtab'[g]],
                    peer'[fdtab'[g]])
<1> DEFINE c == fdtab[g]
<1>1. BytesRight(rbuf[g], c, nread[c], replies[c], peer[c])
  BY BytesHoldNow
<1>2. BytesRight(rbuf[g], c, nread[c], replies[c], peer'[c])
  BY <1>1 DEF BytesRight
<1> QED
  BY <1>2

LEMMA InitIInv == Init => IInv
<1> SUFFICES ASSUME Init PROVE IInv
  OBVIOUS
<1> USE DEF Init, TcpInit
<1>1. TypeOK
  BY TcpAssumption, ReactorAssumption, EmptySeq
  DEF TypeOK, TcpTypeOK, PeerState, Fds, AllFds, Event, Zeros, Zero, Byte
<1>2. OpenFds = {}
  BY DEF OpenFds
<1>3. Dormant /\ Registered /\ KilledByBrokenPeer
  BY DEF Dormant, Registered, KilledByBrokenPeer, Live
<1>4. EventsFresh /\ NeverBlocks /\ RepliesFollowRequests
  BY DEF EventsFresh, NeverBlocks, RepliesFollowRequests
<1>5. Ownership /\ RlenHolds /\ BytesHold /\ NewsToAnswer
  BY <1>2 DEF Ownership, RlenHolds, BytesHold, NewsToAnswer, Fresh
<1> QED
  BY <1>1, <1>3, <1>4, <1>5 DEF IInv

-----------------------------------------------------------------------------
(* One lemma per action: the invariant is preserved. *)

\* init either gives up or registers the listening socket.
LEMMA BootIInv == IInv /\ Boot => IInv'
<1> SUFFICES ASSUME IInv, Boot PROVE IInv'
  OBVIOUS
<1> USE DEF IInv, Boot, BindOrListenFails, tcpVars
<1>1. /\ fdtab' = fdtab /\ fdtab = [fd \in Fds |-> NoConn]
      /\ events' = events /\ events = <<>> /\ OpenFds = {} /\ OpenFds' = {}
  BY DEF Dormant, Live, OpenFds
<1>2. TypeOK'
  BY DEF TypeOK, TcpTypeOK, SetEvent, AllFds
<1>3. Dormant' /\ Registered'
  <2>1. CASE status' = "exited" /\ UNCHANGED <<interest, callback>>
    BY <1>1, <2>1 DEF Dormant, Registered, Live
  <2>2. CASE /\ status' = "run"
             /\ SetEvent(ListenFd, "in")
             /\ callback' = [callback EXCEPT ![ListenFd] = "accept_cb"]
    <3>1. interest = [fd \in AllFds |-> "none"] /\ callback = [fd \in AllFds |-> "none"]
      BY DEF Dormant, Live
    <3>2. interest'[ListenFd] = "in" /\ callback'[ListenFd] = "accept_cb"
      BY <2>2, <3>1 DEF SetEvent, AllFds
    <3>3. \A fd \in Fds : interest'[fd] = "none" /\ fd \notin OpenFds'
      BY <1>1, <2>2, <3>1 DEF SetEvent, AllFds, Fds, ListenFd
    <3> QED
      BY <2>2, <3>2, <3>3 DEF Dormant, Registered, Live
  <2> QED
    BY <2>1, <2>2
<1>4. EventsFresh' /\ NeverBlocks'
  BY <1>1, EmptySeq DEF EventsFresh, NeverBlocks
<1>5. Ownership' /\ RlenHolds' /\ BytesHold' /\ NewsToAnswer'
  BY <1>1 DEF Ownership, RlenHolds, BytesHold, NewsToAnswer, Fresh
<1>6. RepliesFollowRequests' /\ KilledByBrokenPeer'
  BY DEF RepliesFollowRequests, KilledByBrokenPeer
<1> QED
  BY <1>2, <1>3, <1>4, <1>5, <1>6

\* A reported event is fresh: the descriptor is ready, and so what it names
\* and waits for is what the event says.
LEMMA EpollWaitIInv == IInv /\ EpollWait => IInv'
<1> SUFFICES ASSUME IInv, EpollWait PROVE IInv'
  OBVIOUS
<1>0. TypeOK /\ UNCHANGED <<peer, sent, nread, unread, backlog, fdtab, done, status,
                            interest, callback, rlen, rbuf, replies>>
  BY DEF IInv, EpollWait, tcpVars
<1>1. NumReady \in Nat
  <2>1. IsFiniteSet(AllFds)
    <3>1. IsFiniteSet(1..MaxFd)
      BY FS_Interval, TcpAssumption DEF TcpAssumption
    <3> QED
      BY <3>1, FS_AddElement DEF AllFds, Fds
  <2>2. IsFiniteSet(ReadyFds)
    BY <2>1, FS_Subset DEF ReadyFds
  <2> QED
    BY <2>2, FS_CardinalityType, ReactorAssumption DEF NumReady, ReactorAssumption
<1>2. PICK order \in ReportOrders :
        events' = [i \in 1..NumReady |-> [fd |-> order[i], ev |-> interest[order[i]],
                                          conn |-> ConnOf(order[i])]]
  BY DEF EpollWait
<1>3. ASSUME NEW k \in 1..NumReady
      PROVE  /\ order[k] \in AllFds /\ Ready(order[k])
             /\ interest[order[k]] \in {"in", "out"}
             /\ ConnOf(order[k]) \in Conns \cup {NoConn}
  <2>1. order[k] \in ReadyFds
    BY DEF ReportOrders
  <2>2. order[k] \in Fds => fdtab[order[k]] \in Conns \cup {NoConn}
    BY <1>0, Typing
  <2> QED
    BY <2>1, <2>2 DEF ReadyFds, Ready, ConnOf, AllFds
<1>4. \A k \in 1..NumReady :
        /\ events'[k].fd = order[k]
        /\ events'[k].ev = interest[order[k]]
        /\ events'[k].conn = ConnOf(order[k])
  BY <1>2
<1>5. events' \in Seq(Event) /\ Len(events') = NumReady
  <2>1. events' \in [1..NumReady -> Event]
    BY <1>2, <1>3 DEF Event
  <2> QED
    BY <1>1, <2>1, FunctionIsSeq
<1>6. TypeOK'
  BY <1>0, <1>5 DEF TypeOK, TcpTypeOK
<1>8. EventsFresh'
  <2>1. \A j, k \in 1..NumReady : order[j] = order[k] => j = k
    BY DEF ReportOrders
  <2> SUFFICES ASSUME NEW k \in 1..NumReady
               PROVE  /\ events'[k].conn = IF events'[k].fd = ListenFd THEN NoConn
                                           ELSE fdtab'[events'[k].fd]
                      /\ events'[k].ev = interest'[events'[k].fd]
                      /\ \A j \in 1..NumReady : events'[j].fd = events'[k].fd => k = j
    BY <1>5 DEF EventsFresh, ConnOf
  <2> QED
    BY <1>0, <1>4, <2>1 DEF ConnOf
<1>9. NeverBlocks'
  <2> SUFFICES ASSUME NEW k \in 1..NumReady
               PROVE  /\ events'[k].fd = ListenFd => backlog # <<>>
                      /\ events'[k].fd \in Fds /\ events'[k].ev = "in" =>
                           Readable(fdtab[events'[k].fd])
                      /\ events'[k].fd \in Fds /\ events'[k].ev = "out" =>
                           Writable(fdtab[events'[k].fd])
    BY <1>0, <1>5 DEF NeverBlocks, Readable, Writable, Avail, Broken
  <2>1. Ready(order[k])
    BY <1>3
  <2> QED
    BY <1>0, <1>4, <2>1, Typing DEF Ready
<1>10. Dormant' /\ Registered'
  BY <1>0 DEF IInv, EpollWait, Dormant, Registered, Live, OpenFds
<1>11. Ownership' /\ RlenHolds' /\ NewsToAnswer'
  BY <1>0 DEF IInv, Ownership, RlenHolds, NewsToAnswer, Fresh, OpenFds
<1>12. RepliesFollowRequests' /\ KilledByBrokenPeer'
  BY <1>0 DEF IInv, RepliesFollowRequests, KilledByBrokenPeer, LastReply,
     OpenFds
<1>13. BytesHold'
  BY <1>0, BytesKept, BytesHoldNext DEF IInv, OpenFds
<1> QED
  BY <1>6, <1>8, <1>9, <1>10, <1>11, <1>12, <1>13 DEF IInv

\* What a client may change: its peer state moves on, it sends or reads, it
\* joins the accept queue; it never touches what the server keeps.
LEMMA ClientEffect ==
  ASSUME IInv, NEW c \in Conns, ClientStep(c)
  PROVE  /\ UNCHANGED <<nread, fdtab, done, status, interest, callback, rlen, rbuf,
                        events, replies>>
         /\ status = "run"
         /\ peer' \in [Conns -> PeerState]
         /\ sent' \in [Conns -> 0..MaxSend] /\ unread' \in [Conns -> 0..SndRoom]
         /\ \A d \in Conns : /\ sent[d] <= sent'[d] /\ unread'[d] <= unread[d]
                             /\ peer[d] # "up" /\ peer[d] # "idle" => peer'[d] # "up"
                             /\ peer[d] \in {"rst", "finrst", "dead"} =>
                                  peer'[d] \in {"rst", "finrst", "dead"}
                             /\ peer[d] # "idle" => peer'[d] # "idle"
                             /\ peer[d] = "dead" => peer'[d] = "dead"
         /\ \/ backlog' = backlog
            \/ /\ peer[c] = "idle" /\ peer'[c] # "idle"
               /\ backlog' = Append(backlog, c)
<1>1. /\ status = "run"
      /\ UNCHANGED <<status, interest, callback, rlen, rbuf, events, replies>>
      /\ Client(c)
  BY DEF ClientStep, srvVars
<1>2. /\ peer \in [Conns -> PeerState] /\ sent \in [Conns -> 0..MaxSend]
      /\ unread \in [Conns -> 0..SndRoom]
      /\ MaxSend \in Nat /\ SndRoom \in Nat
  BY TcpAssumption DEF IInv, TypeOK, TcpTypeOK, TcpAssumption
<1>3. CASE Connect(c)
  BY <1>1, <1>2, <1>3 DEF Connect, PeerState
<1>4. CASE ClientSend(c)
  BY <1>1, <1>2, <1>4 DEF ClientSend, PeerState
<1>5. CASE ClientRead(c)
  BY <1>1, <1>2, <1>5 DEF ClientRead, PeerState
<1>6. CASE ClientFin(c)
  BY <1>1, <1>2, <1>6 DEF ClientFin, PeerState
<1>7. CASE ClientRst(c)
  <2>1. CASE peer[c] = "up" /\ peer' = [peer EXCEPT ![c] = "rst"]
    BY <1>1, <1>2, <1>7, <2>1 DEF ClientRst, PeerState
  <2>2. CASE peer[c] = "fin" /\ peer' = [peer EXCEPT ![c] = "finrst"]
    BY <1>1, <1>2, <1>7, <2>2 DEF ClientRst, PeerState
  <2> QED
    BY <1>7, <2>1, <2>2 DEF ClientRst
<1> QED
  BY <1>1, <1>3, <1>4, <1>5, <1>6, <1>7 DEF Client

\* Whatever a client does meanwhile, what was reported stays true of it.
LEMMA ClientIInv ==
  ASSUME IInv, NEW c \in Conns, ClientStep(c)
  PROVE  IInv'
<1>1. /\ UNCHANGED <<nread, fdtab, done, status, interest, callback, rlen, rbuf,
                     events, replies>>
      /\ status = "run"
      /\ peer' \in [Conns -> PeerState]
      /\ sent' \in [Conns -> 0..MaxSend] /\ unread' \in [Conns -> 0..SndRoom]
  BY ClientEffect
<1>2. \A d \in Conns : /\ sent[d] <= sent'[d] /\ unread'[d] <= unread[d]
                       /\ peer[d] # "up" /\ peer[d] # "idle" => peer'[d] # "up"
                       /\ peer[d] \in {"rst", "finrst", "dead"} =>
                            peer'[d] \in {"rst", "finrst", "dead"}
                       /\ peer[d] # "idle" => peer'[d] # "idle"
                       /\ peer[d] = "dead" => peer'[d] = "dead"
  BY ClientEffect
<1>3. \/ backlog' = backlog
      \/ /\ peer[c] = "idle" /\ peer'[c] # "idle"
         /\ backlog' = Append(backlog, c)
  BY ClientEffect
<1>4. TypeOK /\ backlog \in Seq(Conns) /\ OpenFds' = OpenFds
  BY <1>1 DEF IInv, TypeOK, TcpTypeOK, OpenFds
<1>5. backlog' \in Seq(Conns) /\ (backlog # <<>> => backlog' # <<>>)
  BY <1>3, <1>4, AppendProperties
<1>6. TypeOK'
  <2>1. \A d \in Conns : nread[d] <= sent[d] /\ nread[d] \in Nat /\ sent[d] \in Nat
    BY <1>4, Typing
  <2>2. \A d \in Conns : sent'[d] \in Nat
    BY <1>1, TcpAssumption DEF TcpAssumption
  <2>3. \A d \in Conns : nread'[d] <= sent'[d]
    BY <1>1, <1>2, <2>1, <2>2
  <2>4. TcpTypeOK'
    BY <1>1, <1>4, <1>5, <2>3 DEF TypeOK, TcpTypeOK
  <2> QED
    BY <1>1, <1>4, <2>4 DEF TypeOK
<1>7. Dormant' /\ Registered' /\ EventsFresh' /\ RepliesFollowRequests'
  BY <1>1, <1>4 DEF IInv, Dormant, Registered, Live, EventsFresh, ConnOf,
     RepliesFollowRequests
<1>8. KilledByBrokenPeer'
  BY <1>1 DEF KilledByBrokenPeer
<1>9. NeverBlocks'
  <2> SUFFICES ASSUME NEW k \in 1..Len(events)
               PROVE  /\ events[k].fd = ListenFd => backlog' # <<>>
                      /\ events[k].fd \in Fds /\ events[k].ev = "in" =>
                           Readable(fdtab[events[k].fd])'
                      /\ events[k].fd \in Fds /\ events[k].ev = "out" =>
                           Writable(fdtab[events[k].fd])'
    BY <1>1 DEF NeverBlocks
  <2>1. /\ events[k].fd = ListenFd => backlog # <<>>
        /\ events[k].fd \in Fds /\ events[k].ev = "in" =>
             Readable(fdtab[events[k].fd])
        /\ events[k].fd \in Fds /\ events[k].ev = "out" =>
             Writable(fdtab[events[k].fd])
    BY DEF IInv, NeverBlocks
  <2>2. ASSUME events[k].fd \in Fds, events[k].ev \in {"in", "out"}
        PROVE  LET d == fdtab[events[k].fd] IN
               d \in Conns /\ peer[d] # "idle"
    <3>1. events[k].ev = interest[events[k].fd]
      BY DEF IInv, EventsFresh
    <3>2. events[k].fd \in OpenFds
      BY <1>1, <2>2, <3>1 DEF IInv, Registered, Live
    <3> QED
      BY <1>4, <3>2, Typing DEF IInv, Ownership
  <2>3. \A d \in Conns : peer[d] # "idle" /\ Readable(d) => Readable(d)'
    <3> SUFFICES ASSUME NEW d \in Conns, peer[d] # "idle", Readable(d)
                 PROVE  sent'[d] - nread'[d] > 0 \/ peer'[d] # "up"
      BY DEF Readable, Avail
    <3>1. sent[d] - nread[d] > 0 \/ peer[d] # "up"
      BY DEF Readable, Avail
    <3>2. nread[d] \in Nat /\ sent[d] \in Nat /\ sent'[d] \in Nat /\ MaxSend \in Nat
      BY <1>1, <1>4, Typing, TcpAssumption DEF TcpAssumption
    <3>3. nread'[d] = nread[d] /\ sent[d] <= sent'[d]
      BY <1>1, <1>2
    <3>4. peer[d] # "up" => peer'[d] # "up"
      BY <1>2
    <3> QED
      BY <3>1, <3>2, <3>3, <3>4
  <2>4. \A d \in Conns : Writable(d) => Writable(d)'
    BY <1>1, <1>2, <1>4, Typing DEF Writable, Broken
  <2> QED
    BY <1>1, <1>5, <2>1, <2>2, <2>3, <2>4
<1>10. Ownership'
  <2>1. ASSUME NEW fd \in OpenFds
        PROVE  /\ fdtab[fd] \notin done /\ peer'[fdtab[fd]] # "idle"
               /\ \A other \in OpenFds : fdtab[other] = fdtab[fd] => other = fd
    BY <1>2, <1>4, Typing DEF IInv, Ownership
  <2>2. \A d \in Conns : peer'[d] = "idle" => Fresh(d)'
    BY <1>1, <1>2 DEF IInv, Ownership, Fresh
  <2>3. ASSUME NEW j \in 1..Len(backlog')
        PROVE  /\ Fresh(backlog[j])' /\ peer'[backlog'[j]] # "idle"
               /\ \A fd \in Fds : fdtab[fd] # backlog'[j]
               /\ \A k \in 1..Len(backlog') : backlog'[k] = backlog'[j] => k = j
    <3>1. CASE backlog' = backlog
      BY <1>1, <1>2, <1>4, <3>1, ElementOfSeq DEF IInv, Ownership, Fresh
    <3>2. CASE peer[c] = "idle" /\ peer'[c] # "idle" /\ backlog' = Append(backlog, c)
      <4>1. /\ Len(backlog) \in Nat /\ Len(backlog') = Len(backlog) + 1
            /\ \A k \in 1..Len(backlog') :
                 backlog'[k] = IF k = Len(backlog) + 1 THEN c ELSE backlog[k]
        BY <1>4, <3>2, AppendElements
      <4>2. \A fd \in Fds : fdtab[fd] # c
        BY <1>4, <3>2, TcpAssumption DEF IInv, Ownership, OpenFds, TcpAssumption
      <4>3. \A k \in 1..Len(backlog) : backlog[k] # c /\ backlog[k] \in Conns
        BY <1>4, <3>2, ElementOfSeq DEF IInv, Ownership
      <4>4. Fresh(c)
        BY <3>2 DEF IInv, Ownership
      <4>5. CASE j = Len(backlog) + 1
        BY <1>1, <3>2, <4>1, <4>2, <4>3, <4>4, <4>5 DEF Fresh
      <4>6. CASE j \in 1..Len(backlog)
        <5>1. /\ Fresh(backlog[j]) /\ peer[backlog[j]] # "idle"
              /\ \A fd \in Fds : fdtab[fd] # backlog[j]
              /\ \A k \in 1..Len(backlog) : backlog[k] = backlog[j] => k = j
          BY <4>6 DEF IInv, Ownership
        <5>2. backlog'[j] = backlog[j] /\ j \in 1..Len(backlog')
          BY <4>1, <4>6
        <5>3. \A k \in 1..Len(backlog') : backlog'[k] = backlog'[j] => k = j
          BY <4>1, <4>3, <4>6, <5>1, <5>2
        <5> QED
          BY <1>1, <1>2, <4>3, <4>6, <5>1, <5>2, <5>3 DEF Fresh
      <4> QED
        BY <4>1, <4>5, <4>6
    <3> QED
      BY <1>3, <3>1, <3>2
  <2> QED
    BY <1>1, <1>4, <2>1, <2>2, <2>3 DEF Ownership
<1>11. RlenHolds' /\ NewsToAnswer'
  BY <1>1, <1>2, <1>4, Typing DEF IInv, RlenHolds, NewsToAnswer
<1>12. BytesHold'
  <2>1. \A g \in OpenFds : fdtab[g] \in Conns
    BY <1>4, Typing
  <2> QED
    BY <1>1, <1>2, <1>4, <2>1, BytesKept, BytesHoldNext DEF IInv
<1> QED
  BY <1>6, <1>7, <1>8, <1>9, <1>10, <1>11, <1>12 DEF IInv

-----------------------------------------------------------------------------
(* Dispatching one event. *)

\* One turn of the loop takes the first event, and may lose others from some
\* entry on.
Taking ==
  /\ status = "run"
  /\ events # <<>>
  /\ events' \in Seq(Event)
  /\ \A k \in 1..Len(events') : k + 1 \in 1..Len(events) /\ events'[k] = events[k + 1]

LEMMA DispatchingTakes ==
  ASSUME IInv, Dispatching
  PROVE  Taking
<1>1. events \in Seq(Event) /\ events # <<>> /\ events' = Tail(events) /\ status = "run"
  BY DEF IInv, TypeOK, Dispatching
<1> QED
  BY <1>1, TailElements DEF Taking

LEMMA BlankedTakes ==
  ASSUME IInv, status = "run", events # <<>>,
         NEW n \in 1..Len(events), events' = SubSeq(events, 2, n)
  PROVE  Taking
<1>1. events \in Seq(Event) /\ Len(events) \in Nat
  BY LenProperties DEF IInv, TypeOK
<1>2. /\ events' \in Seq(Event)
      /\ Len(events') = IF 2 <= n THEN n - 1 ELSE 0
      /\ \A k \in 1..(n - 1) : events'[k] = events[k + 1]
  BY <1>1, SubSeqProperties
<1> QED
  BY <1>1, <1>2 DEF Taking

\* The event at hand still says what its descriptor is and waits for, and the
\* events behind it are about other descriptors.
LEMMA DispatchFacts ==
  ASSUME IInv, Taking
  PROVE  /\ status = "run" /\ Live /\ TypeOK
         /\ NextEvent.fd \in AllFds
         /\ NextEvent.ev = interest[NextEvent.fd]
         /\ NextEvent.fd = ListenFd => backlog # <<>>
         /\ events' \in Seq(Event)
         /\ \A k \in 1..Len(events') :
              /\ k + 1 \in 1..Len(events)
              /\ events'[k] = events[k + 1]
              /\ events[k + 1].fd \in AllFds
              /\ events[k + 1].fd # NextEvent.fd
<1>1. events \in Seq(Event) /\ events # <<>>
  BY DEF IInv, TypeOK, Taking
<1>2. /\ events' \in Seq(Event)
      /\ \A k \in 1..Len(events') :
           k + 1 \in 1..Len(events) /\ events'[k] = events[k + 1]
      /\ 1 \in 1..Len(events) /\ NextEvent = events[1] /\ NextEvent \in Event
  BY <1>1, TailElements DEF NextEvent, Taking
<1>3. \A k \in 1..Len(events) : events[k] \in Event
  BY <1>1, ElementOfSeq
<1>4. \A k \in 1..Len(events') : events[k + 1].fd # NextEvent.fd
  <2> SUFFICES ASSUME NEW k \in 1..Len(events'), events[k + 1].fd = events[1].fd
               PROVE  FALSE
    BY <1>2
  <2>1. k + 1 = 1
    BY <1>2 DEF IInv, EventsFresh
  <2> QED
    BY <2>1
<1>5. NextEvent.ev = interest[NextEvent.fd] /\ (NextEvent.fd = ListenFd => backlog # <<>>)
  BY <1>2 DEF IInv, EventsFresh, NeverBlocks
<1>6. status = "run" /\ Live /\ TypeOK
  BY DEF IInv, Taking, Live
<1> QED
  BY <1>2, <1>3, <1>4, <1>5, <1>6 DEF Event

\* A callback that leaves the other registered descriptors, and what they can
\* do without waiting, as they are keeps the rest of the batch fresh.
LEMMA EventsKept ==
  ASSUME IInv, Taking,
         NextEvent.fd = ListenFd \/ backlog' = backlog,
         \A fd \in AllFds :
           fd # NextEvent.fd /\ interest[fd] # "none" =>
             /\ interest'[fd] = interest[fd]
             /\ fd \in Fds =>
                  /\ fdtab'[fd] = fdtab[fd]
                  /\ peer'[fdtab[fd]] = peer[fdtab[fd]]
                  /\ sent'[fdtab[fd]] = sent[fdtab[fd]]
                  /\ nread'[fdtab[fd]] = nread[fdtab[fd]]
                  /\ unread'[fdtab[fd]] = unread[fdtab[fd]]
  PROVE  EventsFresh' /\ NeverBlocks'
<1>1. \A k \in 1..Len(events') :
        /\ k + 1 \in 1..Len(events)
        /\ events'[k] = events[k + 1]
        /\ events[k + 1].fd \in AllFds
        /\ events[k + 1].fd # NextEvent.fd
  BY DispatchFacts
<1>2. \A k \in 1..Len(events') : interest[events[k + 1].fd] # "none"
  <2> SUFFICES ASSUME NEW k \in 1..Len(events') PROVE interest[events[k + 1].fd] # "none"
    OBVIOUS
  <2>1. k + 1 \in 1..Len(events) /\ events \in Seq(Event)
    BY <1>1 DEF IInv, TypeOK
  <2>2. events[k + 1].ev = interest[events[k + 1].fd]
    BY <2>1 DEF IInv, EventsFresh
  <2>3. events[k + 1] \in Event
    BY <2>1, ElementOfSeq
  <2> QED
    BY <2>2, <2>3 DEF Event
<1>3. EventsFresh'
  <2> SUFFICES ASSUME NEW k \in 1..Len(events')
               PROVE  /\ events'[k].conn = IF events'[k].fd = ListenFd THEN NoConn
                                           ELSE fdtab'[events'[k].fd]
                      /\ events'[k].ev = interest'[events'[k].fd]
                      /\ \A j \in 1..Len(events') :
                           events'[j].fd = events'[k].fd => k = j
    BY DEF EventsFresh, ConnOf
  <2>1. /\ events[k + 1].conn = IF events[k + 1].fd = ListenFd THEN NoConn
                                ELSE fdtab[events[k + 1].fd]
        /\ events[k + 1].ev = interest[events[k + 1].fd]
        /\ \A j \in 1..Len(events) : events[j].fd = events[k + 1].fd => k + 1 = j
    BY <1>1 DEF IInv, EventsFresh, ConnOf
  <2>2. \A j \in 1..Len(events') : events'[j].fd = events'[k].fd => k = j
    BY <1>1, <2>1
  <2>3. events[k + 1].fd \in Fds \/ events[k + 1].fd = ListenFd
    BY <1>1 DEF AllFds
  <2> QED
    BY <1>1, <1>2, <2>1, <2>2, <2>3
<1>4. NeverBlocks'
  <2> SUFFICES ASSUME NEW k \in 1..Len(events')
               PROVE  LET fd == events'[k].fd IN
                      /\ fd = ListenFd => backlog' # <<>>
                      /\ fd \in Fds /\ events'[k].ev = "in" =>
                           \/ sent'[fdtab'[fd]] - nread'[fdtab'[fd]] > 0
                           \/ peer'[fdtab'[fd]] # "up"
                      /\ fd \in Fds /\ events'[k].ev = "out" =>
                           \/ unread'[fdtab'[fd]] < SndRoom
                           \/ peer'[fdtab'[fd]] \in {"rst", "finrst", "dead"}
    BY DEF NeverBlocks, Readable, Writable, Avail, Broken
  <2> DEFINE fd == events[k + 1].fd
  <2>1. /\ fd = ListenFd => backlog # <<>>
        /\ fd \in Fds /\ events[k + 1].ev = "in" =>
             sent[fdtab[fd]] - nread[fdtab[fd]] > 0 \/ peer[fdtab[fd]] # "up"
        /\ fd \in Fds /\ events[k + 1].ev = "out" =>
             \/ unread[fdtab[fd]] < SndRoom
             \/ peer[fdtab[fd]] \in {"rst", "finrst", "dead"}
    BY <1>1 DEF IInv, NeverBlocks, Readable, Writable, Avail, Broken
  <2>2. fd \in Fds => /\ fdtab'[fd] = fdtab[fd]
                      /\ peer'[fdtab[fd]] = peer[fdtab[fd]]
                      /\ sent'[fdtab[fd]] = sent[fdtab[fd]]
                      /\ nread'[fdtab[fd]] = nread[fdtab[fd]]
                      /\ unread'[fdtab[fd]] = unread[fdtab[fd]]
    BY <1>1, <1>2
  <2>3. fd = ListenFd => backlog' = backlog
    BY <1>1
  <2> QED
    BY <1>1, <2>1, <2>2, <2>3
<1> QED
  BY <1>3, <1>4

\* What receive_cb is called with: an open descriptor that waits to read, and
\* whose rbuffer holds all that was read of its connection.
LEMMA ReceiveFacts ==
  ASSUME IInv, HandleReceive
  PROVE  LET fd == NextEvent.fd
             c == fdtab[fd]
         IN /\ fd \in OpenFds /\ fd \in Fds /\ c \in Conns
            /\ interest[fd] = "in"
            /\ rlen[fd] = nread[c] /\ nread[c] \in 0..BufferLength
            /\ BufferLength \in Nat
            /\ c \notin done /\ peer[c] # "idle"
            /\ \A other \in OpenFds : fdtab[other] = c => other = fd
            /\ \A j \in 1..Len(backlog) : backlog[j] # c
<1> DEFINE fd == NextEvent.fd
           c == fdtab[fd]
<1>1. Dispatching /\ NextEvent.ev = "in" /\ callback[fd] = "receive_cb"
  BY DEF HandleReceive
<1>2. Live /\ TypeOK /\ fd \in AllFds /\ interest[fd] = "in"
  BY <1>1, DispatchingTakes, DispatchFacts
<1>3. fd \in Fds /\ fd \in OpenFds
  BY <1>1, <1>2 DEF IInv, Registered, AllFds
<1>4. c \in Conns /\ nread[c] \in Nat /\ BufferLength \in Nat
  BY <1>2, <1>3, Typing
<1>5. rlen[fd] = nread[c] /\ rlen[fd] <= BufferLength
  BY <1>2, <1>3 DEF IInv, RlenHolds
<1>6. /\ c \notin done /\ peer[c] # "idle"
      /\ \A other \in OpenFds : fdtab[other] = c => other = fd
      /\ \A j \in 1..Len(backlog) : backlog[j] # c
  BY <1>3 DEF IInv, Ownership
<1> QED
  BY <1>2, <1>3, <1>4, <1>5, <1>6

\* What recv stores in rbuffer.
LEMMA StoredFacts ==
  ASSUME TypeOK, NEW fd \in Fds, fdtab[fd] \in Conns,
         NEW cnt \in -1..BufferLength, Stored(fd, cnt)
  PROVE  /\ rbuf' \in [Fds -> [Positions -> Byte]]
         /\ \A g \in Fds : g # fd => rbuf'[g] = rbuf[g]
         /\ \A k \in Positions :
              rbuf'[fd][k] = IF k \in (rlen[fd] + 1)..(rlen[fd] + cnt)
                             THEN ByteOf(fdtab[fd], nread[fdtab[fd]] + k - rlen[fd])
                             ELSE rbuf[fd][k]
<1> DEFINE c == fdtab[fd]
           new == [k \in Positions |-> IF k \in (rlen[fd] + 1)..(rlen[fd] + cnt)
                                       THEN ByteOf(c, nread[c] + k - rlen[fd])
                                       ELSE rbuf[fd][k]]
<1>1. /\ rbuf \in [Fds -> [Positions -> Byte]] /\ rlen[fd] \in Int
      /\ nread[c] \in Nat /\ BufferLength \in Nat
  BY ReactorAssumption DEF TypeOK, TcpTypeOK
<1>2. rbuf' = [rbuf EXCEPT ![fd] = new]
  BY DEF Stored
<1>3. new \in [Positions -> Byte]
  <2> SUFFICES ASSUME NEW k \in Positions PROVE new[k] \in Byte
    OBVIOUS
  <2>1. CASE k \in (rlen[fd] + 1)..(rlen[fd] + cnt)
    <3>1. nread[c] + k - rlen[fd] \in Nat
      BY <1>1, <2>1
    <3> QED
      BY <2>1, <3>1 DEF ByteOf, Byte
  <2>2. CASE k \notin (rlen[fd] + 1)..(rlen[fd] + cnt)
    BY <1>1, <2>2
  <2> QED
    BY <2>1, <2>2
<1>4. new = rbuf'[fd] /\ \A k \in Positions : new[k] = IF k \in (rlen[fd] + 1)..(rlen[fd] + cnt)
                                       THEN ByteOf(c, nread[c] + k - rlen[fd])
                                       ELSE rbuf[fd][k]
  BY <1>1, <1>2
<1> HIDE DEF new
<1> QED
  BY <1>1, <1>2, <1>3, <1>4

\* What sprintf writes into rbuffer.
LEMMA FormattedFacts ==
  ASSUME TypeOK, NEW fd \in Fds, Formatted(fd)
  PROVE  /\ rbuf' \in [Fds -> [Positions -> Byte]]
         /\ \A g \in Fds : g # fd => rbuf'[g] = rbuf[g]
         /\ \A k \in Positions :
              rbuf'[fd][k] = IF k <= ResponseLength + 1 THEN Answer(k) ELSE rbuf[fd][k]
<1> DEFINE new == [k \in Positions |->
                     IF k <= ResponseLength + 1 THEN Answer(k) ELSE rbuf[fd][k]]
<1>1. rbuf \in [Fds -> [Positions -> Byte]]
  BY DEF TypeOK
<1>2. rbuf' = [rbuf EXCEPT ![fd] = new]
  BY DEF Formatted
<1>3. new \in [Positions -> Byte]
  BY <1>1 DEF Answer, Text, Zero, Byte
<1>4. \A k \in Positions : new[k] = IF k <= ResponseLength + 1 THEN Answer(k) ELSE rbuf[fd][k]
  OBVIOUS
<1> HIDE DEF new
<1> QED
  BY <1>1, <1>2, <1>3, <1>4

\* What the recv of receive_cb can return, and what it leaves.
LEMMA ReceiveCases ==
  ASSUME IInv, HandleReceive
  PROVE  LET fd == NextEvent.fd
             c == fdtab[fd]
         IN /\ Dispatching
            /\ UNCHANGED <<sent, unread, backlog, status, callback, replies>>
            /\ \/ \* the end of the stream, or rbuffer is full
                  /\ Hangup(fd) /\ Stored(fd, 0) /\ UNCHANGED <<peer, nread>>
                  /\ \/ peer[c] \in {"fin", "finrst", "dead"} /\ Avail(c) = 0
                     \/ nread[c] = BufferLength
               \/ \* data
                  /\ UNCHANGED peer
                  /\ \E cnt \in 1..BufferLength :
                       /\ Received(fd, cnt) /\ Stored(fd, cnt)
                       /\ nread' = [nread EXCEPT ![c] = @ + cnt]
                       /\ nread[c] + cnt <= sent[c] /\ nread[c] + cnt <= BufferLength
               \/ \* a reset
                  /\ UNCHANGED nread
                  /\ Received(fd, -1) /\ Stored(fd, -1)
                  /\ peer' = [peer EXCEPT ![c] = "dead"] /\ peer[c] = "rst"
<1> DEFINE fd == NextEvent.fd
           c == fdtab[fd]
<1>1. /\ fd \in Fds /\ c \in Conns /\ rlen[fd] = nread[c]
      /\ nread[c] \in 0..BufferLength /\ BufferLength \in Nat
  BY ReceiveFacts
<1>2. Dispatching /\ ReceiveCb(fd)
  BY DEF HandleReceive
<1>3. nread[c] \in Nat /\ sent[c] \in Nat /\ nread[c] <= sent[c]
  BY <1>1, Typing DEF IInv
<1>4. nread = [nread EXCEPT ![c] = @ + 0]
  BY <1>1, <1>3 DEF IInv, TypeOK, TcpTypeOK
<1>5. PICK cnt \in -1..BufferLength :
        /\ Recv(c, Room(fd), cnt)
        /\ Stored(fd, cnt)
        /\ IF cnt = 0 THEN Hangup(fd) ELSE Received(fd, cnt)
  BY <1>2 DEF ReceiveCb
<1>6. CASE /\ Avail(c) > 0
           /\ cnt = IF Avail(c) < Room(fd) THEN Avail(c) ELSE Room(fd)
           /\ nread' = [nread EXCEPT ![c] = @ + cnt]
           /\ UNCHANGED peer
  <2>1. CASE cnt = 0
    <3>1. nread[c] = BufferLength
      BY <1>1, <1>3, <1>6, <2>1 DEF Avail, Room
    <3> QED
      BY <1>2, <1>4, <1>5, <1>6, <2>1, <3>1 DEF ReceiveCb
  <2>2. CASE cnt # 0
    <3>1. /\ cnt \in 1..BufferLength
          /\ nread[c] + cnt <= sent[c] /\ nread[c] + cnt <= BufferLength
      BY <1>1, <1>3, <1>6, <2>2 DEF Avail, Room
    <3> QED
      BY <1>2, <1>5, <1>6, <2>2, <3>1 DEF ReceiveCb
  <2> QED
    BY <2>1, <2>2
<1>7. CASE /\ Avail(c) = 0
           /\ peer[c] \in {"fin", "finrst", "dead"}
           /\ cnt = 0
           /\ UNCHANGED <<peer, nread>>
  BY <1>2, <1>5, <1>7 DEF ReceiveCb
<1>8. CASE /\ Avail(c) = 0
           /\ peer[c] = "rst"
           /\ cnt = -1
           /\ peer' = [peer EXCEPT ![c] = "dead"]
           /\ UNCHANGED nread
  BY <1>2, <1>5, <1>8 DEF ReceiveCb
<1> QED
  BY <1>5, <1>6, <1>7, <1>8 DEF Recv

\* receive_cb closes its descriptor, or turns it to sending; it changes
\* nothing of another connection.
LEMMA ReceiveIInv ==
  ASSUME IInv, HandleReceive
  PROVE  IInv'
<1> DEFINE fd == NextEvent.fd
           c == fdtab[fd]
<1>1. /\ fd \in OpenFds /\ fd \in Fds /\ c \in Conns
      /\ interest[fd] = "in"
      /\ rlen[fd] = nread[c] /\ nread[c] \in 0..BufferLength
      /\ BufferLength \in Nat
      /\ c \notin done /\ peer[c] # "idle"
      /\ \A other \in OpenFds : fdtab[other] = c => other = fd
      /\ \A j \in 1..Len(backlog) : backlog[j] # c
  BY ReceiveFacts
<1>2. Dispatching /\ UNCHANGED <<sent, unread, backlog, status, callback, replies>>
  BY ReceiveCases
<1>3. /\ status = "run" /\ Live /\ TypeOK /\ fd # ListenFd
      /\ events' \in Seq(Event)
      /\ NoConn \notin Conns
  BY <1>1, <1>2, DispatchingTakes, DispatchFacts, Typing, TcpAssumption DEF TcpAssumption
<1>4. CASE /\ Hangup(fd) /\ Stored(fd, 0) /\ UNCHANGED <<peer, nread>>
  <2>0. /\ rbuf' \in [Fds -> [Positions -> Byte]]
        /\ \A g \in Fds : g # fd => rbuf'[g] = rbuf[g]
    <3>1. 0 \in -1..BufferLength
      BY <1>1
    <3> QED
      BY <1>1, <1>3, <1>4, <3>1, StoredFacts
  <2>1. /\ interest' = [interest EXCEPT ![fd] = "none"]
        /\ fdtab' = [fdtab EXCEPT ![fd] = NoConn]
        /\ done' = done \cup {c}
        /\ UNCHANGED rlen
    BY <1>1, <1>3, <1>4 DEF Hangup, Unregister, CloseFd
  <2>2. TypeOK'
    BY <1>1, <1>2, <1>3, <1>4, <2>0, <2>1 DEF TypeOK, TcpTypeOK, AllFds
  <2>3. OpenFds' = OpenFds \ {fd} /\ \A g \in OpenFds' : fdtab'[g] = fdtab[g] /\ g # fd
    BY <1>1, <1>3, <2>1 DEF OpenFds, TypeOK, TcpTypeOK
  <2>4. EventsFresh' /\ NeverBlocks'
    BY <1>2, <1>3, <1>4, <2>1, DispatchingTakes, EventsKept DEF TypeOK, TcpTypeOK
  <2>5. Dormant' /\ Registered'
    <3>1. /\ interest'[ListenFd] = interest[ListenFd] /\ interest'[fd] = "none"
          /\ \A g \in Fds : g # fd => interest'[g] = interest[g]
      BY <1>1, <1>3, <2>1 DEF TypeOK, AllFds
    <3> QED
      BY <1>1, <1>2, <1>3, <2>3, <3>1 DEF IInv, Dormant, Registered, Live, OpenFds
  <2>6. Ownership'
    <3>1. \A g \in OpenFds' :
            /\ fdtab'[g] \notin done' /\ peer'[fdtab'[g]] # "idle"
            /\ \A other \in OpenFds' : fdtab'[other] = fdtab'[g] => other = g
      BY <1>1, <1>4, <2>1, <2>3 DEF IInv, Ownership
    <3>2. \A g \in Fds : fdtab'[g] = fdtab[g] \/ fdtab'[g] = NoConn
      BY <1>1, <1>3, <2>1 DEF TypeOK, TcpTypeOK
    <3>3. \A j \in 1..Len(backlog) :
            /\ Fresh(backlog[j])' /\ peer'[backlog'[j]] # "idle"
            /\ \A g \in Fds : fdtab'[g] # backlog'[j]
            /\ \A k \in 1..Len(backlog) : backlog'[k] = backlog'[j] => k = j
      <4>1. \A j \in 1..Len(backlog) : backlog[j] \in Conns
        BY <1>3, ElementOfSeq DEF TypeOK, TcpTypeOK
      <4> QED
        BY <1>1, <1>2, <1>3, <1>4, <2>1, <3>2, <4>1 DEF IInv, Ownership, Fresh
    <3>4. \A d \in Conns : peer'[d] = "idle" => Fresh(d)'
      BY <1>1, <1>2, <1>4, <2>1 DEF IInv, Ownership, Fresh
    <3> QED
      BY <1>2, <3>1, <3>3, <3>4 DEF Ownership
  <2>7. RlenHolds' /\ NewsToAnswer'
    <3>1. \A g \in OpenFds' : g \in OpenFds /\ interest'[g] = interest[g]
      BY <1>3, <2>1, <2>3 DEF TypeOK, AllFds, OpenFds
    <3> QED
      BY <1>2, <1>4, <2>1, <2>3, <3>1 DEF IInv, RlenHolds, NewsToAnswer
  <2>8. RepliesFollowRequests' /\ KilledByBrokenPeer'
    BY <1>2, <1>3, <1>4 DEF IInv, RepliesFollowRequests, KilledByBrokenPeer
  <2>9. BytesHold'
    <3>1. \A g \in OpenFds' : g \in OpenFds /\ g \in Fds /\ rbuf'[g] = rbuf[g]
      BY <2>0, <2>3 DEF OpenFds
    <3> QED
      BY <1>2, <1>4, <2>3, <3>1, BytesKept, BytesHoldNext DEF IInv
  <2> QED
    BY <2>2, <2>4, <2>5, <2>6, <2>7, <2>8, <2>9 DEF IInv
<1>5. ASSUME NEW cnt \in -1..BufferLength, Received(fd, cnt), Stored(fd, cnt),
             peer' \in [Conns -> PeerState],
             nread' \in [Conns -> 0..MaxSend],
             \A d \in Conns : nread'[d] <= sent[d],
             \A d \in Conns \ {c} : peer'[d] = peer[d] /\ nread'[d] = nread[d],
             peer'[c] # "idle", peer'[c] = peer[c] \/ peer'[c] = "dead",
             \/ cnt > 0 /\ nread'[c] = nread[c] + cnt /\ nread'[c] <= BufferLength
             \/ cnt = -1 /\ nread'[c] = nread[c] /\ peer'[c] = "dead"
      PROVE  IInv'
  <2>1. /\ rlen' = [rlen EXCEPT ![fd] = @ + cnt]
        /\ interest' = [interest EXCEPT ![fd] = "out"]
        /\ UNCHANGED <<fdtab, done>>
    BY <1>5 DEF Received, SetEvent
  <2>2. rlen[fd] + cnt \in -1..BufferLength
    BY <1>1, <1>5
  <2>0. /\ rbuf' \in [Fds -> [Positions -> Byte]]
        /\ \A g \in Fds : g # fd => rbuf'[g] = rbuf[g]
        /\ \A k \in Positions :
             rbuf'[fd][k] = IF k \in (rlen[fd] + 1)..(rlen[fd] + cnt)
                            THEN ByteOf(c, nread[c] + k - rlen[fd])
                            ELSE rbuf[fd][k]
    BY <1>1, <1>3, <1>5, StoredFacts
  <2>3. TypeOK'
    BY <1>1, <1>2, <1>3, <1>5, <2>0, <2>1, <2>2 DEF TypeOK, TcpTypeOK
  <2>4. OpenFds' = OpenFds /\ \A g \in OpenFds : g \in Fds /\ fdtab[g] \in Conns
    BY <1>3, <2>1, Typing DEF OpenFds
  <2>5. /\ interest'[fd] = "out" /\ interest'[ListenFd] = interest[ListenFd]
        /\ rlen'[fd] = nread[c] + cnt
        /\ \A g \in Fds : g # fd => interest'[g] = interest[g] /\ rlen'[g] = rlen[g]
    BY <1>1, <1>3, <2>1 DEF TypeOK, AllFds
  <2>6. \A g \in OpenFds : g # fd => fdtab[g] \in Conns \ {c}
    BY <1>1, <2>4
  <2>7. EventsFresh' /\ NeverBlocks'
    <3>1. \A g \in Fds : g # fd /\ interest[g] # "none" => fdtab[g] \in Conns \ {c}
      BY <1>3, <2>6 DEF IInv, Registered
    <3>2. \A g \in AllFds : g = ListenFd \/ g \in Fds
      BY DEF AllFds
    <3> QED
      BY <1>2, <1>3, <1>5, <2>1, <2>5, <3>1, <3>2, DispatchingTakes, EventsKept
  <2>8. Dormant' /\ Registered'
    BY <1>1, <1>2, <1>3, <2>4, <2>5 DEF IInv, Dormant, Registered, Live
  <2>9. Ownership'
    <3>1. \A g \in OpenFds :
            /\ fdtab[g] \notin done /\ peer'[fdtab[g]] # "idle"
            /\ \A other \in OpenFds : fdtab[other] = fdtab[g] => other = g
      BY <1>5, <2>4 DEF IInv, Ownership
    <3>2. \A j \in 1..Len(backlog) :
            /\ Fresh(backlog[j])' /\ peer'[backlog[j]] # "idle"
            /\ \A g \in Fds : fdtab[g] # backlog[j]
            /\ \A k \in 1..Len(backlog) : backlog[k] = backlog[j] => k = j
      <4>1. \A j \in 1..Len(backlog) : backlog[j] \in Conns
        BY <1>3, ElementOfSeq DEF TypeOK, TcpTypeOK
      <4>2. \A j \in 1..Len(backlog) :
              /\ Fresh(backlog[j]) /\ peer[backlog[j]] # "idle"
              /\ \A g \in Fds : fdtab[g] # backlog[j]
              /\ \A k \in 1..Len(backlog) : backlog[k] = backlog[j] => k = j
        BY DEF IInv, Ownership
      <4>3. \A j \in 1..Len(backlog) : backlog[j] # c
        BY <1>1, <4>2
      <4>4. \A j \in 1..Len(backlog) :
              /\ peer'[backlog[j]] = peer[backlog[j]]
              /\ nread'[backlog[j]] = nread[backlog[j]]
        BY <1>5, <4>1, <4>3
      <4>5. \A j \in 1..Len(backlog) : Fresh(backlog[j])'
        BY <1>2, <2>1, <4>2, <4>4 DEF Fresh
      <4> QED
        BY <4>2, <4>4, <4>5
    <3>3. \A d \in Conns : peer'[d] = "idle" => Fresh(d)'
      BY <1>2, <1>5, <2>1 DEF IInv, Ownership, Fresh
    <3> QED
      BY <1>2, <2>1, <2>4, <3>1, <3>2, <3>3 DEF Ownership
  <2>10. RlenHolds'
    <3> SUFFICES ASSUME NEW g \in OpenFds
                 PROVE  /\ rlen'[g] <= BufferLength
                        /\ \/ rlen'[g] = nread'[fdtab[g]]
                           \/ /\ rlen'[g] = nread'[fdtab[g]] - 1
                              /\ peer'[fdtab[g]] = "dead" /\ interest'[g] = "out"
      BY <2>1, <2>4 DEF RlenHolds
    <3>1. CASE g = fd
      BY <1>1, <1>5, <2>5, <3>1
    <3>2. CASE g # fd
      BY <1>5, <2>4, <2>5, <2>6, <3>2 DEF IInv, RlenHolds
    <3> QED
      BY <3>1, <3>2
  <2>11. RepliesFollowRequests' /\ KilledByBrokenPeer'
    <3>1. \A d \in Conns : nread[d] \in Nat /\ nread'[d] \in Nat /\ nread[d] <= nread'[d]
      <4>1. nread[c] \in Nat /\ nread'[c] \in Nat /\ nread[c] <= nread'[c]
        BY <1>1, <1>5
      <4>2. \A d \in Conns \ {c} : nread'[d] = nread[d]
        BY <1>5
      <4>3. \A d \in Conns : nread[d] \in Nat
        BY <1>3, Typing
      <4> QED
        BY <4>1, <4>2, <4>3
    <3> QED
      BY <1>2, <1>3, <3>1 DEF IInv, RepliesFollowRequests, KilledByBrokenPeer
  <2>12. NewsToAnswer'
    <3> SUFFICES ASSUME NEW g \in OpenFds,
                        interest'[g] = "out", rlen'[g] = nread'[fdtab[g]]
                 PROVE  /\ nread'[fdtab[g]] > 0
                        /\ \A k \in 1..Len(replies[fdtab[g]]) :
                             replies[fdtab[g]][k] < nread'[fdtab[g]]
      BY <1>2, <2>1, <2>4 DEF NewsToAnswer
    <3>1. CASE g = fd
      <4>1. cnt > 0 /\ nread'[c] = nread[c] + cnt /\ nread[c] \in Nat
        BY <1>1, <1>5, <2>5, <3>1
      <4>2. \A k \in 1..Len(replies[c]) : replies[c][k] \in 1..nread[c]
        BY <1>1 DEF IInv, RepliesFollowRequests
      <4> QED
        BY <3>1, <4>1, <4>2
    <3>2. CASE g # fd
      BY <1>5, <2>4, <2>5, <2>6, <3>2 DEF IInv, NewsToAnswer
    <3> QED
      BY <3>1, <3>2
  <2>13. BytesHold'
    <3> SUFFICES ASSUME NEW g \in OpenFds
                 PROVE  BytesRight(rbuf'[g], fdtab'[g], nread'[fdtab'[g]],
                                   replies'[fdtab'[g]], peer'[fdtab'[g]])
      BY <2>4, BytesHoldNext
    <3>1. CASE g # fd
      BY <1>2, <1>5, <2>0, <2>1, <2>4, <2>6, <3>1, BytesKept DEF IInv
    <3>2. CASE g = fd
      <4> DEFINE n == nread[c]  m == nread'[c]  r == replies[c]  p == peer[c]
                 q == peer'[c]  old == rbuf[fd]  new == rbuf'[fd]
      <4>1. BytesRight(old, c, n, r, p)
        BY <1>1, BytesHoldNow DEF IInv
      <4>2. /\ n \in Nat /\ m \in Nat /\ n <= m /\ m <= BufferLength
            /\ (IF r = <<>> THEN 0 ELSE r[Len(r)]) \in Nat
        <5>1. r \in Seq(0..BufferLength)
          BY <1>1, <1>3 DEF TypeOK
        <5>2. r # <<>> => r[Len(r)] \in 0..BufferLength
          <6>1. r # <<>> => Len(r) \in 1..Len(r)
            BY <5>1, EmptySeq, LenProperties
          <6> HIDE DEF r
          <6> QED
            BY <5>1, <6>1, ElementOfSeq
        <5> QED
          BY <1>1, <1>5, <5>2
      <4>3. q = p \/ q = "dead"
        BY <1>5
      <4>4. CASE cnt > 0
        <5>1. \A k \in Positions :
                new[k] = IF k > n /\ k <= m THEN ByteOf(c, k) ELSE old[k]
          <6> SUFFICES ASSUME NEW k \in Positions
                       PROVE  new[k] = IF k > n /\ k <= m THEN ByteOf(c, k) ELSE old[k]
            OBVIOUS
          <6>1. /\ k \in Nat /\ rlen[fd] = n /\ m = n + cnt
                /\ cnt \in Nat /\ n + k - rlen[fd] = k
            BY <1>1, <1>5, <4>2, <4>4 DEF Positions
          <6>2. k \in (rlen[fd] + 1)..(rlen[fd] + cnt) <=> k > n /\ k <= m
            BY <4>2, <6>1
          <6> QED
            BY <2>0, <6>1, <6>2
        <5>2. \A k \in Nat \ {0} : k <= m => k \in Positions
          BY <1>1, <4>2 DEF Positions
        <5>3. \A k \in Positions : k \in Nat
          BY DEF Positions
        <5> HIDE DEF n, m, r, p, q, old, new
        <5>4. BytesRight(new, c, m, r, q)
          BY <4>1, <4>2, <4>3, <5>1, <5>2, <5>3 DEF BytesRight
        <5> QED
          BY <1>2, <2>1, <3>2, <5>4 DEF m, r, q, new
      <4>5. CASE cnt = -1
        <5>1. \A k \in Positions : new[k] = old[k]
          BY <1>1, <2>0, <4>5 DEF Positions
        <5>2. q = "dead" /\ m = n
          BY <1>5, <4>5
        <5> HIDE DEF n, m, r, p, q, old, new
        <5>3. BytesRight(new, c, m, r, q)
          BY <4>1, <5>1, <5>2 DEF BytesRight
        <5> QED
          BY <1>2, <2>1, <3>2, <5>3 DEF m, r, q, new
      <4> QED
        BY <1>5, <4>4, <4>5
    <3> QED
      BY <3>1, <3>2
  <2> QED
    BY <2>3, <2>7, <2>8, <2>9, <2>10, <2>11, <2>12, <2>13 DEF IInv
<1>6. CASE /\ UNCHANGED peer
           /\ \E cnt \in 1..BufferLength :
                /\ Received(fd, cnt) /\ Stored(fd, cnt)
                /\ nread' = [nread EXCEPT ![c] = @ + cnt]
                /\ nread[c] + cnt <= sent[c] /\ nread[c] + cnt <= BufferLength
  <2>1. PICK cnt \in 1..BufferLength :
          /\ Received(fd, cnt) /\ Stored(fd, cnt)
          /\ nread' = [nread EXCEPT ![c] = @ + cnt]
          /\ nread[c] + cnt <= sent[c] /\ nread[c] + cnt <= BufferLength
    BY <1>6
  <2>2. /\ nread \in [Conns -> 0..MaxSend] /\ sent \in [Conns -> 0..MaxSend]
        /\ peer \in [Conns -> PeerState] /\ \A d \in Conns : nread[d] <= sent[d]
        /\ MaxSend \in Nat
    BY <1>3, TcpAssumption DEF TypeOK, TcpTypeOK, TcpAssumption
  <2>3. /\ nread' \in [Conns -> 0..MaxSend] /\ nread'[c] = nread[c] + cnt
        /\ \A d \in Conns \ {c} : nread'[d] = nread[d]
    BY <1>1, <2>1, <2>2
  <2> QED
    BY <1>1, <1>5, <1>6, <2>1, <2>2, <2>3
<1>7. CASE /\ UNCHANGED nread
           /\ Received(fd, -1) /\ Stored(fd, -1)
           /\ peer' = [peer EXCEPT ![c] = "dead"] /\ peer[c] = "rst"
  <2>1. /\ nread \in [Conns -> 0..MaxSend] /\ \A d \in Conns : nread[d] <= sent[d]
        /\ peer \in [Conns -> PeerState]
    BY <1>3 DEF TypeOK, TcpTypeOK
  <2>2. /\ peer' \in [Conns -> PeerState] /\ peer'[c] = "dead"
        /\ \A d \in Conns \ {c} : peer'[d] = peer[d]
    BY <1>1, <1>7, <2>1 DEF PeerState
  <2>3. -1 \in -1..BufferLength
    BY <1>1
  <2> QED
    BY <1>1, <1>5, <1>7, <2>1, <2>2, <2>3
<1> QED
  BY <1>4, <1>6, <1>7, ReceiveCases

\* What send_cb is called with: an open descriptor that waits to send.
LEMMA SendFacts ==
  ASSUME IInv, HandleSend
  PROVE  LET fd == NextEvent.fd
             c == fdtab[fd]
         IN /\ fd \in OpenFds /\ fd \in Fds /\ c \in Conns
            /\ interest[fd] = "out"
            /\ \/ rlen[fd] = nread[c] /\ nread[c] \in 1..BufferLength
               \/ peer[c] = "dead"
            /\ c \notin done /\ peer[c] # "idle"
            /\ \A other \in OpenFds : fdtab[other] = c => other = fd
            /\ \A j \in 1..Len(backlog) : backlog[j] # c
<1> DEFINE fd == NextEvent.fd
           c == fdtab[fd]
<1>1. Dispatching /\ NextEvent.ev = "out"
  BY DEF HandleSend
<1>2. Live /\ TypeOK /\ fd \in AllFds /\ interest[fd] = "out"
  BY <1>1, DispatchingTakes, DispatchFacts
<1>3. fd \in Fds /\ fd \in OpenFds
  BY <1>2 DEF IInv, Registered, AllFds
<1>4. c \in Conns /\ nread[c] \in Nat /\ BufferLength \in Nat
  BY <1>2, <1>3, Typing
<1>5. \/ rlen[fd] = nread[c] /\ nread[c] \in 1..BufferLength
      \/ peer[c] = "dead"
  BY <1>2, <1>3, <1>4 DEF IInv, RlenHolds, NewsToAnswer
<1>6. /\ c \notin done /\ peer[c] # "idle"
      /\ \A other \in OpenFds : fdtab[other] = c => other = fd
      /\ \A j \in 1..Len(backlog) : backlog[j] # c
  BY <1>3 DEF IInv, Ownership
<1> QED
  BY <1>2, <1>3, <1>4, <1>5, <1>6

\* send_cb answers and turns its descriptor back to reading, or reports a
\* reset and turns it back as well, or dies.
LEMMA SendIInv ==
  ASSUME IInv, HandleSend
  PROVE  IInv'
<1> DEFINE fd == NextEvent.fd
           c == fdtab[fd]
<1>1. /\ fd \in OpenFds /\ fd \in Fds /\ c \in Conns
      /\ interest[fd] = "out"
      /\ \/ rlen[fd] = nread[c] /\ nread[c] \in 1..BufferLength
         \/ peer[c] = "dead"
      /\ c \notin done /\ peer[c] # "idle"
      /\ \A other \in OpenFds : fdtab[other] = c => other = fd
      /\ \A j \in 1..Len(backlog) : backlog[j] # c
  BY SendFacts
<1>2. /\ Dispatching /\ SendCb(fd)
      /\ UNCHANGED <<sent, nread, backlog, fdtab, done, callback, rlen>>
  BY DEF HandleSend, SendCb
<1>3. /\ status = "run" /\ Live /\ TypeOK /\ fd # ListenFd
      /\ events' \in Seq(Event)
      /\ OpenFds' = OpenFds /\ \A g \in OpenFds : g \in Fds /\ fdtab[g] \in Conns
  BY <1>1, <1>2, DispatchingTakes, DispatchFacts, Typing DEF OpenFds
<1>4. \A g \in OpenFds : g # fd => fdtab[g] \in Conns \ {c}
  BY <1>1, <1>3
<1>0. /\ rbuf' \in [Fds -> [Positions -> Byte]]
      /\ \A g \in Fds : g # fd => rbuf'[g] = rbuf[g]
      /\ \A k \in Positions :
           rbuf'[fd][k] = IF k <= ResponseLength + 1 THEN Answer(k) ELSE rbuf[fd][k]
  <2>1. Formatted(fd)
    BY <1>2 DEF SendCb
  <2> QED
    BY <1>1, <1>3, <2>1, FormattedFacts
<1>10. ASSUME \/ peer'[c] \in {"rst", "finrst", "dead"}
              \/ /\ replies'[c] # <<>>
                 /\ replies'[c][Len(replies'[c])] = nread[c],
              \A d \in Conns \ {c} : peer'[d] = peer[d] /\ replies'[d] = replies[d]
       PROVE  BytesHold'
  <2> SUFFICES ASSUME NEW g \in OpenFds
               PROVE  BytesRight(rbuf'[g], fdtab'[g], nread'[fdtab'[g]],
                                   replies'[fdtab'[g]], peer'[fdtab'[g]])
    BY <1>3, BytesHoldNext
  <2>1. CASE g # fd
    BY <1>0, <1>2, <1>3, <1>4, <1>10, <2>1, BytesKept DEF IInv
  <2>2. CASE g = fd
    <3> DEFINE n == nread[c]  r == replies[c]  s == replies'[c]  p == peer[c]
               q == peer'[c]  old == rbuf[fd]  new == rbuf'[fd]
    <3>1. BytesRight(old, c, n, r, p)
      BY <1>1, BytesHoldNow DEF IInv
    <3>2. n \in Nat
      BY <1>1, <1>3, Typing
    <3>3. q \in {"rst", "finrst", "dead"} \/ (s # <<>> /\ s[Len(s)] = n)
      BY <1>10
    <3>4. \A k \in Positions :
            new[k] = IF k <= ResponseLength + 1 THEN Answer(k) ELSE old[k]
      BY <1>0
    <3> HIDE DEF n, r, s, p, q, old, new
    <3>5. \A k \in Positions :
            \/ k <= n /\ new[k] = ByteOf(c, k)
            \/ /\ k <= ResponseLength + 1 /\ new[k] = Answer(k)
               /\ s # <<>> \/ q \in {"rst", "finrst", "dead"}
            \/ k > n /\ new[k] = Zero
      BY <3>1, <3>3, <3>4 DEF BytesRight
    <3>6. q \notin {"rst", "finrst", "dead"} =>
            ((IF s = <<>> THEN 0 ELSE s[Len(s)]) + 1)..n = {}
      BY <3>2, <3>3
    <3>7. BytesRight(new, c, n, s, q)
      BY <3>5, <3>6 DEF BytesRight
    <3> QED
      BY <1>2, <2>2, <3>7 DEF n, s, q, new
  <2> QED
    BY <2>1, <2>2
<1>5. ASSUME SetEvent(fd, "in"), UNCHANGED status,
             peer' \in [Conns -> PeerState], unread' \in [Conns -> 0..SndRoom],
             replies' \in [Conns -> Seq(0..BufferLength)],
             \A d \in Conns \ {c} :
               peer'[d] = peer[d] /\ unread'[d] = unread[d] /\ replies'[d] = replies[d],
             peer'[c] # "idle", BytesHold',
             rlen[fd] = nread[c],
             \A k \in 1..Len(replies'[c]) :
               /\ replies'[c][k] \in 1..nread[c]
               /\ \A j \in 1..(k - 1) : replies'[c][j] < replies'[c][k]
      PROVE  IInv'
  <2>1. interest' = [interest EXCEPT ![fd] = "in"]
    BY <1>5 DEF SetEvent
  <2>2. TypeOK'
    BY <1>0, <1>2, <1>3, <1>5, <2>1 DEF TypeOK, TcpTypeOK
  <2>3. /\ interest'[fd] = "in" /\ interest'[ListenFd] = interest[ListenFd]
        /\ \A g \in Fds : g # fd => interest'[g] = interest[g]
    BY <1>1, <1>3, <2>1 DEF TypeOK, AllFds
  <2>4. EventsFresh' /\ NeverBlocks'
    <3>1. \A g \in Fds : g # fd /\ interest[g] # "none" => fdtab[g] \in Conns \ {c}
      BY <1>3, <1>4 DEF IInv, Registered
    <3>2. \A g \in AllFds : g = ListenFd \/ g \in Fds
      BY DEF AllFds
    <3> QED
      BY <1>2, <1>3, <1>5, <2>3, <3>1, <3>2, DispatchingTakes, EventsKept
  <2>5. Dormant' /\ Registered'
    BY <1>1, <1>2, <1>3, <1>5, <2>3 DEF IInv, Dormant, Registered, Live
  <2>6. Ownership'
    <3>1. \A g \in OpenFds :
            /\ fdtab[g] \notin done /\ peer'[fdtab[g]] # "idle"
            /\ \A other \in OpenFds : fdtab[other] = fdtab[g] => other = g
      BY <1>3, <1>5 DEF IInv, Ownership
    <3>2. \A j \in 1..Len(backlog) :
            /\ Fresh(backlog[j])' /\ peer'[backlog[j]] # "idle"
            /\ \A g \in Fds : fdtab[g] # backlog[j]
            /\ \A k \in 1..Len(backlog) : backlog[k] = backlog[j] => k = j
      <4>1. \A j \in 1..Len(backlog) : backlog[j] \in Conns
        BY <1>3, ElementOfSeq DEF TypeOK, TcpTypeOK
      <4>2. \A j \in 1..Len(backlog) :
              /\ Fresh(backlog[j]) /\ peer[backlog[j]] # "idle"
              /\ \A g \in Fds : fdtab[g] # backlog[j]
              /\ \A k \in 1..Len(backlog) : backlog[k] = backlog[j] => k = j
        BY DEF IInv, Ownership
      <4>3. \A j \in 1..Len(backlog) :
              /\ peer'[backlog[j]] = peer[backlog[j]]
              /\ replies'[backlog[j]] = replies[backlog[j]]
        BY <1>1, <1>5, <4>1
      <4>4. \A j \in 1..Len(backlog) : Fresh(backlog[j])'
        BY <1>2, <4>2, <4>3 DEF Fresh
      <4> QED
        BY <4>2, <4>3, <4>4
    <3>3. \A d \in Conns : peer'[d] = "idle" => Fresh(d)'
      BY <1>2, <1>5 DEF IInv, Ownership, Fresh
    <3> QED
      BY <1>2, <1>3, <3>1, <3>2, <3>3 DEF Ownership
  <2>7. RlenHolds'
    <3> SUFFICES ASSUME NEW g \in OpenFds
                 PROVE  /\ rlen[g] <= BufferLength
                        /\ \/ rlen[g] = nread[fdtab[g]]
                           \/ /\ rlen[g] = nread[fdtab[g]] - 1
                              /\ peer'[fdtab[g]] = "dead" /\ interest'[g] = "out"
      BY <1>2, <1>3 DEF RlenHolds
    <3>1. CASE g = fd
      BY <1>1, <1>5, <3>1 DEF IInv, RlenHolds
    <3>2. CASE g # fd
      <4>1. /\ interest'[g] = interest[g] /\ peer'[fdtab[g]] = peer[fdtab[g]]
        BY <1>3, <1>4, <1>5, <2>3, <3>2
      <4> QED
        BY <4>1 DEF IInv, RlenHolds
    <3> QED
      BY <3>1, <3>2
  <2>8. NewsToAnswer'
    <3> SUFFICES ASSUME NEW g \in OpenFds,
                        interest'[g] = "out", rlen[g] = nread[fdtab[g]]
                 PROVE  /\ nread[fdtab[g]] > 0
                        /\ \A k \in 1..Len(replies'[fdtab[g]]) :
                             replies'[fdtab[g]][k] < nread[fdtab[g]]
      BY <1>2, <1>3 DEF NewsToAnswer
    <3>1. g # fd
      BY <2>3
    <3> QED
      BY <1>3, <1>4, <1>5, <2>3, <3>1 DEF IInv, NewsToAnswer
  <2>9. RepliesFollowRequests' /\ KilledByBrokenPeer'
    <3> SUFFICES ASSUME NEW d \in Conns, NEW k \in 1..Len(replies'[d])
                 PROVE  /\ replies'[d][k] \in 1..nread[d]
                        /\ \A j \in 1..(k - 1) : replies'[d][j] < replies'[d][k]
      BY <1>2, <1>3, <1>5 DEF RepliesFollowRequests, KilledByBrokenPeer
    <3>1. CASE d = c
      BY <1>5, <3>1
    <3>2. CASE d # c
      BY <1>5, <3>2 DEF IInv, RepliesFollowRequests
    <3> QED
      BY <3>1, <3>2
  <2> QED
    BY <1>5, <2>2, <2>4, <2>5, <2>6, <2>7, <2>8, <2>9 DEF IInv
<1>6. /\ peer \in [Conns -> PeerState] /\ unread \in [Conns -> 0..SndRoom]
      /\ replies \in [Conns -> Seq(0..BufferLength)]
      /\ SndRoom \in Nat /\ BufferLength \in Nat
  BY <1>3, Typing DEF TypeOK, TcpTypeOK
<1>7. CASE /\ Send(c, "sent")
           /\ replies' = [replies EXCEPT ![c] = Append(@, rlen[fd])]
           /\ SetEvent(fd, "in")
           /\ UNCHANGED status
  <2>1. /\ ~Broken(c) /\ unread[c] < SndRoom
        /\ unread' = [unread EXCEPT ![c] = @ + 1]
        /\ UNCHANGED peer
    BY <1>7 DEF Send
  <2>2. rlen[fd] = nread[c] /\ nread[c] \in 1..BufferLength
    BY <1>1, <2>1 DEF Broken
  <2>3. /\ unread' \in [Conns -> 0..SndRoom]
        /\ \A d \in Conns \ {c} : unread'[d] = unread[d]
    BY <1>1, <1>6, <2>1
  <2>4. /\ replies[c] \in Seq(0..BufferLength) /\ rlen[fd] \in 0..BufferLength
        /\ replies'[c] = Append(replies[c], rlen[fd])
        /\ \A d \in Conns \ {c} : replies'[d] = replies[d]
    BY <1>1, <1>6, <1>7, <2>2
  <2>5. /\ replies'[c] \in Seq(0..BufferLength)
        /\ Len(replies[c]) \in Nat
        /\ Len(replies'[c]) = Len(replies[c]) + 1
        /\ \A k \in 1..Len(replies'[c]) :
             replies'[c][k] = IF k = Len(replies[c]) + 1 THEN rlen[fd] ELSE replies[c][k]
    BY <2>4, AppendElements
  <2>6. replies' \in [Conns -> Seq(0..BufferLength)]
    BY <1>1, <1>6, <1>7, <2>4, <2>5
  <2>7. \A k \in 1..Len(replies[c]) :
          /\ replies[c][k] \in 1..nread[c]
          /\ replies[c][k] < nread[c]
          /\ \A j \in 1..(k - 1) : replies[c][j] < replies[c][k]
    BY <1>1, <2>2 DEF IInv, RepliesFollowRequests, NewsToAnswer
  <2>8. \A k \in 1..Len(replies'[c]) :
          /\ replies'[c][k] \in 1..nread[c]
          /\ \A j \in 1..(k - 1) : replies'[c][j] < replies'[c][k]
    <3> SUFFICES ASSUME NEW k \in 1..Len(replies'[c])
                 PROVE  /\ replies'[c][k] \in 1..nread[c]
                        /\ \A j \in 1..(k - 1) : replies'[c][j] < replies'[c][k]
      OBVIOUS
    <3>1. CASE k = Len(replies[c]) + 1
      <4>1. replies'[c][k] = nread[c]
        BY <2>2, <2>5, <3>1
      <4>2. ASSUME NEW j \in 1..(k - 1) PROVE replies'[c][j] < nread[c]
        <5>1. j \in 1..Len(replies[c]) /\ j \in 1..Len(replies'[c]) /\ j # k
          BY <2>5, <3>1
        <5> QED
          BY <2>5, <2>7, <3>1, <5>1
      <4> QED
        BY <1>6, <2>2, <4>1, <4>2
    <3>2. CASE k \in 1..Len(replies[c])
      <4>1. replies'[c][k] = replies[c][k]
        <5>1. k # Len(replies[c]) + 1
          BY <2>5, <3>2
        <5> QED
          BY <2>5, <5>1
      <4>2. ASSUME NEW j \in 1..(k - 1) PROVE replies'[c][j] < replies[c][k]
        <5>1. j \in 1..Len(replies[c])
          BY <2>5, <3>2
        <5>2. j \in 1..Len(replies'[c]) /\ j # Len(replies[c]) + 1
          BY <2>5, <5>1
        <5>3. replies'[c][j] = replies[c][j]
          BY <2>5, <5>2
        <5> QED
          BY <2>7, <3>2, <5>1, <5>3
      <4> QED
        BY <2>7, <3>2, <4>1, <4>2
    <3>3. k = Len(replies[c]) + 1 \/ k \in 1..Len(replies[c])
      <4>1. k \in 1..(Len(replies[c]) + 1) /\ Len(replies[c]) \in Nat
        BY <2>5
      <4> QED
        BY <4>1
    <3> QED
      BY <3>1, <3>2, <3>3
  <2>9. BytesHold'
    <3>1. replies'[c] # <<>> /\ replies'[c][Len(replies'[c])] = nread[c]
      <4>1. Len(replies'[c]) = Len(replies[c]) + 1 /\ Len(replies[c]) \in Nat
        BY <2>5
      <4>2. replies'[c] # <<>>
        BY <4>1, EmptySeq
      <4>3. replies'[c][Len(replies'[c])] = rlen[fd]
        BY <2>5, <4>1
      <4> QED
        BY <2>2, <4>2, <4>3
    <3> QED
      BY <1>10, <2>1, <2>4, <3>1
  <2> QED
    BY <1>1, <1>5, <1>6, <1>7, <2>1, <2>2, <2>3, <2>4, <2>6, <2>8, <2>9
<1>8. CASE /\ Send(c, "reset")
           /\ SetEvent(fd, "in")
           /\ UNCHANGED <<status, replies>>
  <2>1. /\ peer[c] = "rst"
        /\ peer' = [peer EXCEPT ![c] = "dead"]
        /\ UNCHANGED unread
    BY <1>8 DEF Send
  <2>2. /\ peer' \in [Conns -> PeerState] /\ peer'[c] = "dead"
        /\ \A d \in Conns \ {c} : peer'[d] = peer[d]
    BY <1>1, <1>6, <2>1 DEF PeerState
  <2>3. rlen[fd] = nread[c]
    BY <1>1, <2>1
  <2>4. \A k \in 1..Len(replies[c]) :
          /\ replies[c][k] \in 1..nread[c]
          /\ \A j \in 1..(k - 1) : replies[c][j] < replies[c][k]
    BY <1>1 DEF IInv, RepliesFollowRequests
  <2>5. BytesHold'
    <3>1. \A d \in Conns \ {c} : peer'[d] = peer[d] /\ replies'[d] = replies[d]
      BY <1>8, <2>2
    <3>2. peer'[c] \in {"rst", "finrst", "dead"}
      BY <2>2
    <3> QED
      BY <1>10, <3>1, <3>2
  <2> QED
    BY <1>5, <1>6, <1>8, <2>1, <2>2, <2>3, <2>4, <2>5
<1>9. CASE /\ Send(c, "pipe")
           /\ status' = "killed"
           /\ UNCHANGED <<interest, replies>>
  <2>1. peer[c] \in {"finrst", "dead"} /\ UNCHANGED <<peer, unread>>
    BY <1>9 DEF Send
  <2>2. TypeOK'
    BY <1>0, <1>2, <1>3, <1>9, <2>1 DEF TypeOK, TcpTypeOK
  <2>8. BytesHold'
    <3>1. \A d \in Conns \ {c} : peer'[d] = peer[d] /\ replies'[d] = replies[d]
      BY <1>9, <2>1
    <3>2. peer'[c] \in {"rst", "finrst", "dead"}
      BY <2>1
    <3> QED
      BY <1>10, <3>1, <3>2
  <2>3. EventsFresh' /\ NeverBlocks'
    BY <1>2, <1>9, <2>1, DispatchingTakes, EventsKept
  <2>4. Dormant' /\ Registered'
    BY <1>2, <1>3, <1>9 DEF IInv, Dormant, Registered, Live
  <2>5. Ownership'
    BY <1>2, <1>3, <1>9, <2>1 DEF IInv, Ownership, Fresh
  <2>6. RlenHolds' /\ NewsToAnswer' /\ RepliesFollowRequests'
    BY <1>2, <1>3, <1>9, <2>1 DEF IInv, RlenHolds, NewsToAnswer,
       RepliesFollowRequests
  <2>7. KilledByBrokenPeer'
    <3>1. rlen[fd] > LastReply(c) \/ rlen[fd] = nread[c] - 1
      <4>1. CASE rlen[fd] = nread[c]
        <5>1. /\ nread[c] > 0
              /\ \A k \in 1..Len(replies[c]) : replies[c][k] < nread[c]
          BY <1>1, <4>1 DEF IInv, NewsToAnswer
        <5>2. replies[c] # <<>> => Len(replies[c]) \in 1..Len(replies[c])
          BY <1>1, <1>6, EmptySeq
        <5> QED
          BY <4>1, <5>1, <5>2, <1>1 DEF LastReply
      <4> QED
        BY <1>1, <4>1 DEF IInv, RlenHolds
    <3> QED
      BY <1>1, <1>2, <1>3, <1>9, <2>1, <3>1 DEF KilledByBrokenPeer, LastReply
  <2> QED
    BY <2>2, <2>3, <2>4, <2>5, <2>6, <2>7, <2>8 DEF IInv
<1> QED
  BY <1>2, <1>7, <1>8, <1>9 DEF SendCb

\* What accept_cb is called with: only the listening socket has this callback.
LEMMA AcceptFacts ==
  ASSUME IInv, Accepting, Taking
  PROVE  NextEvent.fd = ListenFd /\ backlog # <<>>
<1>1. NextEvent.ev = "in" /\ callback[NextEvent.fd] = "accept_cb"
  BY DEF Accepting
<1>2. /\ Live /\ NextEvent.fd \in AllFds /\ interest[NextEvent.fd] = "in"
      /\ NextEvent.fd = ListenFd => backlog # <<>>
  BY <1>1, DispatchFacts
<1>3. NextEvent.fd \notin Fds
  BY <1>1, <1>2 DEF IInv, Registered
<1> QED
  BY <1>2, <1>3 DEF AllFds

\* accept_cb takes the first waiting connection onto a descriptor that no
\* event of the batch is about.
LEMMA AcceptIInv ==
  ASSUME IInv, HandleAccept
  PROVE  IInv'
<1>1. NextEvent.fd = ListenFd /\ backlog # <<>>
  BY DispatchingTakes, AcceptFacts DEF HandleAccept
<1>2. /\ Dispatching /\ AcceptCb
      /\ UNCHANGED <<peer, sent, nread, unread, done, status, replies>>
  BY DEF HandleAccept, AcceptCb
<1>3. /\ status = "run" /\ Live /\ TypeOK
      /\ events' \in Seq(Event)
      /\ ListenFd \in AllFds /\ ListenFd \notin Fds /\ Fds \subseteq AllFds
      /\ NoConn \notin Conns
      /\ backlog \in Seq(Conns)
  BY <1>2, DispatchingTakes, DispatchFacts, Typing, TcpAssumption DEF TcpAssumption, TypeOK, TcpTypeOK
<1>4. ASSUME NEW fd \in Fds,
             AcceptConn(fd), SetEvent(fd, "in"), ResetItem(fd),
             callback' = [callback EXCEPT ![fd] = "receive_cb"]
      PROVE  IInv'
  <2> DEFINE c == backlog[1]
  <2>1. /\ backlog' \in Seq(Conns)
        /\ Len(backlog) \in Nat
        /\ Len(backlog') = Len(backlog) - 1
        /\ \A k \in 1..Len(backlog') :
             k + 1 \in 1..Len(backlog) /\ backlog'[k] = backlog[k + 1]
        /\ 1 \in 1..Len(backlog)
        /\ Head(backlog) = c /\ c \in Conns
    BY <1>1, <1>3, <1>4, TailElements DEF AcceptConn
  <2>2. /\ fdtab[fd] = NoConn
        /\ fdtab' = [fdtab EXCEPT ![fd] = c]
        /\ interest' = [interest EXCEPT ![fd] = "in"]
        /\ rlen' = [rlen EXCEPT ![fd] = 0]
        /\ rbuf' = [rbuf EXCEPT ![fd] = Zeros]
    BY <1>4, <2>1 DEF AcceptConn, FreeFds, SetEvent, ResetItem, Cleared
  <2>3. /\ Fresh(c) /\ peer[c] # "idle"
        /\ \A g \in Fds : fdtab[g] # c
        /\ \A k \in 1..Len(backlog) : backlog[k] = c => k = 1
    BY <2>1 DEF IInv, Ownership
  <2>4. TypeOK'
    <3>1. TcpTypeOK'
      BY <1>2, <1>3, <2>1, <2>2 DEF TypeOK, TcpTypeOK
    <3>2. 0 \in -1..BufferLength
      BY ReactorAssumption DEF ReactorAssumption
    <3>3. /\ interest' \in [AllFds -> {"none", "in", "out"}]
          /\ callback' \in [AllFds -> {"none", "accept_cb", "receive_cb"}]
          /\ rlen' \in [Fds -> -1..BufferLength]
      BY <1>3, <1>4, <2>2, <3>2 DEF TypeOK
    <3>4. Zeros \in [Positions -> Byte]
      BY DEF Zeros, Zero, Byte
    <3>5. rbuf' \in [Fds -> [Positions -> Byte]]
      BY <1>3, <2>2, <3>4 DEF TypeOK
    <3> QED
      BY <1>2, <1>3, <3>1, <3>3, <3>5 DEF TypeOK
  <2>5. /\ fdtab'[fd] = c /\ interest'[fd] = "in" /\ rlen'[fd] = 0
        /\ callback'[fd] = "receive_cb"
        /\ interest'[ListenFd] = interest[ListenFd]
        /\ callback'[ListenFd] = callback[ListenFd]
        /\ rbuf'[fd] = Zeros
        /\ \A g \in Fds : g # fd =>
             /\ fdtab'[g] = fdtab[g] /\ interest'[g] = interest[g]
             /\ rlen'[g] = rlen[g] /\ callback'[g] = callback[g]
             /\ rbuf'[g] = rbuf[g]
    BY <1>3, <1>4, <2>2 DEF TypeOK, TcpTypeOK
  <2>6. /\ OpenFds' = OpenFds \cup {fd} /\ fd \notin OpenFds
        /\ OpenFds \subseteq Fds
        /\ interest[fd] = "none"
    BY <1>3, <2>1, <2>2, <2>5 DEF OpenFds, IInv, Registered
  <2>7. EventsFresh' /\ NeverBlocks'
    <3>1. \A g \in AllFds : g = ListenFd \/ g \in Fds
      BY DEF AllFds
    <3> QED
      BY <1>1, <1>2, <2>5, <2>6, <3>1, DispatchingTakes, EventsKept
  <2>8. Dormant' /\ Registered'
    BY <1>2, <1>3, <2>5, <2>6 DEF IInv, Dormant, Registered, Live
  <2>9. Ownership'
    <3>1. ASSUME NEW g \in OpenFds'
          PROVE  /\ fdtab'[g] \notin done /\ peer[fdtab'[g]] # "idle"
                 /\ \A other \in OpenFds' : fdtab'[other] = fdtab'[g] => other = g
      <4>1. CASE g = fd
        BY <2>3, <2>5, <2>6, <4>1 DEF Fresh
      <4>2. CASE g \in OpenFds
        BY <2>3, <2>5, <2>6, <4>2 DEF IInv, Ownership
      <4> QED
        BY <2>6, <4>1, <4>2
    <3>2. ASSUME NEW j \in 1..Len(backlog')
          PROVE  /\ Fresh(backlog[j])' /\ peer[backlog'[j]] # "idle"
                 /\ \A g \in Fds : fdtab'[g] # backlog'[j]
                 /\ \A k \in 1..Len(backlog') : backlog'[k] = backlog'[j] => k = j
      <4>1. j + 1 \in 1..Len(backlog) /\ backlog'[j] = backlog[j + 1] /\ j + 1 # 1
        BY <2>1
      <4>2. /\ Fresh(backlog[j + 1]) /\ peer[backlog[j + 1]] # "idle"
            /\ \A g \in Fds : fdtab[g] # backlog[j + 1]
            /\ \A k \in 1..Len(backlog) : backlog[k] = backlog[j + 1] => k = j + 1
        BY <4>1 DEF IInv, Ownership
      <4>3. backlog[j + 1] # c
        BY <2>3, <4>1
      <4>4. ASSUME NEW k \in 1..Len(backlog'), backlog'[k] = backlog'[j]
            PROVE  k = j
        <5>1. k + 1 \in 1..Len(backlog) /\ backlog'[k] = backlog[k + 1]
          BY <2>1
        <5>2. k + 1 = j + 1
          BY <4>1, <4>2, <4>4, <5>1
        <5> QED
          BY <5>2
      <4>5. \A g \in Fds : fdtab'[g] # backlog'[j]
        BY <2>5, <4>1, <4>2, <4>3
      <4>6. Fresh(backlog[j])'
        BY <1>2, <4>1, <4>2 DEF Fresh
      <4> QED
        BY <4>1, <4>2, <4>4, <4>5, <4>6
    <3>3. \A d \in Conns : peer[d] = "idle" => Fresh(d)'
      BY <1>2 DEF IInv, Ownership, Fresh
    <3> QED
      BY <1>2, <3>1, <3>2, <3>3 DEF Ownership
  <2>10. RlenHolds'
    <3> SUFFICES ASSUME NEW g \in OpenFds'
                 PROVE  /\ rlen'[g] <= BufferLength
                        /\ \/ rlen'[g] = nread[fdtab'[g]]
                           \/ /\ rlen'[g] = nread[fdtab'[g]] - 1
                              /\ peer[fdtab'[g]] = "dead" /\ interest'[g] = "out"
      BY <1>2 DEF RlenHolds
    <3>1. CASE g = fd
      BY <2>3, <2>5, <3>1, ReactorAssumption DEF Fresh, ReactorAssumption
    <3>2. CASE g \in OpenFds
      BY <2>5, <2>6, <3>2 DEF IInv, RlenHolds
    <3> QED
      BY <2>6, <3>1, <3>2
  <2>11. NewsToAnswer'
    <3> SUFFICES ASSUME NEW g \in OpenFds',
                        interest'[g] = "out", rlen'[g] = nread[fdtab'[g]]
                 PROVE  /\ nread[fdtab'[g]] > 0
                        /\ \A k \in 1..Len(replies[fdtab'[g]]) :
                             replies[fdtab'[g]][k] < nread[fdtab'[g]]
      BY <1>2 DEF NewsToAnswer
    <3> QED
      BY <2>5, <2>6 DEF IInv, NewsToAnswer
  <2>12. RepliesFollowRequests' /\ KilledByBrokenPeer'
    BY <1>2, <1>3 DEF IInv, RepliesFollowRequests, KilledByBrokenPeer
  <2>13. BytesHold'
    <3> SUFFICES ASSUME NEW g \in OpenFds'
                 PROVE  BytesRight(rbuf'[g], fdtab'[g], nread'[fdtab'[g]],
                                   replies'[fdtab'[g]], peer'[fdtab'[g]])
      BY BytesHoldNext
    <3>1. CASE g \in OpenFds
      BY <1>2, <2>5, <2>6, <3>1, BytesKept DEF IInv
    <3>2. CASE g = fd
      <4>1. nread'[c] = 0 /\ replies'[c] = <<>>
        BY <1>2, <2>3 DEF Fresh
      <4>2. \A k \in Positions : k > 0 /\ Zeros[k] = Zero
        BY ReactorAssumption DEF Positions, Zeros
      <4>3. BytesRight(Zeros, c, 0, <<>>, peer'[c])
        BY <4>2 DEF BytesRight
      <4> QED
        BY <2>5, <3>2, <4>1, <4>3
    <3> QED
      BY <2>6, <3>1, <3>2
  <2> QED
    BY <2>4, <2>7, <2>8, <2>9, <2>10, <2>11, <2>12, <2>13 DEF IInv
<1> QED
  BY <1>2, <1>4 DEF AcceptCb

\* When accept fails, only events at the end of the batch are lost.
LEMMA AcceptFailsIInv ==
  ASSUME IInv, HandleAcceptFails
  PROVE  IInv'
<1>1. /\ UNCHANGED <<peer, sent, nread, unread, backlog, fdtab, done>>
      /\ UNCHANGED <<interest, rlen, rbuf, callback, replies>>
      /\ status = "run" /\ events # <<>>
  BY DEF HandleAcceptFails, AcceptCbFails, Accepting, tcpVars
<1>2. Taking /\ status' \in {"run", "crashed"}
  <2>1. CASE Dispatching /\ UNCHANGED status
    BY <1>1, <2>1, DispatchingTakes
  <2>2. CASE Blanked
    BY <1>1, <2>2, BlankedTakes DEF Blanked
  <2>3. CASE Crashed
    BY <1>1, <2>3, DispatchingTakes DEF Crashed, Dispatching
  <2> QED
    BY <2>1, <2>2, <2>3 DEF HandleAcceptFails
<1>3. TypeOK /\ TypeOK' /\ OpenFds' = OpenFds
  BY <1>1, <1>2 DEF IInv, TypeOK, TcpTypeOK, OpenFds, Taking
<1>4. EventsFresh' /\ NeverBlocks'
  BY <1>1, <1>2, EventsKept
<1>5. Dormant' /\ Registered' /\ Ownership'
  BY <1>1, <1>2, <1>3 DEF IInv, Dormant, Registered, Live, Ownership, Fresh
<1>6. /\ RlenHolds' /\ NewsToAnswer' /\ RepliesFollowRequests'
      /\ KilledByBrokenPeer'
  BY <1>1, <1>2, <1>3 DEF IInv, RlenHolds, NewsToAnswer,
     RepliesFollowRequests, KilledByBrokenPeer
<1>7. BytesHold'
  BY <1>1, <1>3, BytesKept, BytesHoldNext DEF IInv
<1> QED
  BY <1>3, <1>4, <1>5, <1>6, <1>7 DEF IInv

\* No variable changes.
LEMMA StutterIInv == IInv /\ UNCHANGED vars => IInv'
<1> SUFFICES ASSUME IInv, UNCHANGED vars PROVE IInv'
  OBVIOUS
<1> USE DEF vars, tcpVars, srvVars
<1>1. TypeOK' /\ OpenFds' = OpenFds
  BY DEF IInv, TypeOK, TcpTypeOK, OpenFds
<1>2. Dormant' /\ Registered' /\ EventsFresh' /\ Ownership'
  BY <1>1 DEF IInv, Dormant, Registered, Live, EventsFresh, ConnOf, Ownership, Fresh
<1>3. NeverBlocks'
  BY DEF IInv, NeverBlocks, Readable, Writable, Avail, Broken
<1>4. /\ RlenHolds' /\ NewsToAnswer' /\ RepliesFollowRequests'
      /\ KilledByBrokenPeer'
  BY <1>1 DEF IInv, RlenHolds, NewsToAnswer, RepliesFollowRequests,
     KilledByBrokenPeer, LastReply
<1>5. BytesHold'
  BY <1>1, BytesKept, BytesHoldNext DEF IInv
<1> QED
  BY <1>1, <1>2, <1>3, <1>4, <1>5 DEF IInv

-----------------------------------------------------------------------------
(* The theorems. *)

\* IInv is an inductive invariant of the epoll server.
THEOREM Invariance == Spec => []IInv
<1>1. Init => IInv
  BY InitIInv
<1>2. IInv /\ [Next]_vars => IInv'
  <2> SUFFICES ASSUME IInv, [Next]_vars PROVE IInv'
    OBVIOUS
  <2>1. CASE Boot
    BY <2>1, BootIInv
  <2>2. CASE EpollWait
    BY <2>2, EpollWaitIInv
  <2>3. CASE HandleAccept
    BY <2>3, AcceptIInv
  <2>8. CASE HandleAcceptFails
    BY <2>8, AcceptFailsIInv
  <2>4. CASE HandleReceive
    BY <2>4, ReceiveIInv
  <2>5. CASE HandleSend
    BY <2>5, SendIInv
  <2>6. ASSUME NEW c \in Conns, ClientStep(c) PROVE IInv'
    BY <2>6, ClientIInv
  <2>7. CASE UNCHANGED vars
    BY <2>7, StutterIInv
  <2> QED
    BY <2>1, <2>2, <2>3, <2>4, <2>5, <2>6, <2>7, <2>8 DEF Next, Server
<1> QED
  BY <1>1, <1>2, PTL DEF Spec

\* Every variable of the epoll server keeps its type; in particular rlen stays
\* within rbuffer, and no callback is called on a descriptor it cannot have.
THEOREM TypeCorrect == Spec => []TypeOK
<1>1. IInv => TypeOK
  BY DEF IInv
<1> QED
  BY <1>1, Invariance, PTL

\* A descriptor is registered with epoll exactly as long as it is open.
THEOREM RegisteredHolds == Spec => []Registered
<1>1. IInv => Registered
  BY DEF IInv
<1> QED
  BY <1>1, Invariance, PTL

\* No event of a batch reaches another connection than it was reported for,
\* however many descriptors are closed and reused within the batch.
THEOREM EventsFreshHolds == Spec => []EventsFresh
<1>1. IInv => EventsFresh
  BY DEF IInv
<1> QED
  BY <1>1, Invariance, PTL

\* No callback ever waits inside accept, recv or send.
THEOREM NeverBlocksHolds == Spec => []NeverBlocks
<1>1. IInv => NeverBlocks
  BY DEF IInv
<1> QED
  BY <1>1, Invariance, PTL

\* rlen counts the bytes read on the descriptor's own connection and rbuffer
\* never overflows; it holds those bytes, zeros and the answer, and nothing of
\* an earlier connection; what is still to be answered was not written over.
THEOREM BufferHolds == Spec => []BufferHoldsOwnBytes
<1>1. IInv => BufferHoldsOwnBytes
  BY DEF IInv, BufferHoldsOwnBytes
<1> QED
  BY <1>1, Invariance, PTL

\* Every answer follows a request that was not answered before.
THEOREM RepliesFollow == Spec => []RepliesFollowRequests
<1>1. IInv => RepliesFollowRequests
  BY DEF IInv
<1> QED
  BY <1>1, Invariance, PTL

\* Only the answer to a broken connection can kill the server.
THEOREM KilledOnlyByBrokenPeer == Spec => []KilledByBrokenPeer
<1>1. IInv => KilledByBrokenPeer
  BY DEF IInv
<1> QED
  BY <1>1, Invariance, PTL

\* A connection is closed only at the end of its stream or with rbuffer full.
THEOREM ClosedOnlyAtEndOrFull == Spec => CloseOnlyAtEndOrFull
<1> DEFINE Justified(c) == \/ peer[c] \in {"fin", "finrst", "dead"} /\ Avail(c) = 0
                           \/ nread[c] = BufferLength
<1>1. ASSUME IInv, Next PROVE \A c \in done' \ done : Justified(c)
  <2>1. CASE HandleReceive
    <3> DEFINE fd == NextEvent.fd
    <3>1. \/ Hangup(fd) /\ Justified(fdtab[fd])
          \/ \E cnt \in -1..BufferLength : Received(fd, cnt)
      <4>1. -1 \in -1..BufferLength /\ 1..BufferLength \subseteq -1..BufferLength
        BY ReactorAssumption DEF ReactorAssumption
      <4> QED
        BY <1>1, <2>1, <4>1, ReceiveCases
    <3>2. Hangup(fd) => done' \ done \subseteq {fdtab[fd]}
      BY DEF Hangup, CloseFd
    <3>3. \A cnt \in -1..BufferLength : Received(fd, cnt) => done' = done
      BY DEF Received
    <3> QED
      BY <3>1, <3>2, <3>3
  <2>2. CASE Boot \/ EpollWait \/ HandleAccept \/ HandleAcceptFails \/ HandleSend
    BY <2>2 DEF Boot, BindOrListenFails, EpollWait, HandleAccept, AcceptCb, HandleSend,
       HandleAcceptFails, AcceptCbFails, SendCb, tcpVars
  <2>3. ASSUME NEW c \in Conns, ClientStep(c) PROVE done' = done
    BY <1>1, <2>3, ClientEffect
  <2> QED
    BY <1>1, <2>1, <2>2, <2>3 DEF Next, Server
<1>2. IInv /\ [Next]_vars => [\A c \in done' \ done : Justified(c)]_vars
  BY <1>1
<1>3. Spec => [][\A c \in done' \ done : Justified(c)]_vars
  BY <1>2, Invariance, PTL DEF Spec
<1> QED
  BY <1>3 DEF CloseOnlyAtEndOrFull

-----------------------------------------------------------------------------
(* The epoll server implements Conversation. *)

TalkStep == [Talk!Next]_(Talk!conversationVars)

-----------------------------------------------------------------------------
(* Where the conversations stand. *)

\* Nothing that the conversations are about changes.
LEMMA TalkStutters ==
  ASSUME UNCHANGED <<nread, replies>>,
         \A c \in Conns : Phase(c)' = Phase(c) /\ Broken(c)' = Broken(c)
  PROVE  TalkStep
<1>1. [c \in Conns |-> Phase(c)]' = [c \in Conns |-> Phase(c)]
  OBVIOUS
<1>2. {c \in Conns : Broken(c)}' = {c \in Conns : Broken(c)}
  OBVIOUS
<1>3. [c \in Conns |-> Len(replies[c])]' = [c \in Conns |-> Len(replies[c])]
  OBVIOUS
<1> QED
  BY <1>1, <1>2, <1>3 DEF TalkStep, Talk!conversationVars

LEMMA TalkInit ==
  ASSUME Init
  PROVE  Talk!Init
<1>1. \A c \in Conns : FdsOf(c) = {} /\ ~Broken(c) /\ c \notin done
  BY TcpAssumption DEF Init, TcpInit, FdsOf, Broken, TcpAssumption
<1>2. \A c \in Conns : Phase(c) = "waiting"
  BY <1>1 DEF Phase
<1>3. [c \in Conns |-> Phase(c)] = [c \in Conns |-> "waiting"]
  BY <1>2
<1>4. {c \in Conns : Broken(c)} = {}
  BY <1>1
<1>5. [c \in Conns |-> Len(replies[c])] = [c \in Conns |-> 0]
  <2>1. \A c \in Conns : replies[c] = <<>>
    BY DEF Init
  <2>2. \A c \in Conns : Len(replies[c]) = 0
    BY <2>1
  <2> QED
    BY <2>2
<1>6. nread = [c \in Conns |-> 0]
  BY DEF Init, TcpInit
<1> QED
  BY <1>3, <1>4, <1>5, <1>6 DEF Talk!Init

\* One conversation takes a turn while the others stay where they are.
LEMMA TurnTaken ==
  ASSUME NEW c \in Conns, NEW from, NEW to, Phase(c) = from, Phase(c)' = to,
         \A d \in Conns : d # c => Phase(d)' = Phase(d)
  PROVE  Talk!Turn(c, from, to)
<1>1. [d \in Conns |-> Phase(d)][c] = from
  OBVIOUS
<1>2. [d \in Conns |-> Phase(d)]' = [[d \in Conns |-> Phase(d)] EXCEPT ![c] = to]
  OBVIOUS
<1> QED
  BY <1>1, <1>2 DEF Talk!Turn

LEMMA SameBroken ==
  ASSUME \A d \in Conns : Broken(d)' = Broken(d)
  PROVE  {d \in Conns : Broken(d)}' = {d \in Conns : Broken(d)}
OBVIOUS

LEMMA SameSaid ==
  ASSUME replies' = replies
  PROVE  [d \in Conns |-> Len(replies[d])]' = [d \in Conns |-> Len(replies[d])]
OBVIOUS

\* An open descriptor is the only one of its connection.
LEMMA OwnDescriptor ==
  ASSUME IInv, NEW fd \in OpenFds
  PROVE  /\ fd \in Fds /\ fdtab[fd] \in Conns
         /\ FdsOf(fdtab[fd]) = {fd} /\ fdtab[fd] \notin done
         /\ \A d \in Conns : d # fdtab[fd] => fd \notin FdsOf(d)
<1>1. fd \in Fds /\ fdtab[fd] \in Conns /\ NoConn \notin Conns
  BY Typing, TcpAssumption DEF IInv, TcpAssumption
<1>2. \A g \in Fds : fdtab[g] = fdtab[fd] => g \in OpenFds
  BY <1>1 DEF OpenFds
<1> QED
  BY <1>1, <1>2 DEF IInv, Ownership, FdsOf

\* What a change of one descriptor's registration means for the others.
LEMMA OthersStay ==
  ASSUME TypeOK, NEW fd \in Fds, NEW c \in Conns, NEW event,
         \A d \in Conns : d # c => fd \notin FdsOf(d),
         interest' = [interest EXCEPT ![fd] = event],
         \A d \in Conns : d # c => FdsOf(d)' = FdsOf(d) /\ (d \in done' <=> d \in done)
  PROVE  \A d \in Conns : d # c => Phase(d)' = Phase(d)
<1> SUFFICES ASSUME NEW d \in Conns, d # c PROVE Phase(d)' = Phase(d)
  OBVIOUS
<1>1. \A g \in FdsOf(d) : interest'[g] = interest[g]
  <2>1. \A g \in FdsOf(d) : g \in AllFds /\ g # fd
    BY DEF FdsOf, AllFds
  <2> QED
    BY <2>1 DEF TypeOK
<1>2. (\E g \in FdsOf(d) : interest[g] = "out")' <=> (\E g \in FdsOf(d) : interest[g] = "out")
  BY <1>1
<1> QED
  BY <1>2 DEF Phase

-----------------------------------------------------------------------------
(* The number of answers. *)

\* The answers grow, so there are no more of them than bytes in the last.
Counted ==
  \A c \in Conns : \A i \in 1..Len(replies[c]) : i <= replies[c][i]

\* What send_cb answers is longer than the number of answers so far.
LEMMA AnswerCounts ==
  ASSUME IInv, Counted, HandleSend, ~Broken(fdtab[NextEvent.fd])
  PROVE  LET fd == NextEvent.fd
             c == fdtab[fd]
         IN rlen[fd] = nread[c] /\ Len(replies[c]) < nread[c] /\ Len(replies[c]) \in Nat
<1> DEFINE fd == NextEvent.fd
           c == fdtab[fd]
<1>1. /\ fd \in OpenFds /\ c \in Conns /\ interest[fd] = "out"
      /\ rlen[fd] = nread[c] /\ nread[c] \in 1..BufferLength
  BY SendFacts DEF Broken
<1>2. replies[c] \in Seq(0..BufferLength) /\ BufferLength \in Nat
  BY <1>1, Typing DEF IInv, TypeOK
<1>3. \A k \in 1..Len(replies[c]) : replies[c][k] < nread[c] /\ k <= replies[c][k]
  BY <1>1 DEF IInv, NewsToAnswer, Counted
<1>4. Len(replies[c]) \in Nat
  BY <1>2, LenProperties
<1>5. CASE Len(replies[c]) = 0
  BY <1>1, <1>5
<1>6. CASE Len(replies[c]) # 0
  <2>1. Len(replies[c]) \in 1..Len(replies[c])
    BY <1>4, <1>6
  <2>2. replies[c][Len(replies[c])] \in 0..BufferLength
    BY <1>2, <2>1, ElementOfSeq
  <2> QED
    BY <1>1, <1>2, <1>3, <1>4, <2>1, <2>2
<1> QED
  BY <1>1, <1>4, <1>5, <1>6

LEMMA CountedStep == IInv /\ Counted /\ [Next]_vars => Counted'
<1> SUFFICES ASSUME IInv, Counted, [Next]_vars PROVE Counted'
  OBVIOUS
<1>1. CASE replies' = replies
  BY <1>1 DEF Counted
<1>2. CASE HandleSend /\ replies' # replies
  <2> DEFINE fd == NextEvent.fd
  <2>1. /\ Send(fdtab[fd], "sent")
        /\ replies' = [replies EXCEPT ![fdtab[fd]] = Append(@, rlen[fd])]
    BY <1>2 DEF HandleSend, SendCb
  <2>2. PICK c \in Conns : c = fdtab[fd]
    BY <1>2, SendFacts
  <2>3. rlen[fd] = nread[c] /\ Len(replies[c]) < nread[c] /\ nread[c] \in 1..BufferLength
    BY <1>2, <2>1, <2>2, AnswerCounts, SendFacts DEF Send, Broken
  <2>4. /\ replies'[c] = Append(replies[c], nread[c])
        /\ \A d \in Conns : d # c => replies'[d] = replies[d]
    BY <2>1, <2>2, <2>3 DEF IInv, TypeOK
  <2>5. replies[c] \in Seq(0..BufferLength) /\ nread[c] \in 0..BufferLength
    BY <2>3, ReactorAssumption DEF IInv, TypeOK, ReactorAssumption
  <2>6. /\ Len(replies[c]) \in Nat /\ Len(replies'[c]) = Len(replies[c]) + 1
        /\ \A k \in 1..Len(replies'[c]) :
             replies'[c][k] = IF k = Len(replies[c]) + 1 THEN nread[c] ELSE replies[c][k]
    BY <2>4, <2>5, AppendElements
  <2>7. \A k \in 1..Len(replies'[c]) : k <= replies'[c][k]
    <3> SUFFICES ASSUME NEW k \in 1..Len(replies'[c]) PROVE k <= replies'[c][k]
      OBVIOUS
    <3>1. CASE k = Len(replies[c]) + 1
      BY <2>3, <2>6, <3>1
    <3>2. CASE k # Len(replies[c]) + 1
      <4>1. k \in 1..Len(replies[c]) /\ replies'[c][k] = replies[c][k]
        BY <2>6, <3>2
      <4> QED
        BY <4>1 DEF Counted
    <3> QED
      BY <3>1, <3>2
  <2> QED
    BY <2>4, <2>7 DEF Counted
<1>3. CASE Boot \/ EpollWait \/ HandleAccept \/ HandleAcceptFails
  <2>1. replies' = replies
    BY <1>3 DEF Boot, EpollWait, HandleAccept, AcceptCb, HandleAcceptFails, AcceptCbFails
  <2> QED
    BY <1>1, <2>1
<1>4. CASE HandleReceive
  BY <1>1, <1>4, ReceiveCases
<1>5. ASSUME NEW c \in Conns, ClientStep(c) PROVE Counted'
  BY <1>1, <1>5, ClientEffect
<1>6. CASE UNCHANGED vars
  BY <1>1, <1>6 DEF vars, srvVars
<1> QED
  BY <1>1, <1>2, <1>3, <1>4, <1>5, <1>6 DEF Next, Server

\* There are never more answers to a client than bytes that were read of it.
LEMMA CountedHolds == Spec => []Counted
<1>1. Init => Counted
  BY DEF Init, Counted
<1> QED
  BY <1>1, CountedStep, Invariance, PTL DEF Spec

-----------------------------------------------------------------------------
(* One lemma per action: it is a step of the conversations, or none. *)

\* init, epoll_wait, and accept_cb when accept fails.
LEMMA IdleTalk ==
  ASSUME IInv, Boot \/ EpollWait \/ HandleAcceptFails \/ UNCHANGED vars
  PROVE  TalkStep
<1>1. UNCHANGED <<peer, nread, fdtab, done, replies>>
  BY DEF Boot, EpollWait, HandleAcceptFails, AcceptCbFails, vars, tcpVars, srvVars
<1>2. \A c \in Conns : FdsOf(c)' = FdsOf(c) /\ Broken(c)' = Broken(c)
  BY <1>1 DEF FdsOf, Broken
<1>3. \A c \in Conns : Phase(c)' = Phase(c)
  <2>1. CASE interest' = interest
    BY <1>1, <1>2, <2>1 DEF Phase
  <2>2. CASE Boot
    <3>1. \A c \in Conns : FdsOf(c) = {}
      BY <2>2, TcpAssumption DEF IInv, Boot, Dormant, Live, FdsOf, TcpAssumption
    <3> QED
      BY <1>1, <1>2, <3>1 DEF Phase
  <2> QED
    BY <2>1, <2>2 DEF EpollWait, HandleAcceptFails, AcceptCbFails, vars, srvVars
<1> QED
  BY <1>1, <1>2, <1>3, TalkStutters

\* accept_cb admits the client.
LEMMA AcceptTalk ==
  ASSUME IInv, HandleAccept
  PROVE  TalkStep
<1>1. PICK fd \in Fds : AcceptConn(fd) /\ SetEvent(fd, "in")
  BY DEF HandleAccept, AcceptCb
<1>2. TypeOK /\ backlog \in Seq(Conns) /\ backlog # <<>>
  BY <1>1 DEF IInv, TypeOK, TcpTypeOK, AcceptConn
<1>3. Head(backlog) \in Conns /\ Head(backlog) = backlog[1] /\ 1 \in 1..Len(backlog)
  BY <1>2, TailElements
<1>4. PICK c \in Conns : c = Head(backlog) /\ c = backlog[1]
  BY <1>3
<1>5. c \notin done /\ FdsOf(c) = {}
  BY <1>3, <1>4 DEF IInv, Ownership, Fresh, FdsOf
<1>6. /\ fdtab[fd] = NoConn /\ fdtab'[fd] = c
      /\ \A g \in Fds : g # fd => fdtab'[g] = fdtab[g]
  BY <1>1, <1>2, <1>4 DEF AcceptConn, FreeFds, TypeOK, TcpTypeOK
<1>7. FdsOf(c)' = {fd}
  BY <1>5, <1>6 DEF FdsOf
<1>8. \A d \in Conns : d # c => FdsOf(d)' = FdsOf(d)
  BY <1>6, TcpAssumption DEF FdsOf, TcpAssumption
<1>9. UNCHANGED <<peer, nread, replies, done>>
  BY DEF HandleAccept, AcceptCb
<1>10. interest' = [interest EXCEPT ![fd] = "in"] /\ interest'[fd] = "in"
  BY <1>1, <1>2 DEF SetEvent, TypeOK, AllFds
<1>11. Phase(c) = "waiting"
  BY <1>5 DEF Phase
<1>12. Phase(c)' = "listening"
  BY <1>5, <1>7, <1>9, <1>10 DEF Phase
<1>13. \A d \in Conns : d # c => Phase(d)' = Phase(d)
  <2>1. \A d \in Conns : d # c => fd \notin FdsOf(d)
    BY <1>6, TcpAssumption DEF FdsOf, TcpAssumption
  <2> QED
    BY <1>2, <1>8, <1>9, <1>10, <2>1, OthersStay
<1>14. Talk!Turn(c, "waiting", "listening")
  BY <1>11, <1>12, <1>13, TurnTaken
<1>15. {d \in Conns : Broken(d)}' = {d \in Conns : Broken(d)}
  BY <1>9, SameBroken DEF Broken
<1>16. Talk!Admit(c)
  BY <1>9, <1>14, <1>15, SameSaid DEF Talk!Admit
<1> QED
  BY <1>16 DEF TalkStep, Talk!Next

\* receive_cb hears something new, or the end; the error of a reset is an
\* empty turn.
LEMMA ReceiveTalk ==
  ASSUME IInv, HandleReceive
  PROVE  TalkStep
<1>1. PICK fd \in OpenFds : fd = NextEvent.fd
  BY ReceiveFacts
<1>2. PICK c \in Conns : c = fdtab[fd]
  BY <1>1, OwnDescriptor
<1>3. /\ fd \in Fds /\ FdsOf(c) = {fd} /\ c \notin done
      /\ \A d \in Conns : d # c => fd \notin FdsOf(d)
  BY <1>1, <1>2, OwnDescriptor
<1>4. TypeOK /\ interest[fd] = "in" /\ replies' = replies
  BY <1>1, ReceiveFacts, ReceiveCases DEF IInv
<1>5. Phase(c) = "listening"
  BY <1>3, <1>4 DEF Phase
<1>6. ASSUME Hangup(fd), UNCHANGED <<peer, nread>>
      PROVE  TalkStep
  <2>1. /\ fdtab' = [fdtab EXCEPT ![fd] = NoConn] /\ done' = done \cup {c}
        /\ interest' = [interest EXCEPT ![fd] = "none"]
    BY <1>2, <1>6, TcpAssumption DEF Hangup, Unregister, CloseFd, TcpAssumption
  <2>2. \A d \in Conns : d # c => FdsOf(d)' = FdsOf(d)
    <3>1. /\ fdtab[fd] = c /\ fdtab'[fd] = NoConn /\ NoConn \notin Conns
          /\ \A g \in Fds : g # fd => fdtab'[g] = fdtab[g]
      BY <1>2, <1>3, <1>4, <2>1, TcpAssumption DEF TypeOK, TcpTypeOK, TcpAssumption
    <3> QED
      BY <3>1 DEF FdsOf
  <2>3. Phase(c)' = "over"
    BY <2>1 DEF Phase
  <2>4. \A d \in Conns : d # c => Phase(d)' = Phase(d)
    BY <1>3, <1>4, <2>1, <2>2, OthersStay
  <2>5. Talk!Turn(c, "listening", "over")
    BY <1>5, <2>3, <2>4, TurnTaken
  <2>6. {d \in Conns : Broken(d)}' = {d \in Conns : Broken(d)}
    BY <1>6, SameBroken DEF Broken
  <2>7. Talk!Leave(c)
    BY <1>4, <1>6, <2>5, <2>6, SameSaid DEF Talk!Leave
  <2> QED
    BY <2>7 DEF TalkStep, Talk!Next
<1>7. ASSUME NEW cnt \in Int, Received(fd, cnt)
      PROVE  Talk!Turn(c, "listening", "answering")
  <2>1. /\ interest' = [interest EXCEPT ![fd] = "out"] /\ interest'[fd] = "out"
        /\ UNCHANGED <<fdtab, done>>
    BY <1>3, <1>4, <1>7 DEF Received, SetEvent, TypeOK, AllFds
  <2>2. \A d \in Conns : FdsOf(d)' = FdsOf(d)
    BY <2>1 DEF FdsOf
  <2>3. Phase(c)' = "answering"
    BY <1>3, <2>1, <2>2 DEF Phase
  <2>4. \A d \in Conns : d # c => Phase(d)' = Phase(d)
    BY <1>3, <1>4, <2>1, <2>2, OthersStay
  <2> QED
    BY <1>5, <2>3, <2>4, TurnTaken
<1>8. ASSUME peer' = peer, NEW cnt \in 1..BufferLength,
             Received(fd, cnt), nread' = [nread EXCEPT ![c] = @ + cnt]
      PROVE  TalkStep
  <2>1. nread'[c] > nread[c] /\ nread' = [nread EXCEPT ![c] = nread'[c]]
    <3>1. nread'[c] = nread[c] + cnt /\ nread[c] \in Nat
      BY <1>4, <1>8, Typing DEF TypeOK, TcpTypeOK
    <3>2. nread' = [nread EXCEPT ![c] = nread'[c]]
      BY <1>8, <3>1
    <3>3. cnt > 0 /\ cnt \in Int
      BY <1>8, ReactorAssumption DEF ReactorAssumption
    <3> QED
      BY <3>1, <3>2, <3>3
  <2>2. {d \in Conns : Broken(d)}' = {d \in Conns : Broken(d)}
    BY <1>8, SameBroken DEF Broken
  <2>3. Talk!Hear(c)
    BY <1>4, <1>7, <1>8, <2>1, <2>2, SameSaid DEF Talk!Hear
  <2> QED
    BY <2>3 DEF TalkStep, Talk!Next
<1>9. ASSUME nread' = nread, Received(fd, -1),
             peer' = [peer EXCEPT ![c] = "dead"], peer[c] = "rst"
      PROVE  TalkStep
  <2>1. Broken(c) /\ \A d \in Conns : Broken(d)' = Broken(d)
    BY <1>4, <1>9 DEF Broken, TypeOK, TcpTypeOK
  <2>2. {d \in Conns : Broken(d)}' = {d \in Conns : Broken(d)}
    BY <2>1, SameBroken
  <2>3. Talk!Falter(c)
    BY <1>4, <1>7, <1>9, <2>1, <2>2, SameSaid DEF Talk!Falter
  <2> QED
    BY <2>3 DEF TalkStep, Talk!Next
<1> QED
  BY <1>1, <1>2, <1>6, <1>8, <1>9, ReceiveCases

\* send_cb answers; a client that has reset may get nothing.
LEMMA SendTalk ==
  ASSUME IInv, Counted, HandleSend
  PROVE  TalkStep
<1>1. PICK fd \in OpenFds : fd = NextEvent.fd
  BY SendFacts
<1>2. PICK c \in Conns : c = fdtab[fd]
  BY <1>1, OwnDescriptor
<1>3. /\ fd \in Fds /\ FdsOf(c) = {fd} /\ c \notin done
      /\ \A d \in Conns : d # c => fd \notin FdsOf(d)
  BY <1>1, <1>2, OwnDescriptor
<1>4. /\ TypeOK /\ interest[fd] = "out"
      /\ SendCb(fd) /\ UNCHANGED <<nread, fdtab, done>>
  BY <1>1, SendFacts DEF IInv, HandleSend, SendCb
<1>5. \A d \in Conns : FdsOf(d)' = FdsOf(d)
  BY <1>4 DEF FdsOf
<1>6. Phase(c) = "answering"
  BY <1>3, <1>4 DEF Phase
<1>7. ASSUME SetEvent(fd, "in")
      PROVE  Talk!Turn(c, "answering", "listening")
  <2>1. interest' = [interest EXCEPT ![fd] = "in"] /\ interest'[fd] = "in"
    BY <1>3, <1>4, <1>7 DEF SetEvent, TypeOK, AllFds
  <2>2. Phase(c)' = "listening"
    BY <1>3, <1>4, <1>5, <2>1 DEF Phase
  <2>3. \A d \in Conns : d # c => Phase(d)' = Phase(d)
    BY <1>3, <1>4, <1>5, <2>1, OthersStay
  <2> QED
    BY <1>6, <2>2, <2>3, TurnTaken
<1>8. ASSUME Send(c, "sent"), SetEvent(fd, "in"),
             replies' = [replies EXCEPT ![c] = Append(@, rlen[fd])]
      PROVE  TalkStep
  <2> DEFINE said == [d \in Conns |-> Len(replies[d])]
  <2>1. peer' = peer /\ ~Broken(c)
    BY <1>8 DEF Send
  <2>2. rlen[fd] = nread[c] /\ Len(replies[c]) < nread[c] /\ Len(replies[c]) \in Nat
    BY <1>1, <1>2, <2>1, AnswerCounts
  <2>3. nread[c] \in 1..BufferLength
    BY <1>1, <1>2, <2>1, SendFacts DEF Broken
  <2>4. /\ replies'[c] = Append(replies[c], nread[c])
        /\ \A d \in Conns : d # c => replies'[d] = replies[d]
    BY <1>4, <1>8, <2>2 DEF TypeOK
  <2>5. Len(replies'[c]) = Len(replies[c]) + 1
    <3>1. replies[c] \in Seq(0..BufferLength) /\ nread[c] \in 0..BufferLength
      BY <1>4, <2>3, ReactorAssumption DEF TypeOK, ReactorAssumption
    <3> QED
      BY <2>4, <3>1, AppendElements
  <2>6. /\ said'[c] = Len(replies[c]) + 1 /\ said[c] = Len(replies[c])
        /\ \A d \in Conns : d # c => said'[d] = said[d]
    BY <2>4, <2>5
  <2>7. said'[c] > said[c] /\ said'[c] <= nread[c]
    BY <2>2, <2>3, <2>6
  <2>8. said' = [said EXCEPT ![c] = said'[c]]
    BY <2>6
  <2>9. {d \in Conns : Broken(d)}' = {d \in Conns : Broken(d)}
    BY <2>1, SameBroken DEF Broken
  <2>10. Talk!Answer(c)
    BY <1>4, <1>7, <1>8, <2>7, <2>8, <2>9 DEF Talk!Answer
  <2> QED
    BY <2>10 DEF TalkStep, Talk!Next
<1>9. ASSUME Send(c, "reset"), SetEvent(fd, "in"), replies' = replies
      PROVE  TalkStep
  <2>1. peer[c] = "rst" /\ peer' = [peer EXCEPT ![c] = "dead"]
    BY <1>9 DEF Send
  <2>2. Broken(c) /\ \A d \in Conns : Broken(d)' = Broken(d)
    BY <1>4, <2>1 DEF Broken, TypeOK, TcpTypeOK
  <2>3. {d \in Conns : Broken(d)}' = {d \in Conns : Broken(d)}
    BY <2>2, SameBroken
  <2>4. Talk!Falter(c)
    BY <1>4, <1>7, <1>9, <2>2, <2>3, SameSaid DEF Talk!Falter
  <2> QED
    BY <2>4 DEF TalkStep, Talk!Next
<1>10. ASSUME Send(c, "pipe"), UNCHANGED <<interest, replies>>
       PROVE  TalkStep
  <2>1. peer' = peer
    BY <1>10 DEF Send
  <2>2. \A d \in Conns : Phase(d)' = Phase(d)
    BY <1>4, <1>5, <1>10 DEF Phase
  <2> QED
    BY <1>4, <1>10, <2>1, <2>2, TalkStutters DEF Broken
<1> QED
  BY <1>2, <1>4, <1>8, <1>9, <1>10 DEF SendCb

\* A client may break its conversation, and nothing else.
LEMMA ClientTalk ==
  ASSUME IInv, NEW c \in Conns, ClientStep(c)
  PROVE  TalkStep
<1>1. UNCHANGED <<nread, fdtab, done, interest, replies>>
  BY ClientEffect
<1>2. \A d \in Conns : Broken(d) => Broken(d)'
  BY ClientEffect DEF Broken
<1>3. \A d \in Conns : d # c => Broken(d)' = Broken(d)
  <2>1. peer \in [Conns -> PeerState]
    BY DEF IInv, TypeOK, TcpTypeOK
  <2>2. \A d \in Conns : d # c => peer'[d] = peer[d]
    BY <2>1 DEF ClientStep, Client, Connect, ClientSend, ClientRead, ClientFin, ClientRst
  <2> QED
    BY <2>2 DEF Broken
<1>4. \A d \in Conns : Phase(d)' = Phase(d)
  BY <1>1 DEF Phase, FdsOf
<1>5. CASE Broken(c)' = Broken(c)
  BY <1>1, <1>3, <1>4, <1>5, TalkStutters
<1>6. CASE ~Broken(c) /\ Broken(c)'
  <2>1. {d \in Conns : Broken(d)}' = {d \in Conns : Broken(d)} \cup {c}
    BY <1>3, <1>6
  <2>2. [d \in Conns |-> Phase(d)]' = [d \in Conns |-> Phase(d)]
    BY <1>4
  <2>3. Talk!Break(c)
    BY <1>1, <1>6, <2>1, <2>2, SameSaid DEF Talk!Break
  <2> QED
    BY <2>3 DEF TalkStep, Talk!Next
<1> QED
  BY <1>2, <1>5, <1>6 DEF Broken

LEMMA StepTalk == IInv /\ Counted /\ [Next]_vars => TalkStep
<1> SUFFICES ASSUME IInv, Counted, [Next]_vars PROVE TalkStep
  OBVIOUS
<1>1. CASE Boot \/ EpollWait \/ HandleAcceptFails \/ UNCHANGED vars
  BY <1>1, IdleTalk
<1>2. CASE HandleAccept
  BY <1>2, AcceptTalk
<1>3. CASE HandleReceive
  BY <1>3, ReceiveTalk
<1>4. CASE HandleSend
  BY <1>4, SendTalk
<1>5. ASSUME NEW c \in Conns, ClientStep(c) PROVE TalkStep
  BY <1>5, ClientTalk
<1> QED
  BY <1>1, <1>2, <1>3, <1>4, <1>5 DEF Next, Server

\* The epoll server implements Conversation: it takes turns with each client,
\* answers once for what it read, and drops a turn only on a broken connection.
THEOREM Refinement == Spec => TakesTurns
<1>1. Init => Talk!Init
  BY TalkInit
<1> QED
  BY <1>1, StepTalk, Invariance, CountedHolds, PTL
  DEF Spec, TakesTurns, Talk!Spec, TalkStep
=============================================================================
