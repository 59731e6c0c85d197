------------------------------- MODULE CqProofs -------------------------------
(***************************************************************************)
(* How full the completion ring of the io_uring servers gets, for every    *)
(* value of the constants.                                                 *)
(***************************************************************************)
EXTENDS UringProofs

LEMMA BadRecvKinds ==
  /\ \A e \in Sqes : e \in BadRecvSqes <=> e.event = "READ" /\ e.fd = BadFd
  /\ \A e \in Cqes : e \in BadRecvCqes <=> e.event = "READ" /\ e.fd = BadFd
  /\ \A op \in Ops : op.fd # BadFd
BY FdFacts DEF BadRecvSqes, BadRecvCqes, Sqes, AcceptSqes, RecvSqes, SendSqes, Cqes,
  AcceptCqes, RecvCqes, SendCqes, Ops, AcceptOps, RecvOps, SendOps

-----------------------------------------------------------------------------
(* Descriptors are at most as many as what carries them on.                *)

\* A set that a function embeds into a finite one is not larger than that.
LEMMA Embedded ==
  ASSUME NEW S, NEW T, IsFiniteSet(T), NEW f \in [S -> T],
         \A x, y \in S : f[x] = f[y] => x = y
  PROVE  IsFiniteSet(S) /\ Cardinality(S) <= Cardinality(T)
<1>1. f \in Injection(S, T)
  BY DEF Injection, IsInjective
<1> QED
  BY <1>1, FS_Injection

LEMMA UnionBound ==
  ASSUME NEW S, IsFiniteSet(S), NEW T, IsFiniteSet(T)
  PROVE  /\ IsFiniteSet(S \cup T) /\ Cardinality(S \cup T) \in Nat
         /\ Cardinality(S \cup T) <= Cardinality(S) + Cardinality(T)
         /\ S \cap T = {} => Cardinality(S \cup T) = Cardinality(S) + Cardinality(T)
<1>1. /\ IsFiniteSet(S \cup T) /\ IsFiniteSet(S \cap T)
      /\ Cardinality(S \cup T) = Cardinality(S) + Cardinality(T) - Cardinality(S \cap T)
  BY FS_Union, FS_Intersection
<1>2. /\ Cardinality(S) \in Nat /\ Cardinality(T) \in Nat /\ Cardinality(S \cup T) \in Nat
      /\ Cardinality(S \cap T) \in Nat
  BY <1>1, FS_CardinalityType
<1>3. S \cap T = {} => Cardinality(S \cap T) = 0
  BY FS_EmptySet
<1> QED
  BY <1>1, <1>2, <1>3

-----------------------------------------------------------------------------
(* What is behind an element of a ring.                                    *)

LEMMA BehindElements ==
  ASSUME NEW S, NEW s \in Seq(S), NEW k \in 0..Len(s)
  PROVE  /\ Behind(s, k) \in Seq(S) /\ Len(s) \in Nat
         /\ \A T : Count(Behind(s, k), T) \in Nat /\ Count(s, T) \in Nat
         /\ Behind(s, 0) = s
         /\ k = Len(s) => \A T : Count(Behind(s, k), T) = 0
<1>1. Behind(s, k) \in Seq(S) /\ Len(s) \in Nat /\ Len(Behind(s, k)) = Len(s) - k
  BY RestElements, LenProperties DEF Behind
<1>2. \A T : Count(Behind(s, k), T) \in Nat /\ Count(s, T) \in Nat
  BY <1>1, HitsFinite
<1>3. Behind(s, 0) = s
  BY WholeRest DEF Behind
<1>4. ASSUME k = Len(s) PROVE \A T : Count(Behind(s, k), T) = 0
  <2>1. Behind(s, k) = <<>>
    BY <1>1, <1>4, EmptySeq
  <2> QED
    BY <2>1, CountEmpty
<1> QED
  BY <1>1, <1>2, <1>3, <1>4

\* When the head is gone, the others have moved up.
LEMMA BehindTail ==
  ASSUME NEW S, NEW s \in Seq(S), s # <<>>, NEW k \in 0..Len(Tail(s))
  PROVE  Behind(Tail(s), k) = Behind(s, k + 1)
<1>1. /\ Tail(s) \in Seq(S) /\ Len(s) \in Nat /\ Len(Tail(s)) = Len(s) - 1
      /\ \A j \in 1..Len(Tail(s)) : Tail(s)[j] = s[j + 1]
  BY TailElements
<1> DEFINE t == Tail(s)
           u == Behind(t, k)
           v == Behind(s, k + 1)
<1>2. /\ u \in Seq(S) /\ Len(u) = Len(t) - k
      /\ \A j \in 1..Len(t) - k : u[j] = t[k + j] /\ k + j \in 1..Len(t)
  BY <1>1, RestElements DEF Behind
<1> HIDE DEF t
<1>3. k + 1 \in 0..Len(s)
  BY <1>1
<1> DEFINE m == k + 1
<1>4. /\ v \in Seq(S) /\ Len(v) = Len(s) - m
      /\ \A j \in 1..Len(s) - m : v[j] = s[m + j]
  <2> m \in 0..Len(s)
    BY <1>3
  <2> HIDE DEF m
  <2> QED
    BY RestElements DEF Behind, m
<1>5. Len(u) = Len(v) /\ \A j \in 1..Len(u) : u[j] = v[j]
  BY <1>1, <1>2, <1>4 DEF t
<1> HIDE DEF u, v
<1> QED
  BY <1>2, <1>4, <1>5, SeqEqual DEF u, v, t

LEMMA BehindAppend ==
  ASSUME NEW S, NEW s \in Seq(S), NEW e \in S, NEW T
  PROVE  /\ \A k \in 0..Len(s) : /\ Behind(Append(s, e), k) = Append(Behind(s, k), e)
                                 /\ Count(Behind(Append(s, e), k), T) =
                                      Count(Behind(s, k), T) + Weight(e, T)
         /\ Count(Behind(Append(s, e), Len(s) + 1), T) = 0
<1>1. ASSUME NEW k \in 0..Len(s)
      PROVE  /\ Behind(Append(s, e), k) = Append(Behind(s, k), e)
             /\ Count(Behind(Append(s, e), k), T) = Count(Behind(s, k), T) + Weight(e, T)
  <2>1. Behind(Append(s, e), k) = Append(Behind(s, k), e)
    BY <1>1, RestAppend DEF Behind
  <2> QED
    BY <2>1, BehindElements, CountAppend
<1>2. Append(s, e) \in Seq(S) /\ Len(Append(s, e)) = Len(s) + 1 /\ Len(s) \in Nat
  BY AppendElements
<1>3. Count(Behind(Append(s, e), Len(s) + 1), T) = 0
  <2> DEFINE t == Append(s, e)
             n == Len(s) + 1
  <2>1. t \in Seq(S) /\ n \in 0..Len(t) /\ n = Len(t)
    BY <1>2
  <2> HIDE DEF t, n
  <2>2. Count(Behind(t, n), T) = 0
    BY <2>1, BehindElements
  <2> QED
    BY <2>2 DEF t, n
<1> QED
  BY <1>1, <1>3

\* If at most one thing carries each descriptor on, there are no more
\* completions and operations than descriptors, but for the accept and the
\* recvs on no descriptor.
LEMMA FewCarriers ==
  ASSUME NEW U \in Seq(Cqes), NEW F, F \subseteq Ops, IsFiniteSet(F),
         \A fd \in Fds : Count(U, CqesOn(fd)) + Cardinality(F \cap OpsOn(fd)) <= 1
  PROVE  Len(U) + Cardinality(F) <=
           MaxFd + Count(U, AcceptCqes) + Count(U, BadRecvCqes)
           + Cardinality(F \cap AcceptOps)
<1> DEFINE n == Len(U)
           cqeFd(k) == IF U[k].event = "ACCEPT" THEN U[k].res ELSE U[k].fd
           cqes == {k \in 1..n : cqeFd(k) \in Fds}
           ops == {op \in F : op.fd \in Fds}
           cqeFds == {fd \in Fds : \E k \in 1..n : cqeFd(k) = fd}
           opFds == {fd \in Fds : \E op \in F : op.fd = fd}
<1>1. /\ n \in Nat /\ \A k \in 1..n : U[k] \in Cqes
      /\ \A fd : /\ Count(U, CqesOn(fd)) \in Nat
                 /\ Cardinality(F \cap OpsOn(fd)) \in Nat
  BY LenProperties, ElementOfSeq, HitsFinite, FlightMeaning
<1>2. /\ \A k \in 1..n, fd \in Fds : U[k] \in CqesOn(fd) <=> cqeFd(k) = fd
      /\ \A k \in 1..n : k \in cqes \/ U[k] \in AcceptCqes \/ U[k] \in BadRecvCqes
  BY <1>1, CqeKinds, BadRecvKinds
<1>3. \A op \in F : /\ \A fd : op \in OpsOn(fd) <=> op.fd = fd
                    /\ op \in ops \/ op \in AcceptOps
  BY OpKinds
<1>4. ASSUME NEW fd \in Fds
      PROVE  /\ \A j, k \in 1..n : cqeFd(j) = fd /\ cqeFd(k) = fd => j = k
             /\ \A op, other \in F : op.fd = fd /\ other.fd = fd => op = other
             /\ \A k \in 1..n, op \in F : ~(cqeFd(k) = fd /\ op.fd = fd)
  <2> DEFINE x == Count(U, CqesOn(fd))
             y == Cardinality(F \cap OpsOn(fd))
  <2>1. x \in Nat /\ y \in Nat /\ x + y <= 1
    BY <1>1
  <2>2. /\ x = 0 => \A k \in 1..n : U[k] \notin CqesOn(fd)
        /\ x = 1 => \A j, k \in 1..n : U[j] \in CqesOn(fd) /\ U[k] \in CqesOn(fd) => j = k
    BY CountMeaning
  <2>3. /\ y = 0 => \A op \in F : op \notin OpsOn(fd)
        /\ y = 1 => \A op, other \in F : op \in OpsOn(fd) /\ other \in OpsOn(fd) => op = other
    BY FlightMeaning
  <2>4. (x = 0 /\ y = 0) \/ (x = 1 /\ y = 0) \/ (x = 0 /\ y = 1)
    BY <2>1
  <2> HIDE DEF x, y
  <2> QED
    BY <1>2, <1>3, <2>2, <2>3, <2>4
<1> HIDE DEF n, cqeFd
<1>5. IsFiniteSet(Fds) /\ Cardinality(Fds) = MaxFd
  <2>1. 1 \in Int /\ MaxFd \in Int /\ MaxFd \in Nat
    BY FdFacts
  <2>2. IsFiniteSet(1..MaxFd) /\ Cardinality(1..MaxFd) = IF 1 > MaxFd THEN 0 ELSE MaxFd - 1 + 1
    BY <2>1, FS_Interval
  <2> QED
    BY <2>1, <2>2 DEF Fds
<1>6. IsFiniteSet(cqeFds) /\ IsFiniteSet(opFds)
  BY <1>5, FS_Subset
<1>7. Cardinality(cqeFds) + Cardinality(opFds) <= MaxFd
  <2>1. cqeFds \cap opFds = {}
    BY <1>4
  <2>2. cqeFds \cup opFds \in SUBSET Fds
    OBVIOUS
  <2>3. Cardinality(cqeFds \cup opFds) <= Cardinality(Fds)
    BY <1>5, <2>2, FS_Subset
  <2> HIDE DEF cqeFds, opFds
  <2> QED
    BY <1>5, <1>6, <2>1, <2>3, UnionBound
<1>8. IsFiniteSet(cqes) /\ Cardinality(cqes) <= Cardinality(cqeFds)
  <2> DEFINE f == [k \in cqes |-> cqeFd(k)]
  <2>1. f \in [cqes -> cqeFds]
    OBVIOUS
  <2>2. \A x, y \in cqes : f[x] = f[y] => x = y
    BY <1>4
  <2> HIDE DEF f, cqes, cqeFds
  <2> QED
    BY <1>6, <2>1, <2>2, Embedded
<1>9. IsFiniteSet(ops) /\ Cardinality(ops) <= Cardinality(opFds)
  <2> DEFINE f == [op \in ops |-> op.fd]
  <2>1. f \in [ops -> opFds]
    OBVIOUS
  <2>2. \A x, y \in ops : f[x] = f[y] => x = y
    BY <1>4
  <2> HIDE DEF f, ops, opFds
  <2> QED
    BY <1>6, <2>1, <2>2, Embedded
<1>10. n <= Cardinality(cqes) + Count(U, AcceptCqes) + Count(U, BadRecvCqes)
  <2> DEFINE a == Hits(U, AcceptCqes)
             b == Hits(U, BadRecvCqes)
  <2>1. /\ IsFiniteSet(a) /\ IsFiniteSet(b)
        /\ Cardinality(a) = Count(U, AcceptCqes) /\ Cardinality(b) = Count(U, BadRecvCqes)
    BY HitsFinite
  <2>2. 1..n = (cqes \cup a) \cup b
    BY <1>2 DEF Hits, n
  <2>3. Cardinality(1..n) = n
    <3>1. 1 \in Int /\ n \in Int
      BY <1>1
    <3>2. Cardinality(1..n) = IF 1 > n THEN 0 ELSE n - 1 + 1
      BY <3>1, FS_Interval
    <3> QED
      BY <1>1, <3>2
  <2> HIDE DEF a, b, cqes
  <2>4. /\ IsFiniteSet(cqes \cup a) /\ Cardinality(cqes \cup a) \in Nat
        /\ Cardinality(cqes \cup a) <= Cardinality(cqes) + Cardinality(a)
    BY <1>8, <2>1, UnionBound
  <2>5. Cardinality((cqes \cup a) \cup b) <= Cardinality(cqes \cup a) + Cardinality(b)
    BY <2>1, <2>4, UnionBound
  <2>6. Cardinality(cqes) \in Nat /\ Cardinality(a) \in Nat /\ Cardinality(b) \in Nat
    BY <1>8, <2>1, FS_CardinalityType
  <2>7. n <= Cardinality(cqes \cup a) + Cardinality(b)
    BY <2>2, <2>3, <2>5
  <2> QED
    BY <1>1, <2>1, <2>4, <2>6, <2>7
<1>11. Cardinality(F) <= Cardinality(ops) + Cardinality(F \cap AcceptOps)
  <2>1. F = ops \cup (F \cap AcceptOps)
    BY <1>3
  <2>2. IsFiniteSet(F \cap AcceptOps)
    BY FS_Intersection
  <2> HIDE DEF ops
  <2> QED
    BY <1>9, <2>1, <2>2, UnionBound
<1>12. /\ n \in Nat /\ MaxFd \in Nat /\ Cardinality(F) \in Nat
       /\ Cardinality(cqes) \in Nat /\ Cardinality(ops) \in Nat
       /\ Cardinality(cqeFds) \in Nat /\ Cardinality(opFds) \in Nat
       /\ Count(U, AcceptCqes) \in Nat /\ Count(U, BadRecvCqes) \in Nat
       /\ Cardinality(F \cap AcceptOps) \in Nat
  BY <1>1, <1>6, <1>8, <1>9, FdFacts, FS_CardinalityType, HitsFinite, FlightMeaning DEF n
<1> HIDE DEF cqes, ops, cqeFds, opFds
<1> QED
  <2> DEFINE cs == Cardinality(cqes)
             os == Cardinality(ops)
             ca == Count(U, AcceptCqes)
             cb == Count(U, BadRecvCqes)
             oa == Cardinality(F \cap AcceptOps)
             m == Cardinality(F)
  <2>1. cs + os <= MaxFd
    BY <1>7, <1>8, <1>9, <1>12
  <2>2. n <= cs + ca + cb /\ m <= os + oa
    BY <1>10, <1>11
  <2>3. /\ n \in Nat /\ m \in Nat /\ MaxFd \in Nat /\ cs \in Nat /\ os \in Nat
        /\ ca \in Nat /\ cb \in Nat /\ oa \in Nat
    BY <1>12
  <2> HIDE DEF cs, os, ca, cb, oa, m
  <2>4. n + m <= MaxFd + ca + cb + oa
    BY <2>1, <2>2, <2>3
  <2> QED
    BY <2>4 DEF n, m, ca, cb, oa

-----------------------------------------------------------------------------
(* Recvs on no descriptor are few.                                         *)

\* Completions are handled at one end and added at the other.
LEMMA UnhandledAppend ==
  ASSUME RingInv, NEW e \in Cqes, cq' = Append(cq, e), UNCHANGED batchVars
  PROVE  Unhandled' = Append(Unhandled, e)
<1>1. cq \in Seq(Cqes) /\ i \in 0..Len(cq) /\ i' = i
  BY UnhandledElements DEF batchVars
<1>2. SubSeq(Append(cq, e), i + 1, Len(Append(cq, e))) = Append(SubSeq(cq, i + 1, Len(cq)), e)
  BY <1>1, RestAppend
<1> QED
  BY <1>1, <1>2 DEF Unhandled

LEMMA UnhandledTail ==
  ASSUME RingInv, NEW event, Handling(event)
  PROVE  /\ Unhandled \in Seq(Cqes) /\ Unhandled # <<>>
         /\ Head(Unhandled) = cq[i + 1] /\ Unhandled' = Tail(Unhandled)
<1>1. /\ cq \in Seq(Cqes) /\ i \in 0..Len(cq) /\ Len(cq) \in Nat /\ Unhandled \in Seq(Cqes)
      /\ Len(Unhandled) = Len(cq) - i
  BY UnhandledElements
<1>2. i' = i + 1 /\ cq' = cq /\ Len(Unhandled) > 0
  BY HandlingEffect
<1>3. i < Len(cq)
  BY <1>1, <1>2
<1>4. /\ SubSeq(cq, i + 1, Len(cq)) # <<>>
      /\ Head(SubSeq(cq, i + 1, Len(cq))) = cq[i + 1]
      /\ Tail(SubSeq(cq, i + 1, Len(cq))) = SubSeq(cq, (i + 1) + 1, Len(cq))
  BY <1>1, <1>3, RestTail
<1> QED
  BY <1>1, <1>2, <1>4 DEF Unhandled

\* What the counts of FewBadRecvs are taken of.
LEMMA BadRecvsTyped ==
  ASSUME RingInv
  PROVE  /\ sq \in Seq(Sqes) /\ Unhandled \in Seq(Cqes)
         /\ Len(sq) \in Nat /\ Len(Unhandled) \in Nat
         /\ Count(sq, BadRecvSqes) \in Nat /\ Count(Unhandled, BadRecvCqes) \in Nat
         /\ \A k \in 1..Len(sq) :
              /\ sq[k] \in Sqes
              /\ sq[k] \in AcceptSqes <=> sq[k].event = "ACCEPT"
              /\ Count(Behind(sq, k), BadRecvSqes) \in Nat
         /\ \A k \in 1..Len(Unhandled) :
              /\ Unhandled[k] \in Cqes
              /\ Unhandled[k] \in AcceptCqes <=> Unhandled[k].event = "ACCEPT"
              /\ Count(Behind(Unhandled, k), BadRecvCqes) \in Nat
<1>1. /\ sq \in Seq(Sqes) /\ Unhandled \in Seq(Cqes)
      /\ Len(sq) \in Nat /\ Len(Unhandled) \in Nat
      /\ Count(sq, BadRecvSqes) \in Nat /\ Count(Unhandled, BadRecvCqes) \in Nat
  BY CountsTyped, UnhandledElements, LenProperties
<1>2. ASSUME NEW k \in 1..Len(sq)
      PROVE  /\ sq[k] \in Sqes
             /\ sq[k] \in AcceptSqes <=> sq[k].event = "ACCEPT"
             /\ Count(Behind(sq, k), BadRecvSqes) \in Nat
  <2>1. sq[k] \in Sqes /\ k \in 0..Len(sq)
    BY <1>1, <1>2, ElementOfSeq
  <2> QED
    BY <1>1, <2>1, SqeKinds, BehindElements
<1>3. ASSUME NEW k \in 1..Len(Unhandled)
      PROVE  /\ Unhandled[k] \in Cqes
             /\ Unhandled[k] \in AcceptCqes <=> Unhandled[k].event = "ACCEPT"
             /\ Count(Behind(Unhandled, k), BadRecvCqes) \in Nat
  <2>1. Unhandled[k] \in Cqes /\ k \in 0..Len(Unhandled)
    BY <1>1, <1>3, ElementOfSeq
  <2> QED
    BY <1>1, <2>1, CqeKinds, BehindElements
<1> QED
  BY <1>1, <1>2, <1>3

\* The kernel takes an entry: a recv on no descriptor moves to the other ring,
\* an accept leaves one such recv behind it at most.
LEMMA BadRecvsSubmit ==
  ASSUME RingInv, FewBadRecvs, Submit
  PROVE  FewBadRecvs'
<1> DEFINE e == sq[1]
           op == Op(sq[1])
           c == Cqe(Op(sq[1]), -1)
<1>1. /\ pc = "submit" /\ Running /\ TakeEntry /\ UNCHANGED batchVars
      /\ sq \in Seq(Sqes) /\ Unhandled \in Seq(Cqes)
      /\ BadRecvs <= 2
  BY BadRecvsTyped DEF Submit, Running, FewBadRecvs
<1>2. /\ sq # <<>> /\ e \in Sqes /\ Head(sq) = e
      /\ sq' = Tail(sq) /\ sq' \in Seq(Sqes)
      /\ Len(sq) \in Nat /\ Len(sq) > 0 /\ Len(sq') = Len(sq) - 1
      /\ \A k \in 1..Len(sq') : k + 1 \in 1..Len(sq) /\ sq'[k] = sq[k + 1]
      /\ Count(sq, BadRecvSqes) \in Nat /\ Count(sq', BadRecvSqes) \in Nat
      /\ Count(sq, BadRecvSqes) = Count(sq', BadRecvSqes) + Weight(e, BadRecvSqes)
  BY <1>1, TakeEffect
<1>3. /\ e.event \in {"ACCEPT", "READ", "WRITE"}
      /\ e \in AcceptSqes <=> e.event = "ACCEPT"
      /\ e \in BadRecvSqes <=> e.event = "READ" /\ e.fd = BadFd
      /\ e.event = "WRITE" => e.fd # BadFd
  BY <1>2, SqeKinds, BadRecvKinds, FdFacts
<1>4. op.event = e.event /\ op.fd = e.fd
  BY DEF Op
<1>5. \A k \in 1..Len(sq') : Behind(sq', k) = Behind(sq, k + 1)
  <2> SUFFICES ASSUME NEW k \in 1..Len(sq')
               PROVE  Behind(sq', k) = Behind(sq, k + 1)
    OBVIOUS
  <2>1. k \in 0..Len(Tail(sq))
    BY <1>2
  <2> QED
    BY <1>2, <2>1, BehindTail
<1>6. \A k \in 1..Len(sq') :
        sq'[k] \in AcceptSqes => Count(Behind(sq', k), BadRecvSqes) <= 1
  BY <1>1, <1>2, <1>5 DEF FewBadRecvs
<1>7. e \in AcceptSqes => Count(sq', BadRecvSqes) <= 1
  <2>1. 0 \in 0..Len(Tail(sq)) /\ 1 \in 1..Len(sq)
    BY <1>2
  <2>2. Behind(Tail(sq), 0) = Behind(sq, 0 + 1)
    BY <1>2, <2>1, BehindTail
  <2>3. Behind(sq', 0) = sq'
    BY <1>2, <2>1, BehindElements
  <2>4. Behind(sq, 1) = sq'
    BY <1>2, <2>2, <2>3
  <2> QED
    BY <1>1, <2>1, <2>4 DEF FewBadRecvs
<1> HIDE DEF e, op, c
<1>8. CASE op.fd \in AllFds /\ flight' = flight \cup {op} /\ UNCHANGED cq
  <2>1. Unhandled' = Unhandled /\ Weight(e, BadRecvSqes) = 0
    BY <1>1, <1>3, <1>4, <1>8, FdFacts DEF Unhandled, batchVars, Weight
  <2>2. Count(sq', BadRecvSqes) = Count(sq, BadRecvSqes)
    BY <1>2, <2>1
  <2>3. flight' \cap AcceptOps # {} => Count(sq', BadRecvSqes) <= 1
    <3>1. ASSUME op \in AcceptOps PROVE e \in AcceptSqes
      BY <1>3, <1>4, <3>1 DEF AcceptOps
    <3> QED
      BY <1>1, <1>7, <1>8, <2>2, <3>1 DEF FewBadRecvs
  <2> QED
    BY <1>1, <1>6, <2>1, <2>2, <2>3 DEF FewBadRecvs, BadRecvs
<1>9. CASE op.fd = BadFd /\ cq' = Append(cq, c) /\ UNCHANGED flight
  <2>1. c \in Cqes /\ c.event = e.event /\ c.fd = BadFd
    <3>1. e.event # "WRITE"
      BY <1>3, <1>4, <1>9
    <3>2. c.event = e.event /\ c.fd = BadFd
      BY <1>4, <1>9 DEF c, op, Cqe
    <3>3. c = [event |-> e.event, fd |-> BadFd, conn |-> NoConn, res |-> -1]
      BY <1>4, <1>9, FdFacts DEF c, op, Cqe, Op, e
    <3> QED
      BY <1>3, <3>1, <3>2, <3>3 DEF Cqes, AcceptCqes, BadRecvCqes
  <2>2. /\ Unhandled' = Append(Unhandled, c)
        /\ Unhandled' \in Seq(Cqes) /\ Len(Unhandled) \in Nat
        /\ Len(Unhandled') = Len(Unhandled) + 1
        /\ \A k \in 1..Len(Unhandled') :
             Unhandled'[k] = IF k = Len(Unhandled) + 1 THEN c ELSE Unhandled[k]
        /\ Count(Unhandled, BadRecvCqes) \in Nat
        /\ Count(Unhandled', BadRecvCqes) =
             Count(Unhandled, BadRecvCqes) + Weight(c, BadRecvCqes)
    BY <1>1, <1>9, <2>1, UnhandledAppend, AppendEffect
  <2>3. /\ Weight(c, BadRecvCqes) = Weight(e, BadRecvSqes)
        /\ Weight(e, BadRecvSqes) = IF e.event = "READ" THEN 1 ELSE 0
        /\ c \in AcceptCqes <=> e.event = "ACCEPT"
    BY <1>3, <1>4, <1>9, <2>1, BadRecvKinds, CqeKinds DEF Weight
  <2>4. /\ \A k \in 0..Len(Unhandled) :
             Count(Behind(Unhandled', k), BadRecvCqes) =
               Count(Behind(Unhandled, k), BadRecvCqes) + Weight(c, BadRecvCqes)
        /\ Count(Behind(Unhandled', Len(Unhandled) + 1), BadRecvCqes) = 0
    BY <1>1, <2>1, <2>2, BehindAppend
  <2>5. BadRecvs' = BadRecvs
    BY <1>2, <2>2, <2>3 DEF BadRecvs
  <2>6. flight' \cap AcceptOps # {} => Count(sq', BadRecvSqes) <= 1
    BY <1>1, <1>2, <1>9, <2>3 DEF FewBadRecvs
  <2>7. ASSUME NEW k \in 1..Len(Unhandled'), Unhandled'[k] \in AcceptCqes
        PROVE  Count(sq', BadRecvSqes) + Count(Behind(Unhandled', k), BadRecvCqes) <= 1
    <3>1. CASE k = Len(Unhandled) + 1
      BY <1>2, <1>3, <1>7, <2>2, <2>3, <2>4, <2>7, <3>1
    <3>2. CASE k # Len(Unhandled) + 1
      <4>1. k \in 1..Len(Unhandled) /\ Unhandled[k] \in AcceptCqes
        BY <2>2, <2>7, <3>2
      <4>2. /\ Count(sq, BadRecvSqes) + Count(Behind(Unhandled, k), BadRecvCqes) <= 1
            /\ Count(Behind(Unhandled, k), BadRecvCqes) \in Nat
        BY <1>1, <4>1, BadRecvsTyped DEF FewBadRecvs
      <4> QED
        BY <1>2, <2>2, <2>3, <2>4, <4>1, <4>2
    <3> QED
      BY <3>1, <3>2
  <2> QED
    BY <1>1, <1>6, <2>5, <2>6, <2>7 DEF FewBadRecvs
<1> QED
  BY <1>1, <1>2, <1>8, <1>9 DEF TakeEntry, op, c

\* An operation completes: the accept goes behind what is in the ring.
LEMMA BadRecvsComplete ==
  ASSUME RingInv, FewBadRecvs, Running, NEW op \in flight, NEW res,
         Cqe(op, res) \in Cqes, Complete(op, res), UNCHANGED <<sq, batchVars>>
  PROVE  FewBadRecvs'
<1> DEFINE c == Cqe(op, res)
<1>1. /\ sq' = sq /\ flight' = flight \ {op} /\ c \in Cqes /\ cq' = Append(cq, c)
      /\ op \in Ops /\ UNCHANGED batchVars
  BY DEF Complete, RingInv, UringTypeOK
<1>2. c.event = op.event /\ c.fd = op.fd /\ op.fd # BadFd
  BY <1>1, BadRecvKinds DEF Cqe
<1>3. /\ c \in AcceptCqes <=> op \in AcceptOps
      /\ Weight(c, BadRecvCqes) = 0
  BY <1>1, <1>2, CqeKinds, OpKinds, BadRecvKinds DEF Weight
<1> HIDE DEF c
<1>4. /\ Unhandled' = Append(Unhandled, c) /\ Unhandled \in Seq(Cqes)
      /\ Len(Unhandled) \in Nat /\ Len(Unhandled') = Len(Unhandled) + 1
      /\ \A k \in 1..Len(Unhandled') :
           Unhandled'[k] = IF k = Len(Unhandled) + 1 THEN c ELSE Unhandled[k]
      /\ Count(Unhandled, BadRecvCqes) \in Nat
      /\ Count(Unhandled', BadRecvCqes) = Count(Unhandled, BadRecvCqes)
  BY <1>1, <1>3, UnhandledAppend, AppendEffect, BadRecvsTyped
<1>5. /\ \A k \in 0..Len(Unhandled) :
           Count(Behind(Unhandled', k), BadRecvCqes) =
             Count(Behind(Unhandled, k), BadRecvCqes) + Weight(c, BadRecvCqes)
      /\ Count(Behind(Unhandled', Len(Unhandled) + 1), BadRecvCqes) = 0
  BY <1>1, <1>4, BehindAppend
<1>6. ASSUME NEW k \in 1..Len(Unhandled'), Unhandled'[k] \in AcceptCqes
      PROVE  Count(sq', BadRecvSqes) + Count(Behind(Unhandled', k), BadRecvCqes) <= 1
  <2>1. CASE k = Len(Unhandled) + 1
    <3>1. Count(sq, BadRecvSqes) <= 1 /\ Count(sq, BadRecvSqes) \in Nat
      BY <1>3, <1>4, <1>6, <2>1, BadRecvsTyped DEF FewBadRecvs
    <3> QED
      BY <1>1, <1>5, <2>1, <3>1
  <2>2. CASE k # Len(Unhandled) + 1
    <3>1. k \in 1..Len(Unhandled) /\ Unhandled[k] \in AcceptCqes
      BY <1>4, <1>6, <2>2
    <3>2. /\ Count(sq, BadRecvSqes) + Count(Behind(Unhandled, k), BadRecvCqes) <= 1
          /\ Count(Behind(Unhandled, k), BadRecvCqes) \in Nat
      BY <3>1, BadRecvsTyped DEF FewBadRecvs
    <3> QED
      BY <1>1, <1>3, <1>5, <3>1, <3>2
  <2> QED
    BY <2>1, <2>2
<1> QED
  BY <1>1, <1>4, <1>6 DEF FewBadRecvs, BadRecvs

\* The loop goes round, a client acts, the process crashes.
LEMMA BadRecvsFrame ==
  ASSUME FewBadRecvs, Running, UNCHANGED <<sq, flight>>, Unhandled' = Unhandled
  PROVE  FewBadRecvs'
BY DEF FewBadRecvs, BadRecvs

\* One completion less, the recv on no descriptor among them.
LEMMA HandledBehind ==
  ASSUME RingInv, NEW event, Handling(event), FewBadRecvs
  PROVE  /\ Count(Unhandled', BadRecvCqes) \in Nat
         /\ Count(Unhandled', BadRecvCqes) <= Count(Unhandled, BadRecvCqes)
         /\ \A k \in 1..Len(Unhandled') :
              Unhandled'[k] \in AcceptCqes =>
                Count(sq, BadRecvSqes) + Count(Behind(Unhandled', k), BadRecvCqes) <= 1
         /\ event = "ACCEPT" =>
              Count(sq, BadRecvSqes) + Count(Unhandled', BadRecvCqes) <= 1
<1>1. /\ Running /\ Unhandled \in Seq(Cqes) /\ Unhandled # <<>>
      /\ Head(Unhandled) = cq[i + 1] /\ Unhandled' = Tail(Unhandled)
      /\ cq[i + 1] \in Cqes /\ cq[i + 1].event = event /\ cq[i + 1] = Unhandled[1]
      /\ Len(Unhandled) \in Nat /\ Len(Unhandled) > 0
      /\ Unhandled' \in Seq(Cqes) /\ Len(Unhandled') = Len(Unhandled) - 1
      /\ \A k \in 1..Len(Unhandled') :
           k + 1 \in 1..Len(Unhandled) /\ Unhandled'[k] = Unhandled[k + 1]
      /\ Count(Unhandled, BadRecvCqes) \in Nat /\ Count(Unhandled', BadRecvCqes) \in Nat
      /\ Count(Unhandled, BadRecvCqes) =
           Count(Unhandled', BadRecvCqes) + Weight(cq[i + 1], BadRecvCqes)
  BY UnhandledTail, HandlingEffect
<1>2. \A k \in 0..Len(Unhandled') : Behind(Unhandled', k) = Behind(Unhandled, k + 1)
  BY <1>1, BehindTail
<1>3. ASSUME NEW k \in 1..Len(Unhandled'), Unhandled'[k] \in AcceptCqes
      PROVE  Count(sq, BadRecvSqes) + Count(Behind(Unhandled', k), BadRecvCqes) <= 1
  BY <1>1, <1>2, <1>3 DEF FewBadRecvs
<1>4. ASSUME event = "ACCEPT"
      PROVE  Count(sq, BadRecvSqes) + Count(Unhandled', BadRecvCqes) <= 1
  <2>1. 1 \in 1..Len(Unhandled) /\ Unhandled[1] \in AcceptCqes /\ 0 \in 0..Len(Unhandled')
    BY <1>1, <1>4, CqeKinds
  <2>2. Behind(Unhandled', 0) = Unhandled'
    BY <1>1, <2>1, BehindElements
  <2>3. Behind(Unhandled, 1) = Unhandled'
    BY <1>2, <2>1, <2>2
  <2> QED
    BY <1>1, <2>1, <2>3 DEF FewBadRecvs
<1>5. Weight(cq[i + 1], BadRecvCqes) \in 0..1
  BY DEF Weight
<1> QED
  BY <1>1, <1>3, <1>4, <1>5

\* Handling a recv or a send prepares no recv on no descriptor.
LEMMA BadRecvsTransfer ==
  ASSUME RingInv, FewBadRecvs, NEW event, Handling(event),
         \/ UNCHANGED sq
         \/ \E s \in Sqes : s.event # "ACCEPT" /\ s.fd # BadFd /\ Prepare(<<s>>)
  PROVE  FewBadRecvs'
<1>1. /\ Running /\ flight' = flight /\ sq \in Seq(Sqes) /\ Len(sq) \in Nat
      /\ Count(sq, BadRecvSqes) \in Nat /\ Count(Unhandled, BadRecvCqes) \in Nat
  BY HandlingEffect, BadRecvsTyped
<1>2. /\ Count(Unhandled', BadRecvCqes) \in Nat
      /\ Count(Unhandled', BadRecvCqes) <= Count(Unhandled, BadRecvCqes)
      /\ \A k \in 1..Len(Unhandled') :
           Unhandled'[k] \in AcceptCqes =>
             Count(sq, BadRecvSqes) + Count(Behind(Unhandled', k), BadRecvCqes) <= 1
  BY HandledBehind
<1>3. CASE sq' = sq
  BY <1>1, <1>2, <1>3 DEF FewBadRecvs, BadRecvs
<1>4. ASSUME NEW s \in Sqes, s.event # "ACCEPT", s.fd # BadFd, sq' = sq \o <<s>>
      PROVE  FewBadRecvs'
  <2>1. /\ sq' = Append(sq, s) /\ Len(sq') = Len(sq) + 1
        /\ \A k \in 1..Len(sq') : sq'[k] = IF k = Len(sq) + 1 THEN s ELSE sq[k]
    <3>1. sq' = Append(sq, s)
      BY <1>1, <1>4, AppendIsConcat
    <3> QED
      BY <1>1, <3>1, AppendElements
  <2>2. s \notin AcceptSqes /\ Weight(s, BadRecvSqes) = 0
    BY <1>4, SqeKinds, BadRecvKinds DEF Weight
  <2>3. /\ Count(sq', BadRecvSqes) = Count(sq, BadRecvSqes)
        /\ \A k \in 0..Len(sq) : Count(Behind(sq', k), BadRecvSqes) =
                                   Count(Behind(sq, k), BadRecvSqes)
    <3>1. Count(sq', BadRecvSqes) = Count(sq, BadRecvSqes) + Weight(s, BadRecvSqes)
      BY <1>1, <2>1, CountAppend
    <3>2. \A k \in 0..Len(sq) : Count(Behind(sq', k), BadRecvSqes) =
                                  Count(Behind(sq, k), BadRecvSqes) + Weight(s, BadRecvSqes)
      BY <1>1, <2>1, BehindAppend
    <3>3. \A k \in 0..Len(sq) : Count(Behind(sq, k), BadRecvSqes) \in Nat
      BY <1>1, BehindElements
    <3> QED
      BY <1>1, <2>2, <3>1, <3>2, <3>3
  <2>4. ASSUME NEW k \in 1..Len(sq'), sq'[k] \in AcceptSqes
        PROVE  Count(Behind(sq', k), BadRecvSqes) <= 1
    BY <1>1, <2>1, <2>2, <2>3, <2>4 DEF FewBadRecvs
  <2> QED
    BY <1>1, <1>2, <2>3, <2>4 DEF FewBadRecvs, BadRecvs
<1>5. CASE UNCHANGED sq
  BY <1>3, <1>5
<1>6. ASSUME NEW s \in Sqes, s.event # "ACCEPT", s.fd # BadFd, Prepare(<<s>>)
      PROVE  FewBadRecvs'
  BY <1>3, <1>4, <1>6 DEF Prepare, Queue
<1> QED
  BY <1>5, <1>6

\* A failed accept adds one, when one other is left at most.
LEMMA BadRecvsAccept ==
  ASSUME RingInv, FewBadRecvs, Handling("ACCEPT"), NEW a \in AcceptSqes, NEW r \in Sqes,
         r.event # "ACCEPT", Prepare(<<a, r>>)
  PROVE  FewBadRecvs'
<1>1. /\ Running /\ flight' = flight /\ sq \in Seq(Sqes) /\ Len(sq) \in Nat
      /\ Count(sq, BadRecvSqes) \in Nat /\ Count(Unhandled, BadRecvCqes) \in Nat
      /\ a \in Sqes /\ a.event = "ACCEPT"
  BY HandlingEffect, BadRecvsTyped DEF Sqes, AcceptSqes
<1>2. /\ Count(Unhandled', BadRecvCqes) \in Nat
      /\ Count(sq, BadRecvSqes) + Count(Unhandled', BadRecvCqes) <= 1
  BY HandledBehind
<1>3. /\ \A k \in 1..Len(sq) : sq[k] \notin AcceptSqes
      /\ \A op \in flight : op \notin AcceptOps
      /\ \A k \in 1..Len(Unhandled') : Unhandled'[k] \notin AcceptCqes
  <2>1. /\ Count(Unhandled, AcceptCqes) \in Nat /\ Count(Unhandled', AcceptCqes) \in Nat
        /\ Count(Unhandled, AcceptCqes) =
             Count(Unhandled', AcceptCqes) + Weight(cq[i + 1], AcceptCqes)
        /\ Unhandled' \in Seq(Cqes) /\ cq[i + 1] \in Cqes /\ cq[i + 1].event = "ACCEPT"
    BY HandlingEffect
  <2>2. Weight(cq[i + 1], AcceptCqes) = 1
    BY <2>1, CqeKinds DEF Weight
  <2>3. /\ Count(sq, AcceptSqes) + Cardinality(flight \cap AcceptOps)
           + Count(Unhandled, AcceptCqes) = 1
        /\ Count(sq, AcceptSqes) \in Nat /\ Cardinality(flight \cap AcceptOps) \in Nat
        /\ IsFiniteSet(flight)
    BY <1>1, CountsTyped DEF RingInv, AcceptArmed, Accepts
  <2>4. /\ Count(sq, AcceptSqes) = 0 /\ Cardinality(flight \cap AcceptOps) = 0
        /\ Count(Unhandled', AcceptCqes) = 0
    BY <2>1, <2>2, <2>3
  <2> QED
    BY <1>1, <2>1, <2>3, <2>4, CountMeaning, FlightMeaning
<1>4. CASE Running'
  <2>1. sq' = sq \o <<a, r>>
    BY <1>4 DEF Prepare, Queue, Running
  <2> DEFINE b == Append(sq, a)
  <2>2. /\ b \in Seq(Sqes) /\ Len(b) = Len(sq) + 1 /\ sq' = Append(b, r)
        /\ \A k \in 1..Len(b) : b[k] = IF k = Len(sq) + 1 THEN a ELSE sq[k]
    BY <1>1, <2>1, AppendElements
  <2>3. Weight(a, BadRecvSqes) = 0 /\ Weight(r, BadRecvSqes) \in 0..1 /\ r \notin AcceptSqes
    BY <1>1, SqeKinds, BadRecvKinds DEF Weight
  <2>4. Count(b, BadRecvSqes) = Count(sq, BadRecvSqes)
    BY <1>1, <2>3, CountAppend
  <2>5. Count(Behind(b, Len(sq) + 1), BadRecvSqes) = 0
    BY <1>1, BehindAppend
  <2> HIDE DEF b
  <2>6. /\ Len(sq') = Len(sq) + 2
        /\ \A k \in 1..Len(sq') : sq'[k] = IF k = Len(sq) + 2 THEN r ELSE b[k]
        /\ Count(sq', BadRecvSqes) = Count(sq, BadRecvSqes) + Weight(r, BadRecvSqes)
    BY <1>1, <2>2, <2>4, AppendElements, CountAppend
  <2>7. Count(Behind(sq', Len(sq) + 1), BadRecvSqes) = Weight(r, BadRecvSqes)
    <3> DEFINE n == Len(sq) + 1
    <3>1. n \in 0..Len(b)
      BY <1>1, <2>2
    <3>2. Count(Behind(b, n), BadRecvSqes) = 0
      BY <2>5
    <3> HIDE DEF n
    <3>3. Count(Behind(Append(b, r), n), BadRecvSqes) =
            Count(Behind(b, n), BadRecvSqes) + Weight(r, BadRecvSqes)
      BY <2>2, <3>1, BehindAppend
    <3> QED
      BY <2>2, <2>3, <3>2, <3>3 DEF n
  <2>8. ASSUME NEW k \in 1..Len(sq'), sq'[k] \in AcceptSqes
        PROVE  Count(Behind(sq', k), BadRecvSqes) <= 1
    <3>1. k = Len(sq) + 1
      <4>1. k # Len(sq) + 2
        BY <2>3, <2>6, <2>8
      <4>2. sq'[k] = b[k] /\ k \in 1..Len(b)
        BY <1>1, <2>2, <2>6, <4>1
      <4>3. ASSUME k # Len(sq) + 1
            PROVE  FALSE
        <5>1. b[k] = sq[k] /\ k \in 1..Len(sq)
          BY <1>1, <2>2, <4>2, <4>3
        <5> QED
          BY <1>3, <2>8, <4>2, <5>1
      <4> QED
        BY <4>3
    <3> QED
      BY <2>3, <2>7, <3>1
  <2> QED
    BY <1>1, <1>2, <1>3, <2>3, <2>6, <2>8 DEF FewBadRecvs, BadRecvs
<1>5. CASE ~Running'
  BY <1>5 DEF FewBadRecvs
<1> QED
  BY <1>4, <1>5

-----------------------------------------------------------------------------
(* The completion ring has room.                                           *)

\* Completions and operations come from entries only, and these are taken when
\* the last batch is gone: all there are carry a descriptor on, or are the
\* accept or one of few others.
LEMMA CqRoomSubmit ==
  ASSUME RingInv, RingInv', FewBadRecvs', Submit
  PROVE  CqRoom'
<1>1. /\ pc = "submit" /\ Running /\ Running' /\ i' = i /\ nready = 0 /\ i = 0
  BY DEF Submit, RingInv, BatchHeld, LoopTypeOK, Running, batchVars
<1>2. /\ cq' \in Seq(Cqes) /\ flight' \subseteq Ops /\ IsFiniteSet(flight')
      /\ sq' \in Seq(Sqes)
  BY DEF RingInv, UringTypeOK
<1>3. Unhandled' = cq'
  <2>1. SubSeq(cq', 1, Len(cq')) = cq'
    BY <1>2, WholeRest
  <2> QED
    BY <1>1, <2>1 DEF Unhandled
<1>4. /\ \A T : Count(sq', T) \in Nat /\ Count(cq', T) \in Nat
      /\ \A T : Cardinality(flight' \cap T) \in Nat
      /\ Cardinality(flight') \in Nat /\ Len(cq') \in Nat /\ MaxFd \in Nat
  BY <1>2, HitsFinite, FlightMeaning, FS_CardinalityType, LenProperties, FdFacts
<1>5. \A fd \in Fds : Count(cq', CqesOn(fd)) + Cardinality(flight' \cap OpsOn(fd)) <= 1
  <2> SUFFICES ASSUME NEW fd \in Fds
               PROVE  Count(cq', CqesOn(fd)) + Cardinality(flight' \cap OpsOn(fd)) <= 1
    OBVIOUS
  <2>1. Count(sq', SqesOn(fd)) + Cardinality(flight' \cap OpsOn(fd))
          + Count(cq', CqesOn(fd)) \in 0..1
    BY <1>1, <1>3 DEF RingInv, OneChainPerDescriptor, Carriers, SqesOn, OpsOn, CqesOn
  <2>2. /\ Count(sq', SqesOn(fd)) \in Nat /\ Count(cq', CqesOn(fd)) \in Nat
        /\ Cardinality(flight' \cap OpsOn(fd)) \in Nat
    BY <1>4
  <2> QED
    BY <2>1, <2>2
<1>6. Cardinality(flight' \cap AcceptOps) + Count(cq', AcceptCqes) <= 1
  <2>1. Count(sq', AcceptSqes) + Cardinality(flight' \cap AcceptOps)
          + Count(cq', AcceptCqes) = 1
    BY <1>1, <1>3 DEF RingInv, AcceptArmed, Accepts
  <2>2. /\ Count(sq', AcceptSqes) \in Nat /\ Count(cq', AcceptCqes) \in Nat
        /\ Cardinality(flight' \cap AcceptOps) \in Nat
    BY <1>4
  <2> QED
    BY <2>1, <2>2
<1>7. Count(cq', BadRecvCqes) <= 2
  <2>1. Count(sq', BadRecvSqes) + Count(cq', BadRecvCqes) <= 2
    BY <1>1, <1>3 DEF FewBadRecvs, BadRecvs
  <2> QED
    BY <1>4, <2>1
<1>8. Len(cq') + Cardinality(flight') <=
        MaxFd + Count(cq', AcceptCqes) + Count(cq', BadRecvCqes)
        + Cardinality(flight' \cap AcceptOps)
  BY <1>2, <1>5, FewCarriers
<1>9. /\ Count(cq', AcceptCqes) \in Nat /\ Count(cq', BadRecvCqes) \in Nat
      /\ Cardinality(flight' \cap AcceptOps) \in Nat
      /\ Cardinality(flight') \in Nat /\ Len(cq') \in Nat /\ MaxFd \in Nat
  BY <1>4
<1> QED
  BY <1>6, <1>7, <1>8, <1>9 DEF CqRoom

LEMMA CqInvInit ==
  ASSUME UringInit, LoopInit
  PROVE  CqInv
<1>1. Cardinality(flight) = 0 /\ Len(cq) = 0 /\ ~Running
  BY FS_EmptySet, EmptySeq DEF UringInit, LoopInit, Running
<1> QED
  BY <1>1, FdFacts DEF CqInv, CqRoom, FewBadRecvs

LEMMA CqInvSubmit ==
  ASSUME RingInv, RingInv', CqInv, Submit
  PROVE  CqInv'
BY BadRecvsSubmit, CqRoomSubmit DEF CqInv

LEMMA CqInvLoop ==
  ASSUME RingInv, RingInv', CqInv, Loop
  PROVE  CqInv'
<1>1. CASE Submit
  BY <1>1, CqInvSubmit
<1>2. CASE Submitted \/ Peek \/ Advance
  <2>1. UNCHANGED <<sq, flight>> /\ Unhandled' = Unhandled /\ Running
    BY <1>2, RoundEffect DEF Submitted, Peek, Advance, Running
  <2>2. Len(cq') <= Len(cq) /\ Len(cq') \in Nat /\ Len(cq) \in Nat
    <3>1. CASE Submitted \/ Peek
      BY <3>1, UnhandledElements DEF Submitted, Peek, uringVars
    <3>2. CASE Advance
      <4>1. cq \in Seq(Cqes) /\ nready \in 0..Len(cq) /\ cq' = SubSeq(cq, nready + 1, Len(cq))
            /\ Len(cq) \in Nat
        BY <3>2, UnhandledElements DEF Advance, Advanced, Free, RingInv, BatchHeld
      <4>2. Len(cq') = Len(cq) - nready
        BY <4>1, RestElements
      <4> QED
        BY <4>1, <4>2
    <3> QED
      BY <1>2, <3>1, <3>2
  <2>3. Cardinality(flight) \in Nat /\ MaxFd \in Nat
    BY FdFacts, FS_CardinalityType DEF RingInv
  <2>4. CqRoom'
    BY <2>1, <2>2, <2>3 DEF CqInv, CqRoom
  <2> QED
    BY <2>1, <2>4, BadRecvsFrame DEF CqInv
<1> QED
  BY <1>1, <1>2 DEF Loop

\* A completed operation becomes one completion.
LEMMA CqInvComplete ==
  ASSUME RingInv, CqInv, Running, NEW op \in flight, NEW res,
         Cqe(op, res) \in Cqes, Complete(op, res), UNCHANGED <<sq, batchVars>>
  PROVE  CqInv'
<1>1. /\ flight' = flight \ {op} /\ Len(cq') = Len(cq) + 1 /\ Len(cq) \in Nat
      /\ IsFiniteSet(flight) /\ Cardinality(flight) \in Nat
  BY AppendEffect, UnhandledElements, FS_CardinalityType DEF Complete, RingInv
<1>2. Cardinality(flight') = Cardinality(flight) - 1
  BY <1>1, FS_RemoveElement
<1> QED
  BY <1>1, <1>2, BadRecvsComplete, FdFacts DEF CqInv, CqRoom

\* Nothing happens to the rings.
LEMMA CqInvFrame ==
  ASSUME CqInv, Running, UNCHANGED <<uringVars, i>>
  PROVE  CqInv'
<1>1. UNCHANGED <<sq, flight>> /\ Unhandled' = Unhandled /\ cq' = cq
  BY DEF uringVars, Unhandled
<1> QED
  BY <1>1, BadRecvsFrame DEF CqInv, CqRoom

\* Completions are handled, and stay in the ring meanwhile.
LEMMA CqInvTransfer ==
  ASSUME RingInv, CqInv, NEW event, Handling(event),
         \/ UNCHANGED sq
         \/ \E s \in Sqes : s.event # "ACCEPT" /\ s.fd # BadFd /\ Prepare(<<s>>)
  PROVE  CqInv'
BY HandlingEffect, BadRecvsTransfer DEF CqInv, CqRoom

LEMMA CqInvAccept ==
  ASSUME RingInv, CqInv, Handling("ACCEPT"), NEW a \in AcceptSqes, NEW r \in Sqes,
         r.event # "ACCEPT", Prepare(<<a, r>>)
  PROVE  CqInv'
BY HandlingEffect, BadRecvsAccept DEF CqInv, CqRoom

\* The process is gone, and leaves the rings as they are.
LEMMA CqInvOver ==
  ASSUME CqInv, UNCHANGED <<flight, cq>>, ~Running'
  PROVE  CqInv'
BY DEF CqInv, CqRoom, FewBadRecvs

LEMMA CqInvBoot ==
  ASSUME RingInv, CqInv, pc = "boot", NEW a \in AcceptSqes, sq' = <<a>>,
         UNCHANGED <<flight, cq, batchVars>>
  PROVE  CqInv'
<1>1. /\ flight' = {} /\ cq = <<>> /\ cq' = cq /\ Unhandled' = Unhandled
      /\ Unhandled \in Seq(Cqes) /\ Len(Unhandled) = 0 /\ a \in Sqes
  BY UnhandledElements, EmptySeq
  DEF RingInv, Dormant, Unhandled, batchVars, Sqes
<1>2. sq' \in Seq(Sqes) /\ Len(sq') = 1 /\ sq'[1] = a
  BY <1>1, CountOne
<1>3. Count(sq', BadRecvSqes) = 0 /\ Count(Unhandled, BadRecvCqes) = 0
  <2>1. Weight(a, BadRecvSqes) = 0
    BY <1>1, BadRecvKinds DEF Weight, AcceptSqes
  <2>2. Count(sq', BadRecvSqes) = 0
    BY <1>1, <2>1, CountOne
  <2>3. Unhandled = <<>>
    BY <1>1, EmptySeq
  <2> QED
    BY <2>2, <2>3, CountEmpty
<1>4. \A k \in 1..Len(sq') : Count(Behind(sq', k), BadRecvSqes) = 0
  <2> DEFINE s == <<a>>
  <2>1. s \in Seq(Sqes) /\ 1 \in 0..Len(s) /\ 1 = Len(s)
    BY <1>1, <1>2
  <2> HIDE DEF s
  <2>2. Count(Behind(s, 1), BadRecvSqes) = 0
    BY <2>1, BehindElements
  <2> QED
    BY <1>2, <2>2 DEF s
<1> QED
  BY <1>1, <1>3, <1>4 DEF CqInv, CqRoom, FewBadRecvs, BadRecvs

LEMMA CqInvBounds ==
  ASSUME RingInv, CqInv
  PROVE  CqNeverFull
<1>1. Cardinality(flight) \in Nat /\ Len(cq) \in Nat /\ MaxFd \in Nat
  BY FS_CardinalityType, UnhandledElements, FdFacts DEF RingInv
<1> QED
  BY <1>1 DEF CqInv, CqRoom, CqNeverFull
=============================================================================
