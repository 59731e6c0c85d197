---------------------------- MODULE UringProofs ----------------------------
(***************************************************************************)
(* What the proofs about the two io_uring servers have in common: the      *)
(* steps of the loop and of the kernel preserve RingInv, for every value   *)
(* of the constants.                                                       *)
(***************************************************************************)
EXTENDS UringProps, TLAPS, SequenceTheorems, FiniteSetTheorems, FunctionTheorems

-----------------------------------------------------------------------------
(* Facts about sequences, and about counting their elements. *)

\* What is left of a sequence after its head.
LEMMA TailElements ==
  ASSUME NEW S, NEW s \in Seq(S), s # <<>>
  PROVE  /\ Tail(s) \in Seq(S)
         /\ Len(s) \in Nat /\ Len(s) > 0
         /\ Len(Tail(s)) = Len(s) - 1
         /\ \A k \in 1..Len(Tail(s)) : k + 1 \in 1..Len(s) /\ Tail(s)[k] = s[k + 1]
         /\ 1 \in 1..Len(s)
         /\ Head(s) = s[1]
         /\ Head(s) \in S
BY HeadTailProperties, LenProperties, EmptySeq

\* What appending one element changes.
LEMMA AppendElements ==
  ASSUME NEW S, NEW s \in Seq(S), NEW e \in S
  PROVE  /\ Append(s, e) \in Seq(S)
         /\ Len(s) \in Nat
         /\ Len(Append(s, e)) = Len(s) + 1
         /\ \A k \in 1..Len(Append(s, e)) :
              Append(s, e)[k] = IF k = Len(s) + 1 THEN e ELSE s[k]
BY AppendProperties, LenProperties

\* What is left of a sequence after its first n elements.
LEMMA RestElements ==
  ASSUME NEW S, NEW s \in Seq(S), NEW n \in 0..Len(s)
  PROVE  /\ SubSeq(s, n + 1, Len(s)) \in Seq(S)
         /\ Len(SubSeq(s, n + 1, Len(s))) = Len(s) - n
         /\ \A k \in 1..Len(s) - n :
              SubSeq(s, n + 1, Len(s))[k] = s[n + k] /\ n + k \in 1..Len(s)
<1>1. Len(s) \in Nat /\ n \in Nat /\ \A k \in n + 1..Len(s) : s[k] \in S
  BY LenProperties, ElementOfSeq
<1> DEFINE m == n + 1
<1>2. m \in Int /\ Len(s) \in Int /\ \A k \in m..Len(s) : s[k] \in S
  BY <1>1
<1>3. /\ SubSeq(s, m, Len(s)) \in Seq(S)
      /\ Len(SubSeq(s, m, Len(s))) = IF m <= Len(s) THEN Len(s) - m + 1 ELSE 0
      /\ \A k \in 1..Len(s) - m + 1 : SubSeq(s, m, Len(s))[k] = s[m + k - 1]
  BY <1>2, SubSeqProperties
<1> QED
  BY <1>1, <1>3

LEMMA RestTail ==
  ASSUME NEW S, NEW s \in Seq(S), NEW n \in 0..Len(s), n < Len(s)
  PROVE  /\ SubSeq(s, n + 1, Len(s)) # <<>>
         /\ Head(SubSeq(s, n + 1, Len(s))) = s[n + 1]
         /\ Tail(SubSeq(s, n + 1, Len(s))) = SubSeq(s, (n + 1) + 1, Len(s))
<1>1. Len(s) \in Nat /\ n + 1 \in 1..Len(s) /\ Len(s) \in (n + 1)..Len(s)
  BY LenProperties
<1>2. Len(SubSeq(s, n + 1, Len(s))) > 0
  BY <1>1, RestElements
<1>3. SubSeq(s, n + 1, Len(s)) # <<>>
  <2> DEFINE r == SubSeq(s, n + 1, Len(s))
  <2>1. Len(r) > 0
    BY <1>2
  <2> HIDE DEF r
  <2>2. r # <<>>
    BY <2>1, EmptySeq
  <2> QED
    BY <2>2 DEF r
<1> DEFINE m == n + 1
<1>4. m \in 1..Len(s) /\ Len(s) \in m..Len(s)
  BY <1>1
<1>5. /\ Head(SubSeq(s, m, Len(s))) = s[m]
      /\ Tail(SubSeq(s, m, Len(s))) = SubSeq(s, m + 1, Len(s))
  BY <1>4, HeadTailOfSubSeq
<1> QED
  BY <1>3, <1>5

LEMMA RestAppend ==
  ASSUME NEW S, NEW s \in Seq(S), NEW n \in 0..Len(s), NEW e \in S
  PROVE  SubSeq(Append(s, e), n + 1, Len(Append(s, e))) =
           Append(SubSeq(s, n + 1, Len(s)), e)
<1> DEFINE t == Append(s, e)
           r == SubSeq(s, n + 1, Len(s))
<1>1. /\ t \in Seq(S) /\ Len(s) \in Nat /\ Len(t) = Len(s) + 1
      /\ \A k \in 1..Len(t) : t[k] = IF k = Len(s) + 1 THEN e ELSE s[k]
  BY AppendElements
<1>2. n \in 0..Len(t)
  BY <1>1
<1>3. /\ SubSeq(t, n + 1, Len(t)) \in Seq(S)
      /\ Len(SubSeq(t, n + 1, Len(t))) = Len(t) - n
      /\ \A k \in 1..Len(t) - n :
           SubSeq(t, n + 1, Len(t))[k] = t[n + k] /\ n + k \in 1..Len(t)
  BY <1>1, <1>2, RestElements
<1>4. /\ r \in Seq(S) /\ Len(r) = Len(s) - n
      /\ \A k \in 1..Len(s) - n : r[k] = s[n + k] /\ n + k \in 1..Len(s)
  BY RestElements
<1>5. /\ Append(r, e) \in Seq(S) /\ Len(Append(r, e)) = Len(r) + 1
      /\ \A k \in 1..Len(Append(r, e)) :
           Append(r, e)[k] = IF k = Len(r) + 1 THEN e ELSE r[k]
  BY <1>4, AppendElements
<1> HIDE DEF t, r
<1>6. \A k \in 1..Len(SubSeq(t, n + 1, Len(t))) :
        SubSeq(t, n + 1, Len(t))[k] = Append(r, e)[k]
  <2> TAKE k \in 1..Len(SubSeq(t, n + 1, Len(t)))
  <2>1. /\ k \in 1..Len(t) - n /\ n \in Nat /\ k \in 1..Len(Append(r, e))
        /\ n + k \in 1..Len(t)
        /\ SubSeq(t, n + 1, Len(t))[k] = t[n + k]
    BY <1>1, <1>3, <1>4, <1>5
  <2>2. CASE k = Len(r) + 1
    BY <1>1, <1>4, <1>5, <2>1, <2>2
  <2>3. CASE k # Len(r) + 1
    <3>1. k \in 1..Len(s) - n /\ n + k # Len(s) + 1
      BY <1>1, <1>4, <1>5, <2>1, <2>3
    <3> QED
      BY <1>1, <1>4, <1>5, <2>1, <2>3, <3>1
  <2> QED
    BY <2>2, <2>3
<1>7. Len(SubSeq(t, n + 1, Len(t))) = Len(Append(r, e))
  BY <1>1, <1>3, <1>4, <1>5
<1>8. SubSeq(t, n + 1, Len(t)) = Append(r, e)
  BY <1>3, <1>5, <1>6, <1>7, SeqEqual
<1> QED
  BY <1>8 DEF t, r

Hits(s, T) == {k \in 1..Len(s) : s[k] \in T}
Weight(e, T) == IF e \in T THEN 1 ELSE 0

LEMMA HitsFinite ==
  ASSUME NEW S, NEW s \in Seq(S), NEW T
  PROVE  /\ IsFiniteSet(Hits(s, T))
         /\ Count(s, T) = Cardinality(Hits(s, T)) /\ Count(s, T) \in Nat
<1>1. Len(s) \in Nat
  BY LenProperties
<1>2. IsFiniteSet(1..Len(s)) /\ Hits(s, T) \in SUBSET (1..Len(s))
  BY <1>1, FS_Interval DEF Hits
<1>3. IsFiniteSet(Hits(s, T))
  BY <1>2, FS_Subset
<1> QED
  BY <1>3, FS_CardinalityType DEF Count, Hits

LEMMA CountAppend ==
  ASSUME NEW S, NEW s \in Seq(S), NEW e \in S, NEW T
  PROVE  Count(Append(s, e), T) = Count(s, T) + Weight(e, T)
<1>1. /\ Append(s, e) \in Seq(S) /\ Len(s) \in Nat /\ Len(Append(s, e)) = Len(s) + 1
      /\ \A k \in 1..Len(Append(s, e)) :
           Append(s, e)[k] = IF k = Len(s) + 1 THEN e ELSE s[k]
  BY AppendElements
<1>2. IsFiniteSet(Hits(s, T)) /\ Cardinality(Hits(s, T)) \in Nat
  BY HitsFinite
<1>3. Len(s) + 1 \notin Hits(s, T)
  BY <1>1 DEF Hits
<1>6. /\ Count(s, T) = Cardinality(Hits(s, T))
      /\ Count(Append(s, e), T) = Cardinality(Hits(Append(s, e), T))
  BY <1>1, HitsFinite
<1>4. CASE e \in T
  <2>1. Hits(Append(s, e), T) = Hits(s, T) \cup {Len(s) + 1}
    BY <1>1, <1>4 DEF Hits
  <2> QED
    BY <1>2, <1>3, <1>4, <1>6, <2>1, FS_AddElement DEF Weight
<1>5. CASE e \notin T
  <2>1. Hits(Append(s, e), T) = Hits(s, T)
    BY <1>1, <1>5 DEF Hits
  <2> QED
    BY <1>2, <1>5, <1>6, <2>1 DEF Weight
<1> QED
  BY <1>4, <1>5

LEMMA CountTail ==
  ASSUME NEW S, NEW s \in Seq(S), s # <<>>, NEW T
  PROVE  Count(s, T) = Count(Tail(s), T) + Weight(Head(s), T)
<1>1. /\ Tail(s) \in Seq(S) /\ Len(s) \in Nat /\ Len(s) > 0
      /\ Len(Tail(s)) = Len(s) - 1 /\ Head(s) = s[1]
      /\ \A k \in 1..Len(Tail(s)) : k + 1 \in 1..Len(s) /\ Tail(s)[k] = s[k + 1]
  BY TailElements
<1> DEFINE H == Hits(Tail(s), T)
           rest == Hits(s, T) \ {1}
           shift == [k \in H |-> k + 1]
<1>2. \A k \in rest : k - 1 \in H /\ k = (k - 1) + 1
  BY <1>1 DEF Hits
<1>3. \A k \in H : k + 1 \in rest /\ k \in Nat
  BY <1>1 DEF Hits
<1>4. shift \in Bijection(H, rest)
  <2>1. shift \in [H -> rest]
    BY <1>3
  <2>2. IsInjective(shift)
    BY <1>3 DEF IsInjective
  <2>3. \A t \in rest : \E k \in H : shift[k] = t
    BY <1>2
  <2> QED
    BY <2>1, <2>2, <2>3 DEF Bijection, Injection, Surjection
<1>5. IsFiniteSet(H) /\ Count(Tail(s), T) = Cardinality(H)
  BY <1>1, HitsFinite
<1>6. Cardinality(rest) = Cardinality(H)
  BY <1>4, <1>5, FS_Bijection DEF ExistsBijection
<1>7. IsFiniteSet(Hits(s, T)) /\ Count(s, T) = Cardinality(Hits(s, T)) /\ Count(s, T) \in Nat
  BY HitsFinite
<1>8. Cardinality(rest) = IF 1 \in Hits(s, T) THEN Count(s, T) - 1 ELSE Count(s, T)
  BY <1>7, FS_RemoveElement
<1>9. 1 \in Hits(s, T) <=> Head(s) \in T
  BY <1>1 DEF Hits
<1> QED
  BY <1>5, <1>6, <1>7, <1>8, <1>9 DEF Weight

LEMMA CountEmpty ==
  ASSUME NEW T
  PROVE  Count(<<>>, T) = 0
<1>1. {k \in 1..Len(<<>>) : <<>>[k] \in T} = {}
  BY EmptySeq
<1> QED
  BY <1>1, FS_EmptySet DEF Count

\* A count of 0 means that nothing counts; one of 1, that only one thing does.
LEMMA CountMeaning ==
  ASSUME NEW S, NEW s \in Seq(S), NEW T
  PROVE  /\ Count(s, T) = 0 => \A k \in 1..Len(s) : s[k] \notin T
         /\ Count(s, T) = 1 =>
              \A j, k \in 1..Len(s) : s[j] \in T /\ s[k] \in T => j = k
         /\ (\A k \in 1..Len(s) : s[k] \notin T) => Count(s, T) = 0
<1>1. IsFiniteSet(Hits(s, T)) /\ Count(s, T) = Cardinality(Hits(s, T))
  BY HitsFinite
<1>2. Count(s, T) = 0 <=> Hits(s, T) = {}
  BY <1>1, FS_EmptySet
<1>3. Count(s, T) = 1 => \E x : Hits(s, T) = {x}
  BY <1>1, FS_Singleton
<1> QED
  BY <1>2, <1>3 DEF Hits

\* Operations in flight are counted in the same way.
LEMMA FlightAdd ==
  ASSUME NEW F, IsFiniteSet(F), NEW op, op \notin F, NEW T
  PROVE  /\ IsFiniteSet(F \cup {op})
         /\ Cardinality((F \cup {op}) \cap T) = Cardinality(F \cap T) + Weight(op, T)
<1>1. IsFiniteSet(F \cap T) /\ Cardinality(F \cap T) \in Nat /\ op \notin F \cap T
  BY FS_Intersection, FS_CardinalityType
<1>4. IsFiniteSet(F \cup {op})
  BY FS_AddElement
<1>2. CASE op \in T
  <2>1. (F \cup {op}) \cap T = (F \cap T) \cup {op}
    BY <1>2
  <2> QED
    BY <1>1, <1>2, <2>1, FS_AddElement DEF Weight
<1>3. CASE op \notin T
  <2>1. (F \cup {op}) \cap T = F \cap T
    BY <1>3
  <2>2. Cardinality((F \cup {op}) \cap T) = Cardinality(F \cap T)
    BY <2>1
  <2> QED
    BY <1>1, <1>3, <1>4, <2>2 DEF Weight
<1> QED
  BY <1>2, <1>3

LEMMA FlightRemove ==
  ASSUME NEW F, IsFiniteSet(F), NEW op \in F, NEW T
  PROVE  /\ IsFiniteSet(F \ {op})
         /\ Cardinality((F \ {op}) \cap T) = Cardinality(F \cap T) - Weight(op, T)
<1>1. IsFiniteSet(F \cap T) /\ Cardinality(F \cap T) \in Nat
  BY FS_Intersection, FS_CardinalityType
<1>4. IsFiniteSet(F \ {op})
  BY FS_RemoveElement
<1>2. CASE op \in T
  <2>1. (F \ {op}) \cap T = (F \cap T) \ {op} /\ op \in F \cap T
    BY <1>2
  <2> QED
    BY <1>1, <1>2, <2>1, FS_RemoveElement DEF Weight
<1>3. CASE op \notin T
  <2>1. (F \ {op}) \cap T = F \cap T
    BY <1>3
  <2>2. Cardinality((F \ {op}) \cap T) = Cardinality(F \cap T)
    BY <2>1
  <2> QED
    BY <1>1, <1>3, <1>4, <2>2 DEF Weight
<1> QED
  BY <1>2, <1>3

LEMMA FlightMeaning ==
  ASSUME NEW F, IsFiniteSet(F), NEW T
  PROVE  /\ Cardinality(F \cap T) \in Nat
         /\ Cardinality(F \cap T) = 0 => \A op \in F : op \notin T
         /\ Cardinality(F \cap T) = 1 =>
              \A op, other \in F : op \in T /\ other \in T => op = other
         /\ (\A op \in F : op \notin T) => Cardinality(F \cap T) = 0
<1>1. IsFiniteSet(F \cap T) /\ Cardinality(F \cap T) \in Nat
  BY FS_Intersection, FS_CardinalityType
<1>2. Cardinality(F \cap T) = 0 <=> F \cap T = {}
  BY <1>1, FS_EmptySet
<1>3. Cardinality(F \cap T) = 1 => \E x : F \cap T = {x}
  BY <1>1, FS_Singleton
<1> QED
  BY <1>1, <1>2, <1>3

LEMMA CountConcat ==
  ASSUME NEW S, NEW s \in Seq(S), NEW t \in Seq(S), NEW T
  PROVE  Count(s \o t, T) = Count(s, T) + Count(t, T)
<1>1. /\ s \o t \in Seq(S) /\ Len(s) \in Nat /\ Len(t) \in Nat
      /\ Len(s \o t) = Len(s) + Len(t)
      /\ \A k \in 1..Len(s) + Len(t) :
           (s \o t)[k] = IF k <= Len(s) THEN s[k] ELSE t[k - Len(s)]
  BY ConcatProperties, LenProperties
<1> DEFINE H == Hits(t, T)
           rest == Hits(s \o t, T) \ Hits(s, T)
           shift == [k \in H |-> k + Len(s)]
<1>2. \A k \in rest : k - Len(s) \in H /\ k = (k - Len(s)) + Len(s)
  BY <1>1 DEF Hits
<1>3. \A k \in H : k + Len(s) \in rest /\ k \in Nat
  BY <1>1 DEF Hits
<1>4. shift \in Bijection(H, rest)
  <2>1. shift \in [H -> rest]
    BY <1>3
  <2>2. IsInjective(shift)
    BY <1>1, <1>3 DEF IsInjective
  <2>3. \A k \in rest : \E j \in H : shift[j] = k
    BY <1>2
  <2> QED
    BY <2>1, <2>2, <2>3 DEF Bijection, Injection, Surjection
<1>5. /\ IsFiniteSet(H) /\ Count(t, T) = Cardinality(H)
      /\ IsFiniteSet(Hits(s, T)) /\ Count(s, T) = Cardinality(Hits(s, T))
      /\ Count(s \o t, T) = Cardinality(Hits(s \o t, T))
      /\ Count(s, T) \in Nat /\ Count(t, T) \in Nat
  BY <1>1, HitsFinite
<1>6. IsFiniteSet(rest) /\ Cardinality(rest) = Cardinality(H)
  BY <1>4, <1>5, FS_Bijection DEF ExistsBijection
<1>7. Hits(s \o t, T) = Hits(s, T) \cup rest /\ Hits(s, T) \cap rest = {}
  BY <1>1 DEF Hits
<1>8. Cardinality(Hits(s, T) \cup rest) =
        Cardinality(Hits(s, T)) + Cardinality(rest) - Cardinality(Hits(s, T) \cap rest)
  BY <1>5, <1>6, FS_Union
<1>9. Cardinality(Hits(s, T) \cap rest) = 0
  BY <1>7, FS_EmptySet
<1>10. Cardinality(Hits(s \o t, T)) = Cardinality(Hits(s, T) \cup rest)
  BY <1>7
<1> HIDE DEF H, rest
<1> QED
  BY <1>5, <1>6, <1>8, <1>9, <1>10

\* One entry, and two.
LEMMA CountOne ==
  ASSUME NEW S, NEW a \in S, NEW T
  PROVE  <<a>> \in Seq(S) /\ Count(<<a>>, T) = Weight(a, T)
<1>1. <<>> \in Seq(S) /\ <<a>> = Append(<<>>, a) /\ <<a>> \in Seq(S)
  BY EmptySeq
<1>2. Count(Append(<<>>, a), T) = Count(<<>>, T) + Weight(a, T)
  BY <1>1, CountAppend
<1> QED
  BY <1>1, <1>2, CountEmpty DEF Weight

LEMMA CountTwo ==
  ASSUME NEW S, NEW a \in S, NEW b \in S, NEW T
  PROVE  <<a, b>> \in Seq(S) /\ Count(<<a, b>>, T) = Weight(a, T) + Weight(b, T)
<1>1. <<a>> \in Seq(S) /\ <<a, b>> = Append(<<a>>, b) /\ <<a, b>> \in Seq(S)
  OBVIOUS
<1>2. Count(Append(<<a>>, b), T) = Count(<<a>>, T) + Weight(b, T)
  BY <1>1, CountAppend
<1> QED
  BY <1>1, <1>2, CountOne

-----------------------------------------------------------------------------
(* The kinds of entries, operations and completions. *)

LEMMA FdFacts ==
  /\ MaxFd \in Nat /\ BufferLength \in Nat /\ BufferLength > 0
  /\ CqBatch \in Nat /\ CqBatch > 0 /\ SqEntries \in Nat
  /\ ListenFd = 0 /\ BadFd = -1 /\ ListenFd \notin Fds /\ BadFd \notin Fds
  /\ BadFd \notin AllFds /\ Fds \subseteq AllFds /\ ListenFd \in AllFds
  /\ \A fd \in Fds : fd \in Nat /\ fd > 0
  /\ NoConn \notin Conns
BY TcpAssumption, UringAssumption
DEF TcpAssumption, UringAssumption, Fds, AllFds, ListenFd, BadFd

LEMMA SqeKinds ==
  ASSUME NEW e \in Sqes
  PROVE  /\ e.event \in {"ACCEPT", "READ", "WRITE"}
         /\ e.event = "ACCEPT" => e.fd \in {ListenFd, BadFd} /\ e.len = 0
         /\ e.event = "READ" => e.fd \in Fds \cup {BadFd} /\ e.len = BufferLength
         /\ e.event = "WRITE" => e.fd \in Fds /\ e.len \in 1..BufferLength
         /\ e \in AcceptSqes <=> e.event = "ACCEPT"
         /\ \A fd : e \in SqesOn(fd) <=> e.fd = fd
BY DEF Sqes, AcceptSqes, RecvSqes, SendSqes, SqesOn

LEMMA OpKinds ==
  ASSUME NEW op \in Ops
  PROVE  /\ op.event \in {"ACCEPT", "READ", "WRITE"}
         /\ op.event = "ACCEPT" => op.fd = ListenFd /\ op.conn = NoConn
         /\ op.event = "READ" =>
              op.fd \in Fds /\ op.conn \in Conns /\ op.len = BufferLength
         /\ op.event = "WRITE" =>
              op.fd \in Fds /\ op.conn \in Conns /\ op.len \in 1..BufferLength
         /\ op \in AcceptOps <=> op.event = "ACCEPT"
         /\ \A fd : op \in OpsOn(fd) <=> op.fd = fd
BY DEF Ops, AcceptOps, RecvOps, SendOps, OpsOn

LEMMA CqeKinds ==
  ASSUME NEW e \in Cqes
  PROVE  /\ e.event \in {"ACCEPT", "READ", "WRITE"}
         /\ e.event = "ACCEPT" => e.res \in Fds \cup {-1}
         /\ e.event = "READ" =>
              \/ e.fd \in Fds /\ e.conn \in Conns /\ e.res \in -1..BufferLength
              \/ e.fd = BadFd /\ e.res = -1
         /\ e.event = "WRITE" => e.fd \in Fds /\ e.conn \in Conns
         /\ e \in AcceptCqes <=> e.event = "ACCEPT"
         /\ \A fd : e \in CqesOn(fd) <=>
                    fd = IF e.event = "ACCEPT" THEN e.res ELSE e.fd
BY DEF Cqes, AcceptCqes, RecvCqes, BadRecvCqes, SendCqes, CqesOn

\* The entries that the servers prepare.
LEMMA PreparedKinds ==
  /\ \A fd \in {ListenFd, BadFd} : Sqe("ACCEPT", fd, 0) \in Sqes
  /\ \A fd \in Fds \cup {BadFd} : Sqe("READ", fd, BufferLength) \in Sqes
  /\ \A fd \in Fds, len \in 1..BufferLength : Sqe("WRITE", fd, len) \in Sqes
BY DEF Sqe, Sqes, AcceptSqes, RecvSqes, SendSqes

\* What becomes of them.
LEMMA CompletedKinds ==
  /\ \A op \in Ops, res \in Fds \cup {-1} : op.event = "ACCEPT" => Cqe(op, res) \in Cqes
  /\ \A op \in Ops, res \in -1..BufferLength : op.event # "ACCEPT" => Cqe(op, res) \in Cqes
BY DEF Cqe, Ops, AcceptOps, RecvOps, SendOps, Cqes, AcceptCqes, RecvCqes, SendCqes

-----------------------------------------------------------------------------
(* What the steps do to the rings. *)

\* The completions that wait to be handled.
LEMMA UnhandledElements ==
  ASSUME RingInv
  PROVE  /\ cq \in Seq(Cqes) /\ Len(cq) \in Nat /\ nready \in Nat /\ i \in 0..Len(cq)
         /\ Unhandled \in Seq(Cqes) /\ Len(Unhandled) = Len(cq) - i
         /\ Len(Unhandled) \in Nat
         /\ \A k \in 1..Len(Unhandled) : Unhandled[k] = cq[i + k] /\ Unhandled[k] \in Cqes
<1>1. cq \in Seq(Cqes) /\ nready \in Nat /\ i \in 0..nready /\ nready <= Len(cq)
  BY FdFacts DEF RingInv, UringTypeOK, LoopTypeOK, BatchHeld
<1>2. Len(cq) \in Nat /\ i \in 0..Len(cq)
  BY <1>1, LenProperties
<1>3. /\ Unhandled \in Seq(Cqes) /\ Len(Unhandled) = Len(cq) - i
      /\ \A k \in 1..Len(cq) - i : Unhandled[k] = cq[i + k]
  BY <1>1, <1>2, RestElements DEF Unhandled
<1>4. \A k \in 1..Len(Unhandled) : Unhandled[k] \in Cqes
  BY <1>3, ElementOfSeq
<1> QED
  BY <1>1, <1>2, <1>3, <1>4

\* A completion is handled: it is no longer among them.
LEMMA HandlingEffect ==
  ASSUME RingInv, NEW event, Handling(event)
  PROVE  /\ pc = "handle" /\ Running /\ UNCHANGED <<flight, cq, nready>>
         /\ i' = i + 1 /\ i' \in 0..nready /\ i < nready
         /\ cq[i + 1] \in Cqes /\ cq[i + 1].event = event
         /\ Len(Unhandled) \in Nat /\ Len(Unhandled) > 0 /\ cq[i + 1] = Unhandled[1]
         /\ Unhandled' \in Seq(Cqes) /\ Len(Unhandled') = Len(Unhandled) - 1
         /\ \A k \in 1..Len(Unhandled') :
              k + 1 \in 1..Len(Unhandled) /\ Unhandled'[k] = Unhandled[k + 1]
         /\ \A T : /\ Count(Unhandled, T) \in Nat /\ Count(Unhandled', T) \in Nat
                   /\ Count(Unhandled, T) = Count(Unhandled', T) + Weight(cq[i + 1], T)
<1>1. /\ pc = "handle" /\ UNCHANGED <<flight, cq, nready>> /\ i' = i + 1 /\ i < nready
      /\ cq[i + 1].event = event
  BY DEF Handling
<1>2. i \in 0..Len(cq) /\ i < Len(cq) /\ i' \in 0..nready
  BY <1>1, UnhandledElements DEF RingInv, LoopTypeOK, BatchHeld
<1>3. Unhandled # <<>> /\ Head(Unhandled) = cq[i + 1] /\ Unhandled' = Tail(Unhandled)
  BY <1>1, <1>2, RestTail, UnhandledElements DEF Unhandled
<1>4. Unhandled \in Seq(Cqes)
  BY UnhandledElements
<1>5. /\ Unhandled' \in Seq(Cqes)
      /\ Len(Unhandled) \in Nat /\ Len(Unhandled) > 0
      /\ Len(Unhandled') = Len(Unhandled) - 1
      /\ \A k \in 1..Len(Unhandled') :
           k + 1 \in 1..Len(Unhandled) /\ Unhandled'[k] = Unhandled[k + 1]
      /\ cq[i + 1] = Unhandled[1] /\ cq[i + 1] \in Cqes
  BY <1>3, <1>4, TailElements
<1>6. \A T : /\ Count(Unhandled, T) \in Nat /\ Count(Unhandled', T) \in Nat
            /\ Count(Unhandled, T) = Count(Unhandled', T) + Weight(cq[i + 1], T)
  BY <1>3, <1>4, <1>5, CountTail, HitsFinite
<1> QED
  BY <1>1, <1>2, <1>5, <1>6 DEF Running

\* A completion is added to them.
LEMMA AppendEffect ==
  ASSUME RingInv, NEW e \in Cqes, cq' = Append(cq, e), UNCHANGED batchVars
  PROVE  /\ cq' \in Seq(Cqes) /\ Len(cq') = Len(cq) + 1
         /\ Unhandled' \in Seq(Cqes) /\ Len(Unhandled) \in Nat
         /\ Len(Unhandled') = Len(Unhandled) + 1
         /\ \A k \in 1..Len(Unhandled') :
              Unhandled'[k] = IF k = Len(Unhandled) + 1 THEN e ELSE Unhandled[k]
         /\ \A T : /\ Count(Unhandled, T) \in Nat /\ Count(Unhandled', T) \in Nat
                   /\ Count(Unhandled', T) = Count(Unhandled, T) + Weight(e, T)
<1>1. /\ cq \in Seq(Cqes) /\ i \in 0..Len(cq) /\ UNCHANGED <<nready, i>>
      /\ Unhandled \in Seq(Cqes)
  BY UnhandledElements DEF batchVars
<1>2. Unhandled' = Append(Unhandled, e)
  BY <1>1, RestAppend DEF Unhandled
<1>3. /\ Unhandled' \in Seq(Cqes) /\ Len(Unhandled) \in Nat
      /\ Len(Unhandled') = Len(Unhandled) + 1
      /\ \A k \in 1..Len(Unhandled') :
           Unhandled'[k] = IF k = Len(Unhandled) + 1 THEN e ELSE Unhandled[k]
  BY <1>1, <1>2, AppendElements
<1>4. \A T : /\ Count(Unhandled, T) \in Nat /\ Count(Unhandled', T) \in Nat
            /\ Count(Unhandled', T) = Count(Unhandled, T) + Weight(e, T)
  <2> TAKE T
  <2>1. Count(Append(Unhandled, e), T) = Count(Unhandled, T) + Weight(e, T)
    BY <1>1, CountAppend
  <2> QED
    BY <1>1, <1>2, <1>3, <2>1, HitsFinite
<1>5. cq' \in Seq(Cqes) /\ Len(cq') = Len(cq) + 1
  BY <1>1, AppendElements
<1> QED
  BY <1>3, <1>4, <1>5

\* Entries are prepared, if there is room.
LEMMA PrepareEffect ==
  ASSUME sq \in Seq(Sqes), NEW sqes \in Seq(Sqes), Prepare(sqes)
  PROVE  /\ sq' \in Seq(Sqes)
         /\ \/ /\ pc' = pc /\ sq' = sq \o sqes
               /\ \A T : Count(sq', T) = Count(sq, T) + Count(sqes, T)
            \/ pc' = "nosqe" /\ sq' = sq /\ Len(sq) + Len(sqes) > SqEntries
<1>1. CASE Queue(sqes) /\ UNCHANGED pc
  <2>1. sq' = sq \o sqes
    BY <1>1 DEF Queue
  <2>2. sq \o sqes \in Seq(Sqes)
    BY ConcatProperties
  <2>3. \A T : Count(sq \o sqes, T) = Count(sq, T) + Count(sqes, T)
    BY CountConcat
  <2> QED
    BY <1>1, <2>1, <2>2, <2>3
<1>2. CASE SqFull(sqes) /\ pc' = "nosqe" /\ UNCHANGED sq
  BY <1>2 DEF SqFull
<1> QED
  BY <1>1, <1>2 DEF Prepare

\* The kernel takes the first entry.
LEMMA TakeEffect ==
  ASSUME sq \in Seq(Sqes), TakeEntry
  PROVE  /\ sq # <<>> /\ Head(sq) \in Sqes /\ Head(sq) = sq[1]
         /\ sq' = Tail(sq) /\ sq' \in Seq(Sqes)
         /\ Len(sq) \in Nat /\ Len(sq) > 0 /\ Len(sq') = Len(sq) - 1
         /\ \A k \in 1..Len(sq') : k + 1 \in 1..Len(sq) /\ sq'[k] = sq[k + 1]
         /\ \A T : /\ Count(sq, T) \in Nat /\ Count(sq', T) \in Nat
                   /\ Count(sq, T) = Count(sq', T) + Weight(sq[1], T)
<1>1. sq # <<>> /\ sq' = Tail(sq)
  BY DEF TakeEntry
<1>2. /\ Head(sq) \in Sqes /\ Head(sq) = sq[1] /\ sq' \in Seq(Sqes)
      /\ Len(sq) \in Nat /\ Len(sq) > 0 /\ Len(sq') = Len(sq) - 1
      /\ \A k \in 1..Len(sq') : k + 1 \in 1..Len(sq) /\ sq'[k] = sq[k + 1]
  BY <1>1, TailElements
<1> QED
  BY <1>1, <1>2, CountTail, HitsFinite

-----------------------------------------------------------------------------
(* What the counts mean. *)

CarriesOn(e, fd) == fd = IF e.event = "ACCEPT" THEN e.res ELSE e.fd

LEMMA CountsTyped ==
  ASSUME RingInv
  PROVE  /\ sq \in Seq(Sqes) /\ flight \subseteq Ops /\ IsFiniteSet(flight)
         /\ \A T : /\ Count(sq, T) \in Nat /\ Count(Unhandled, T) \in Nat
                   /\ Cardinality(flight \cap T) \in Nat
<1>1. sq \in Seq(Sqes) /\ flight \subseteq Ops /\ IsFiniteSet(flight)
  BY DEF RingInv, UringTypeOK
<1> QED
  BY <1>1, HitsFinite, UnhandledElements, FlightMeaning

\* What carries an open descriptor on is alone to do so.
LEMMA Alone ==
  ASSUME RingInv, Running, NEW fd \in Fds
  PROVE  /\ \A k \in 1..Len(sq) :
              sq[k].fd = fd =>
                /\ fd \in OpenFds /\ Carriers(fd, Unhandled) = 1
                /\ \A j \in 1..Len(sq) : sq[j].fd = fd => j = k
                /\ \A op \in flight : op.fd # fd
                /\ \A j \in 1..Len(Unhandled) : ~CarriesOn(Unhandled[j], fd)
         /\ \A op \in flight :
              op.fd = fd =>
                /\ fd \in OpenFds /\ Carriers(fd, Unhandled) = 1
                /\ \A j \in 1..Len(sq) : sq[j].fd # fd
                /\ \A other \in flight : other.fd = fd => other = op
                /\ \A j \in 1..Len(Unhandled) : ~CarriesOn(Unhandled[j], fd)
         /\ \A k \in 1..Len(Unhandled) :
              CarriesOn(Unhandled[k], fd) =>
                /\ fd \in OpenFds /\ Carriers(fd, Unhandled) = 1
                /\ \A j \in 1..Len(sq) : sq[j].fd # fd
                /\ \A op \in flight : op.fd # fd
                /\ \A j \in 1..Len(Unhandled) : CarriesOn(Unhandled[j], fd) => j = k
<1> DEFINE a == Count(sq, SqesOn(fd))
           b == Cardinality(flight \cap OpsOn(fd))
           c == Count(Unhandled, CqesOn(fd))
<1>1. /\ sq \in Seq(Sqes) /\ flight \subseteq Ops /\ IsFiniteSet(flight)
      /\ a \in Nat /\ b \in Nat /\ c \in Nat
  BY CountsTyped
<1>2. \/ a + b + c = 1 /\ fd \in OpenFds
      \/ a + b + c = 0
  BY DEF RingInv, OneChainPerDescriptor, Carriers
<1>3. \A k \in 1..Len(sq) : sq[k] \in SqesOn(fd) <=> sq[k].fd = fd
  BY <1>1, SqeKinds, ElementOfSeq
<1>4. \A op \in flight : op \in OpsOn(fd) <=> op.fd = fd
  BY <1>1, OpKinds
<1>5. /\ Unhandled \in Seq(Cqes)
      /\ \A k \in 1..Len(Unhandled) : Unhandled[k] \in CqesOn(fd) <=> CarriesOn(Unhandled[k], fd)
  BY CqeKinds, UnhandledElements DEF CarriesOn
<1>6. /\ a = 0 => \A k \in 1..Len(sq) : sq[k].fd # fd
      /\ a = 1 => \A j, k \in 1..Len(sq) : sq[j].fd = fd /\ sq[k].fd = fd => j = k
  BY <1>1, <1>3, CountMeaning
<1>7. /\ b = 0 => \A op \in flight : op.fd # fd
      /\ b = 1 => \A op, other \in flight : op.fd = fd /\ other.fd = fd => op = other
  BY <1>1, <1>4, FlightMeaning
<1>8. /\ c = 0 => \A k \in 1..Len(Unhandled) : ~CarriesOn(Unhandled[k], fd)
      /\ c = 1 => \A j, k \in 1..Len(Unhandled) :
                    CarriesOn(Unhandled[j], fd) /\ CarriesOn(Unhandled[k], fd) => j = k
  BY <1>5, CountMeaning
<1>9. Carriers(fd, Unhandled) = a + b + c
  BY DEF Carriers
<1> HIDE DEF a, b, c
<1>10. /\ a # 0 => a = 1 /\ b = 0 /\ c = 0 /\ fd \in OpenFds /\ a + b + c = 1
       /\ b # 0 => a = 0 /\ b = 1 /\ c = 0 /\ fd \in OpenFds /\ a + b + c = 1
       /\ c # 0 => a = 0 /\ b = 0 /\ c = 1 /\ fd \in OpenFds /\ a + b + c = 1
  BY <1>1, <1>2
<1> QED
  BY <1>6, <1>7, <1>8, <1>9, <1>10

\* So is the accept.
LEMMA OneAccept ==
  ASSUME RingInv, Running
  PROVE  /\ \A k \in 1..Len(sq) :
              sq[k].event = "ACCEPT" => \A op \in flight : op.event # "ACCEPT"
         /\ \A k \in 1..Len(Unhandled) :
              Unhandled[k].event = "ACCEPT" => Count(sq, AcceptSqes) = 0
         /\ Count(sq, AcceptSqes) \in 0..1
         /\ Count(sq, AcceptSqes) = 0 => \A k \in 1..Len(sq) : sq[k].event # "ACCEPT"
<1> DEFINE a == Count(sq, AcceptSqes)
           b == Cardinality(flight \cap AcceptOps)
           c == Count(Unhandled, AcceptCqes)
<1>1. /\ sq \in Seq(Sqes) /\ flight \subseteq Ops /\ IsFiniteSet(flight)
      /\ a \in Nat /\ b \in Nat /\ c \in Nat
  BY CountsTyped
<1>2. a + b + c = 1
  BY DEF RingInv, AcceptArmed, Accepts
<1>3. \A k \in 1..Len(sq) : sq[k] \in AcceptSqes <=> sq[k].event = "ACCEPT"
  BY <1>1, SqeKinds, ElementOfSeq
<1>4. \A op \in flight : op \in AcceptOps <=> op.event = "ACCEPT"
  BY <1>1, OpKinds
<1>5. /\ Unhandled \in Seq(Cqes)
      /\ \A k \in 1..Len(Unhandled) :
           Unhandled[k] \in AcceptCqes <=> Unhandled[k].event = "ACCEPT"
  BY CqeKinds, UnhandledElements
<1>6. a = 0 => \A k \in 1..Len(sq) : sq[k].event # "ACCEPT"
  BY <1>1, <1>3, CountMeaning
<1>7. b = 0 => \A op \in flight : op.event # "ACCEPT"
  BY <1>1, <1>4, FlightMeaning
<1>8. c = 0 => \A k \in 1..Len(Unhandled) : Unhandled[k].event # "ACCEPT"
  BY <1>5, CountMeaning
<1> HIDE DEF a, b, c
<1>9. a \in 0..1 /\ (a # 0 => b = 0 /\ c = 0) /\ (c # 0 => a = 0)
  BY <1>1, <1>2
<1> QED
  BY <1>6, <1>7, <1>8, <1>9 DEF a

-----------------------------------------------------------------------------
(* Completions are handled. *)

LEMMA HandleFrame ==
  ASSUME RingInv, NEW event, Handling(event), UNCHANGED tcpVars, sq' \in Seq(Sqes),
         pc' \in {"handle", "crashed", "nosqe"}, AcceptArmed', OneChainPerDescriptor'
  PROVE  RingInv'
<1> USE DEF RingInv
<1>1. /\ UNCHANGED <<peer, sent, nread, unread, backlog, fdtab, done, flight, cq, nready>>
      /\ i' \in 0..nready /\ OpenFds' = OpenFds
  BY HandlingEffect DEF tcpVars, OpenFds
<1>2. TcpTypeOK' /\ UringTypeOK' /\ LoopTypeOK' /\ IsFiniteSet(flight)'
  BY <1>1 DEF TcpTypeOK, UringTypeOK, LoopTypeOK
<1>3. Dormant' /\ BatchHeld' /\ Ownership'
  BY <1>1 DEF Dormant, BatchHeld, Ownership, Running
<1>4. /\ Len(Unhandled') \in Nat
      /\ \A k \in 1..Len(Unhandled') :
           k + 1 \in 1..Len(Unhandled) /\ Unhandled'[k] = Unhandled[k + 1]
  BY HandlingEffect
<1>5. CompletionsFresh'
  BY <1>1, <1>4 DEF CompletionsFresh
<1>6. EndsStand'
  BY <1>1, <1>4 DEF EndsStand, Avail
<1> QED
  BY <1>2, <1>3, <1>5, <1>6

\* The completion is passed on: what it prepares carries on what it carried.
LEMMA HandOver ==
  ASSUME RingInv, NEW event, Handling(event), UNCHANGED tcpVars,
         NEW sqes \in Seq(Sqes), Prepare(sqes),
         Count(sqes, AcceptSqes) = Weight(cq[i + 1], AcceptCqes),
         \A fd \in Fds : Count(sqes, SqesOn(fd)) = Weight(cq[i + 1], CqesOn(fd))
  PROVE  RingInv'
<1>1. /\ sq \in Seq(Sqes) /\ pc = "handle" /\ Running
      /\ \A T : /\ Count(sq, T) \in Nat /\ Count(Unhandled, T) \in Nat
                /\ Count(Unhandled', T) \in Nat /\ Cardinality(flight \cap T) \in Nat
                /\ Count(Unhandled, T) = Count(Unhandled', T) + Weight(cq[i + 1], T)
  BY CountsTyped, HandlingEffect
<1>2. sq' \in Seq(Sqes)
  BY <1>1, PrepareEffect
<1>3. CASE pc' = "nosqe"
  BY <1>2, <1>3, HandleFrame DEF AcceptArmed, OneChainPerDescriptor, Running
<1>4. CASE pc' # "nosqe"
  <2>1. /\ pc' = "handle" /\ UNCHANGED <<flight, fdtab, peer>>
        /\ \A T : Count(sq', T) = Count(sq, T) + Count(sqes, T)
    BY <1>1, <1>4, PrepareEffect, HandlingEffect DEF tcpVars
  <2>2. Accepts(Unhandled)' = Accepts(Unhandled)
    <3>1. /\ Count(sq', AcceptSqes) = Count(sq, AcceptSqes) + Count(sqes, AcceptSqes)
          /\ Count(Unhandled, AcceptCqes) =
               Count(Unhandled', AcceptCqes) + Count(sqes, AcceptSqes)
          /\ Count(sq, AcceptSqes) \in Nat /\ Count(sqes, AcceptSqes) \in Nat
          /\ Count(Unhandled', AcceptCqes) \in Nat
          /\ Cardinality(flight' \cap AcceptOps) = Cardinality(flight \cap AcceptOps)
          /\ Cardinality(flight \cap AcceptOps) \in Nat
      BY <1>1, <2>1, HitsFinite
    <3> QED
      BY <3>1 DEF Accepts
  <2>3. \A fd \in Fds : Carriers(fd, Unhandled)' = Carriers(fd, Unhandled)
    <3> TAKE fd \in Fds
    <3>1. /\ Count(sq', SqesOn(fd)) = Count(sq, SqesOn(fd)) + Count(sqes, SqesOn(fd))
          /\ Count(Unhandled, CqesOn(fd)) =
               Count(Unhandled', CqesOn(fd)) + Count(sqes, SqesOn(fd))
          /\ Count(sq, SqesOn(fd)) \in Nat /\ Count(sqes, SqesOn(fd)) \in Nat
          /\ Count(Unhandled', CqesOn(fd)) \in Nat
          /\ Cardinality(flight' \cap OpsOn(fd)) = Cardinality(flight \cap OpsOn(fd))
          /\ Cardinality(flight \cap OpsOn(fd)) \in Nat
      BY <1>1, <2>1, HitsFinite
    <3> QED
      BY <3>1 DEF Carriers
  <2>4. AcceptArmed' /\ OneChainPerDescriptor'
    BY <1>1, <2>1, <2>2, <2>3 DEF RingInv, AcceptArmed, OneChainPerDescriptor, OpenFds
  <2> QED
    BY <1>2, <2>1, <2>4, HandleFrame
<1> QED
  BY <1>3, <1>4

\* Nothing is passed on: a recv has failed, and the connection is dead.
LEMMA HandleDrop ==
  ASSUME RingInv, Handling("READ"), cq[i + 1].res < 0, UNCHANGED <<tcpVars, pc, sq>>
  PROVE  RingInv'
<1> DEFINE e == cq[i + 1]
<1>1. /\ pc = "handle" /\ Running /\ e \in Cqes /\ e.event = "READ"
      /\ 1 \in 1..Len(Unhandled) /\ e = Unhandled[1]
  BY HandlingEffect
<1>9. /\ sq \in Seq(Sqes)
      /\ \A T : Count(sq, T) \in Nat /\ Cardinality(flight \cap T) \in Nat
  BY CountsTyped
<1>10. \A T : /\ Count(Unhandled, T) \in Nat /\ Count(Unhandled', T) \in Nat
              /\ Count(Unhandled, T) = Count(Unhandled', T) + Weight(e, T)
  BY HandlingEffect
<1>2. UNCHANGED <<fdtab, peer, flight>> /\ OpenFds' = OpenFds
  BY HandlingEffect DEF tcpVars, OpenFds
<1>3. /\ e \notin AcceptCqes
      /\ \A fd \in Fds : e \in CqesOn(fd) <=> e.fd = fd
      /\ e.fd \in Fds => e.conn = fdtab[e.fd] /\ peer[fdtab[e.fd]] = "dead"
                         /\ e.fd \in OpenFds /\ Carriers(e.fd, Unhandled) = 1
  <2>1. e.fd \in Fds => e.conn = fdtab[e.fd] /\ peer[e.conn] = "dead"
    BY <1>1 DEF RingInv, CompletionsFresh, EndsStand
  <2>2. e.fd \in Fds => e.fd \in OpenFds /\ Carriers(e.fd, Unhandled) = 1
    BY <1>1, Alone DEF CarriesOn
  <2> QED
    BY <1>1, <2>1, <2>2, CqeKinds
<1>4. Accepts(Unhandled)' = Accepts(Unhandled)
  <2>1. /\ Count(Unhandled, AcceptCqes) = Count(Unhandled', AcceptCqes)
        /\ Count(sq', AcceptSqes) = Count(sq, AcceptSqes)
        /\ Cardinality(flight' \cap AcceptOps) = Cardinality(flight \cap AcceptOps)
    <3>1. Weight(e, AcceptCqes) = 0
      BY <1>3 DEF Weight
    <3>2. /\ Count(Unhandled, AcceptCqes) = Count(Unhandled', AcceptCqes) + Weight(e, AcceptCqes)
          /\ Count(Unhandled', AcceptCqes) \in Nat
      BY <1>10
    <3> QED
      BY <1>2, <3>1, <3>2
  <2> QED
    BY <2>1 DEF Accepts
<1>5. \A fd \in Fds : Carriers(fd, Unhandled) =
                        Carriers(fd, Unhandled)' + (IF e.fd = fd THEN 1 ELSE 0)
  <2> TAKE fd \in Fds
  <2>1. /\ Count(Unhandled, CqesOn(fd)) =
             Count(Unhandled', CqesOn(fd)) + (IF e.fd = fd THEN 1 ELSE 0)
        /\ Count(sq', SqesOn(fd)) = Count(sq, SqesOn(fd))
        /\ Cardinality(flight' \cap OpsOn(fd)) = Cardinality(flight \cap OpsOn(fd))
        /\ Count(sq, SqesOn(fd)) \in Nat /\ Count(Unhandled', CqesOn(fd)) \in Nat
        /\ Cardinality(flight \cap OpsOn(fd)) \in Nat
    BY <1>1, <1>2, <1>3, <1>9, <1>10 DEF Weight
  <2> QED
    BY <2>1 DEF Carriers
<1>6. \A fd \in Fds : Carriers(fd, Unhandled)' \in Nat
  <2> TAKE fd \in Fds
  <2>1. /\ Count(sq', SqesOn(fd)) \in Nat /\ Count(Unhandled', CqesOn(fd)) \in Nat
        /\ Cardinality(flight' \cap OpsOn(fd)) \in Nat
    BY <1>2, <1>9, <1>10
  <2> QED
    BY <2>1 DEF Carriers
<1>7. AcceptArmed'
  BY <1>1, <1>4 DEF RingInv, AcceptArmed
<1>8. OneChainPerDescriptor'
  <2> SUFFICES ASSUME NEW fd \in Fds
               PROVE  \/ fd \in OpenFds /\ Carriers(fd, Unhandled)' = 1
                      \/ fd \in OpenFds /\ Carriers(fd, Unhandled)' = 0
                         /\ peer[fdtab[fd]] = "dead"
                      \/ fd \notin OpenFds /\ Carriers(fd, Unhandled)' = 0
    BY <1>2 DEF OneChainPerDescriptor
  <2>1. CASE e.fd = fd
    BY <1>3, <1>5, <1>6, <2>1
  <2>2. CASE e.fd # fd
    <3>1. Carriers(fd, Unhandled) = Carriers(fd, Unhandled)'
      BY <1>5, <1>6, <2>2
    <3> QED
      BY <1>1, <3>1 DEF RingInv, OneChainPerDescriptor
  <2> QED
    BY <2>1, <2>2
<1> QED
  BY <1>1, <1>7, <1>8, <1>9, HandleFrame

\* The process is gone.
LEMMA HandleCrash ==
  ASSUME RingInv, NEW event, Handling(event), UNCHANGED <<tcpVars, sq>>, pc' = "crashed"
  PROVE  RingInv'
BY CountsTyped, HandleFrame DEF AcceptArmed, OneChainPerDescriptor, Running

\* The end of a connection: its descriptor is closed, and nothing is left of
\* it in the rings.
LEMMA HandleClose ==
  ASSUME RingInv, Handling("READ"), cq[i + 1].res = 0, CloseFd(cq[i + 1].fd),
         UNCHANGED <<peer, sent, nread, unread, backlog, pc, sq>>
  PROVE  RingInv'
<1>1. PICK fd \in Fds : fd = cq[i + 1].fd
  BY HandlingEffect, CqeKinds
<1>2. /\ pc = "handle" /\ Running /\ cq[i + 1] \in Cqes /\ cq[i + 1].event = "READ"
      /\ 1 \in 1..Len(Unhandled) /\ cq[i + 1] = Unhandled[1]
      /\ UNCHANGED <<flight, cq, nready>> /\ i' \in 0..nready
  BY HandlingEffect
<1>3. /\ Len(Unhandled') \in Nat
      /\ \A k \in 1..Len(Unhandled') :
           k + 1 \in 1..Len(Unhandled) /\ Unhandled'[k] = Unhandled[k + 1]
  BY HandlingEffect
<1>4. CarriesOn(Unhandled[1], fd)
  BY <1>1, <1>2 DEF CarriesOn
<1>5. /\ fd \in OpenFds
      /\ \A j \in 1..Len(sq) : sq[j].fd # fd
      /\ \A op \in flight : op.fd # fd
      /\ \A j \in 1..Len(Unhandled) : CarriesOn(Unhandled[j], fd) => j = 1
  BY <1>2, <1>4, Alone
<1>6. /\ fdtab \in [Fds -> Conns \cup {NoConn}]
      /\ fdtab' = [fdtab EXCEPT ![fd] = NoConn]
      /\ done' = done \cup ({fdtab[fd]} \ {NoConn})
  BY <1>1 DEF CloseFd, RingInv, TcpTypeOK
<1>7. PICK c \in Conns : c = fdtab[fd]
  BY <1>5, <1>6 DEF OpenFds
<1>8. /\ fdtab'[fd] = NoConn /\ \A g \in Fds : g # fd => fdtab'[g] = fdtab[g]
      /\ done' = done \cup {c}
      /\ OpenFds' = OpenFds \ {fd}
  BY <1>6, <1>7, FdFacts DEF OpenFds
<1>9. TcpTypeOK' /\ UringTypeOK' /\ LoopTypeOK' /\ IsFiniteSet(flight)'
  BY <1>2, <1>6, <1>7, <1>8 DEF RingInv, TcpTypeOK, UringTypeOK, LoopTypeOK
<1>10. Dormant' /\ BatchHeld'
  BY <1>2 DEF RingInv, Dormant, BatchHeld, Running
<1>11. Ownership'
  <2>1. /\ Ownership /\ \A k \in 1..Len(backlog) : backlog[k] # c
    BY <1>5, <1>7 DEF RingInv, Ownership
  <2>2. \A g \in OpenFds' : fdtab'[g] # c /\ fdtab'[g] = fdtab[g] /\ g \in OpenFds
    BY <1>5, <1>7, <1>8, <2>1 DEF Ownership, OpenFds
  <2>3. peer[c] # "idle"
    BY <1>5, <1>7, <2>1 DEF Ownership
  <2>4. \A j \in 1..Len(backlog) : \A g \in Fds : fdtab'[g] # backlog[j]
    <3>1. \A j \in 1..Len(backlog) : backlog[j] # NoConn
      BY FdFacts, ElementOfSeq DEF RingInv, TcpTypeOK
    <3> QED
      BY <1>8, <2>1, <3>1 DEF Ownership
  <2> QED
    BY <1>8, <2>1, <2>2, <2>3, <2>4 DEF Ownership
<1>12. CompletionsFresh'
  <2>1. \A op \in flight' : op.fd \in Fds => op.conn = fdtab'[op.fd]
    BY <1>2, <1>5, <1>8 DEF RingInv, CompletionsFresh
  <2>2. \A k \in 1..Len(Unhandled') :
          Unhandled'[k].event # "ACCEPT" /\ Unhandled'[k].fd \in Fds =>
            Unhandled'[k].conn = fdtab'[Unhandled'[k].fd]
    BY <1>3, <1>5, <1>8 DEF RingInv, CompletionsFresh, CarriesOn
  <2> QED
    BY <2>1, <2>2 DEF CompletionsFresh
<1>13. EndsStand'
  BY <1>3 DEF RingInv, EndsStand, Avail
<1>14. /\ sq \in Seq(Sqes)
       /\ \A T : Count(sq, T) \in Nat /\ Cardinality(flight \cap T) \in Nat
  BY CountsTyped
<1>15. \A T : /\ Count(Unhandled, T) \in Nat /\ Count(Unhandled', T) \in Nat
              /\ Count(Unhandled, T) = Count(Unhandled', T) + Weight(cq[i + 1], T)
  BY HandlingEffect
<1>16. AcceptArmed'
  <2>1. /\ Weight(cq[i + 1], AcceptCqes) = 0
        /\ Count(Unhandled', AcceptCqes) \in Nat
        /\ Count(Unhandled, AcceptCqes) =
             Count(Unhandled', AcceptCqes) + Weight(cq[i + 1], AcceptCqes)
    BY <1>2, <1>15, CqeKinds DEF Weight
  <2>2. /\ Count(Unhandled', AcceptCqes) = Count(Unhandled, AcceptCqes)
        /\ Count(sq', AcceptSqes) = Count(sq, AcceptSqes)
        /\ Cardinality(flight' \cap AcceptOps) = Cardinality(flight \cap AcceptOps)
    BY <1>2, <2>1
  <2>3. Accepts(Unhandled)' = Accepts(Unhandled)
    BY <2>2 DEF Accepts
  <2> QED
    BY <1>2, <2>3 DEF RingInv, AcceptArmed
<1>17. OneChainPerDescriptor'
  <2>1. ASSUME NEW g \in Fds
        PROVE  Carriers(g, Unhandled) =
                 Carriers(g, Unhandled)' + (IF g = fd THEN 1 ELSE 0)
               /\ Carriers(g, Unhandled)' \in Nat
    <3>1. Weight(cq[i + 1], CqesOn(g)) = IF g = fd THEN 1 ELSE 0
      BY <1>1, <1>2, CqeKinds DEF Weight
    <3>2. /\ Count(Unhandled', CqesOn(g)) \in Nat
          /\ Count(Unhandled, CqesOn(g)) =
               Count(Unhandled', CqesOn(g)) + (IF g = fd THEN 1 ELSE 0)
          /\ Count(sq', SqesOn(g)) = Count(sq, SqesOn(g))
          /\ Cardinality(flight' \cap OpsOn(g)) = Cardinality(flight \cap OpsOn(g))
          /\ Count(sq, SqesOn(g)) \in Nat
          /\ Cardinality(flight \cap OpsOn(g)) \in Nat
      BY <1>2, <1>14, <1>15, <3>1
    <3> QED
      BY <3>2 DEF Carriers
  <2>2. Carriers(fd, Unhandled) = 1
    BY <1>2, <1>4, Alone
  <2> SUFFICES ASSUME NEW g \in Fds
               PROVE  \/ g \in OpenFds' /\ Carriers(g, Unhandled)' = 1
                      \/ g \in OpenFds' /\ Carriers(g, Unhandled)' = 0
                         /\ peer[fdtab'[g]] = "dead"
                      \/ g \notin OpenFds' /\ Carriers(g, Unhandled)' = 0
    BY DEF OneChainPerDescriptor
  <2>3. CASE g = fd
    BY <1>8, <2>1, <2>2, <2>3
  <2>4. CASE g # fd
    <3>1. Carriers(g, Unhandled) = Carriers(g, Unhandled)'
      BY <2>1, <2>4
    <3> QED
      BY <1>2, <1>8, <2>4, <3>1 DEF RingInv, OneChainPerDescriptor
  <2> QED
    BY <2>3, <2>4
<1> QED
  BY <1>9, <1>10, <1>11, <1>12, <1>13, <1>16, <1>17 DEF RingInv

-----------------------------------------------------------------------------
(* Operations are completed. *)

\* The operation becomes a completion.
LEMMA CompleteEffect ==
  ASSUME RingInv, NEW op \in flight, NEW res, Cqe(op, res) \in Cqes, Complete(op, res),
         UNCHANGED <<sq, batchVars>>
  PROVE  /\ UringTypeOK' /\ IsFiniteSet(flight') /\ flight' = flight \ {op}
         /\ nready' <= Len(cq')
         /\ Len(Unhandled) \in Nat /\ Len(Unhandled') = Len(Unhandled) + 1
         /\ \A k \in 1..Len(Unhandled') :
              Unhandled'[k] =
                IF k = Len(Unhandled) + 1 THEN Cqe(op, res) ELSE Unhandled[k]
         /\ Accepts(Unhandled)' = Accepts(Unhandled)
         /\ \A fd \in Fds :
              /\ Carriers(fd, Unhandled) \in Nat
              /\ Carriers(fd, Unhandled)' =
                   Carriers(fd, Unhandled)
                   + (Weight(Cqe(op, res), CqesOn(fd)) - Weight(op, OpsOn(fd)))
<1> DEFINE e == Cqe(op, res)
<1>1. /\ flight' = flight \ {op} /\ cq' = Append(cq, e) /\ sq' = sq
      /\ flight \subseteq Ops /\ IsFiniteSet(flight) /\ sq \in Seq(Sqes)
      /\ op \in Ops /\ e \in Cqes /\ nready' = nready /\ nready <= Len(cq)
      /\ e.event = op.event
  BY CountsTyped DEF Complete, batchVars, RingInv, BatchHeld, Cqe
<1>2. /\ cq' \in Seq(Cqes) /\ Len(cq') = Len(cq) + 1 /\ Len(cq) \in Nat /\ nready \in Nat
      /\ Len(Unhandled) \in Nat /\ Len(Unhandled') = Len(Unhandled) + 1
      /\ \A k \in 1..Len(Unhandled') :
           Unhandled'[k] = IF k = Len(Unhandled) + 1 THEN e ELSE Unhandled[k]
  BY <1>1, AppendEffect, UnhandledElements
<1>3. \A T : /\ Count(Unhandled, T) \in Nat /\ Count(Unhandled', T) \in Nat
             /\ Count(Unhandled', T) = Count(Unhandled, T) + Weight(e, T)
  BY <1>1, AppendEffect
<1>4. \A T : /\ Cardinality(flight \cap T) \in Nat
             /\ Cardinality((flight \ {op}) \cap T) =
                  Cardinality(flight \cap T) - Weight(op, T)
  <2> TAKE T
  <2>1. Cardinality((flight \ {op}) \cap T) = Cardinality(flight \cap T) - Weight(op, T)
    BY <1>1, FlightRemove
  <2> QED
    BY <1>1, <2>1, FlightMeaning
<1>5. \A T : Count(sq, T) \in Nat
  BY CountsTyped
<1>6. UringTypeOK' /\ IsFiniteSet(flight')
  BY <1>1, <1>2, FlightRemove DEF UringTypeOK
<1>7. Accepts(Unhandled)' = Accepts(Unhandled)
  <2>1. Weight(op, AcceptOps) = Weight(e, AcceptCqes) /\ Weight(e, AcceptCqes) \in Nat
    BY <1>1, OpKinds, CqeKinds DEF Weight
  <2>2. /\ Count(Unhandled', AcceptCqes) =
             Count(Unhandled, AcceptCqes) + Weight(e, AcceptCqes)
        /\ Cardinality(flight' \cap AcceptOps) =
             Cardinality(flight \cap AcceptOps) - Weight(e, AcceptCqes)
        /\ Count(sq', AcceptSqes) = Count(sq, AcceptSqes)
        /\ Count(Unhandled, AcceptCqes) \in Nat /\ Count(sq, AcceptSqes) \in Nat
        /\ Cardinality(flight \cap AcceptOps) \in Nat
    BY <1>1, <1>3, <1>4, <1>5, <2>1
  <2> HIDE DEF e
  <2> QED
    BY <2>1, <2>2 DEF Accepts
<1>8. ASSUME NEW fd \in Fds
      PROVE  /\ Carriers(fd, Unhandled) \in Nat
             /\ Carriers(fd, Unhandled)' =
                  Carriers(fd, Unhandled)
                  + (Weight(e, CqesOn(fd)) - Weight(op, OpsOn(fd)))
  <2>1. /\ Count(Unhandled', CqesOn(fd)) =
             Count(Unhandled, CqesOn(fd)) + Weight(e, CqesOn(fd))
        /\ Cardinality(flight' \cap OpsOn(fd)) =
             Cardinality(flight \cap OpsOn(fd)) - Weight(op, OpsOn(fd))
        /\ Count(sq', SqesOn(fd)) = Count(sq, SqesOn(fd))
        /\ Count(Unhandled, CqesOn(fd)) \in Nat /\ Count(sq, SqesOn(fd)) \in Nat
        /\ Cardinality(flight \cap OpsOn(fd)) \in Nat
    BY <1>1, <1>3, <1>4, <1>5
  <2>2. Weight(e, CqesOn(fd)) \in Nat /\ Weight(op, OpsOn(fd)) \in Nat
    BY DEF Weight
  <2> HIDE DEF e
  <2> QED
    BY <2>1, <2>2 DEF Carriers
<1> QED
  BY <1>1, <1>2, <1>6, <1>7, <1>8

\* A connection is accepted: its new descriptor was closed, and nothing was
\* left of it in the rings.
LEMMA AcceptDone ==
  ASSUME RingInv, Running, NEW op \in flight, op.event = "ACCEPT", NEW fd \in Fds,
         AcceptConn(fd), Complete(op, fd), pc' \in {pc, "crashed"},
         UNCHANGED <<peer, sent, nread, unread, done, sq, batchVars>>
  PROVE  RingInv'
<1>1. op \in Ops /\ op.fd = ListenFd /\ Cqe(op, fd) \in Cqes
  BY OpKinds, CompletedKinds DEF RingInv, UringTypeOK
<1>2. /\ UringTypeOK' /\ IsFiniteSet(flight') /\ flight' = flight \ {op}
      /\ nready' <= Len(cq')
      /\ Len(Unhandled) \in Nat /\ Len(Unhandled') = Len(Unhandled) + 1
      /\ \A k \in 1..Len(Unhandled') :
           Unhandled'[k] = IF k = Len(Unhandled) + 1 THEN Cqe(op, fd) ELSE Unhandled[k]
      /\ Accepts(Unhandled)' = Accepts(Unhandled)
  BY <1>1, CompleteEffect
<1>3. \A g \in Fds :
        /\ Carriers(g, Unhandled) \in Nat
        /\ Carriers(g, Unhandled)' =
             Carriers(g, Unhandled)
             + (Weight(Cqe(op, fd), CqesOn(g)) - Weight(op, OpsOn(g)))
  BY <1>1, CompleteEffect
<1>4. /\ backlog \in Seq(Conns) /\ backlog # <<>> /\ fdtab[fd] = NoConn
      /\ backlog' = Tail(backlog)
      /\ fdtab \in [Fds -> Conns \cup {NoConn}]
      /\ fdtab' = [fdtab EXCEPT ![fd] = Head(backlog)]
  BY DEF AcceptConn, FreeFds, RingInv, TcpTypeOK
<1>5. /\ Tail(backlog) \in Seq(Conns) /\ Head(backlog) \in Conns
      /\ Head(backlog) = backlog[1] /\ 1 \in 1..Len(backlog)
      /\ \A k \in 1..Len(Tail(backlog)) :
           k + 1 \in 1..Len(backlog) /\ Tail(backlog)[k] = backlog[k + 1]
      /\ Len(backlog) \in Nat /\ Len(Tail(backlog)) = Len(backlog) - 1
  BY <1>4, TailElements
<1>6. PICK c \in Conns : c = Head(backlog)
  BY <1>5
<1>7. /\ fdtab'[fd] = c /\ \A g \in Fds : g # fd => fdtab'[g] = fdtab[g]
      /\ fd \notin OpenFds /\ OpenFds' = OpenFds \cup {fd}
  BY <1>4, <1>6, FdFacts DEF OpenFds
<1>8. TcpTypeOK' /\ LoopTypeOK' /\ Dormant' /\ BatchHeld'
  BY <1>2, <1>4, <1>5, <1>6
  DEF RingInv, TcpTypeOK, LoopTypeOK, Dormant, BatchHeld, Running, batchVars
<1>9. Ownership'
  <2>1. /\ Ownership /\ c \notin done /\ peer[c] # "idle"
        /\ \A g \in Fds : fdtab[g] # c
        /\ \A k \in 1..Len(backlog) : backlog[k] = c => k = 1
    BY <1>5, <1>6 DEF RingInv, Ownership
  <2>2. \A g \in OpenFds' :
          /\ fdtab'[g] \notin done /\ peer[fdtab'[g]] # "idle"
          /\ \A other \in OpenFds' : fdtab'[other] = fdtab'[g] => other = g
    BY <1>7, <2>1 DEF Ownership, OpenFds
  <2>3. \A j \in 1..Len(backlog') :
          /\ j + 1 \in 1..Len(backlog) /\ backlog'[j] = backlog[j + 1]
          /\ j + 1 # 1
    BY <1>4, <1>5
  <2>4. \A j \in 1..Len(backlog') :
          /\ backlog'[j] \notin done /\ peer[backlog'[j]] # "idle"
          /\ \A g \in Fds : fdtab'[g] # backlog'[j]
    BY <1>7, <2>1, <2>3 DEF Ownership
  <2>5. \A j, k \in 1..Len(backlog') : backlog'[k] = backlog'[j] => k = j
    <3> TAKE j, k \in 1..Len(backlog')
    <3>1. j \in Int /\ k \in Int /\ (j + 1 = k + 1 => k = j)
      BY <1>4, <1>5
    <3>2. backlog[k + 1] = backlog[j + 1] => k + 1 = j + 1
      BY <2>1, <2>3 DEF Ownership
    <3> QED
      BY <2>3, <3>1, <3>2
  <2> QED
    BY <2>1, <2>2, <2>4, <2>5 DEF Ownership
<1>10. /\ \A other \in flight : other.fd # fd
       /\ \A k \in 1..Len(Unhandled) : ~CarriesOn(Unhandled[k], fd)
  BY <1>7, Alone
<1>11. CompletionsFresh'
  <2>1. \A other \in flight' : other.fd \in Fds => other.conn = fdtab'[other.fd]
    BY <1>2, <1>7, <1>10 DEF RingInv, CompletionsFresh
  <2>2. \A k \in 1..Len(Unhandled') :
          Unhandled'[k].event # "ACCEPT" /\ Unhandled'[k].fd \in Fds =>
            Unhandled'[k].conn = fdtab'[Unhandled'[k].fd]
    BY <1>2, <1>7, <1>10 DEF RingInv, CompletionsFresh, CarriesOn, Cqe
  <2> QED
    BY <2>1, <2>2 DEF CompletionsFresh
<1>12. EndsStand'
  BY <1>2 DEF RingInv, EndsStand, Avail, Cqe
<1>13. AcceptArmed'
  BY <1>2 DEF RingInv, AcceptArmed
<1>14. OneChainPerDescriptor'
  <2> SUFFICES ASSUME NEW g \in Fds
               PROVE  \/ g \in OpenFds' /\ Carriers(g, Unhandled)' = 1
                      \/ g \in OpenFds' /\ Carriers(g, Unhandled)' = 0
                         /\ peer[fdtab'[g]] = "dead"
                      \/ g \notin OpenFds' /\ Carriers(g, Unhandled)' = 0
    BY DEF OneChainPerDescriptor
  <2>1. Weight(op, OpsOn(g)) = 0
    BY <1>1, OpKinds, FdFacts DEF Weight
  <2>2. Weight(Cqe(op, fd), CqesOn(g)) = IF g = fd THEN 1 ELSE 0
    BY <1>1, CqeKinds DEF Weight, Cqe
  <2>3. CASE g = fd
    <3>1. Carriers(g, Unhandled) = 0
      BY <1>7, <2>3 DEF RingInv, OneChainPerDescriptor
    <3> QED
      BY <1>3, <1>7, <2>1, <2>2, <2>3, <3>1
  <2>4. CASE g # fd
    <3>1. Carriers(g, Unhandled)' = Carriers(g, Unhandled)
      BY <1>3, <2>1, <2>2, <2>4
    <3> QED
      BY <1>7, <2>4, <3>1 DEF RingInv, OneChainPerDescriptor
  <2> QED
    BY <2>3, <2>4
<1> QED
  BY <1>2, <1>8, <1>9, <1>11, <1>12, <1>13, <1>14 DEF RingInv

\* Accept fails, with or without the loss of the connection it had taken.
LEMMA AcceptFailed ==
  ASSUME RingInv, Running, NEW op \in flight, op.event = "ACCEPT",
         Complete(op, -1), pc' \in {pc, "crashed"},
         \/ UNCHANGED <<backlog, done>>
         \/ /\ backlog # <<>> /\ backlog' = Tail(backlog)
            /\ done' = done \cup {Head(backlog)},
         UNCHANGED <<peer, sent, nread, unread, fdtab, sq, batchVars>>
  PROVE  RingInv'
<1>1. op \in Ops /\ op.fd = ListenFd /\ Cqe(op, -1) \in Cqes
  BY OpKinds, CompletedKinds DEF RingInv, UringTypeOK
<1>2. /\ UringTypeOK' /\ IsFiniteSet(flight') /\ flight' = flight \ {op}
      /\ nready' <= Len(cq')
      /\ Len(Unhandled) \in Nat /\ Len(Unhandled') = Len(Unhandled) + 1
      /\ \A k \in 1..Len(Unhandled') :
           Unhandled'[k] = IF k = Len(Unhandled) + 1 THEN Cqe(op, -1) ELSE Unhandled[k]
      /\ Accepts(Unhandled)' = Accepts(Unhandled)
  BY <1>1, CompleteEffect
<1>3. \A g \in Fds :
        /\ Carriers(g, Unhandled) \in Nat
        /\ Carriers(g, Unhandled)' =
             Carriers(g, Unhandled)
             + (Weight(Cqe(op, -1), CqesOn(g)) - Weight(op, OpsOn(g)))
  BY <1>1, CompleteEffect
<1>4. OpenFds' = OpenFds
  BY DEF OpenFds
<1>5. /\ backlog' \in Seq(Conns) /\ done \subseteq done' /\ done' \subseteq Conns
      /\ \A c \in done' \ done : peer[c] # "idle" /\ \A g \in Fds : fdtab[g] # c
      /\ \A j \in 1..Len(backlog') :
           /\ backlog'[j] \notin done' /\ peer[backlog'[j]] # "idle"
           /\ \A g \in Fds : fdtab[g] # backlog'[j]
           /\ \A k \in 1..Len(backlog') : backlog'[k] = backlog'[j] => k = j
  <2>1. backlog \in Seq(Conns) /\ done \subseteq Conns /\ Ownership
    BY DEF RingInv, TcpTypeOK
  <2>2. CASE UNCHANGED <<backlog, done>>
    BY <2>1, <2>2 DEF Ownership
  <2>3. CASE /\ backlog # <<>> /\ backlog' = Tail(backlog)
             /\ done' = done \cup {Head(backlog)}
    <3>1. /\ Tail(backlog) \in Seq(Conns) /\ Head(backlog) \in Conns
          /\ Head(backlog) = backlog[1] /\ 1 \in 1..Len(backlog)
      BY <2>1, <2>3, TailElements
    <3>2. \A j \in 1..Len(backlog') :
            j + 1 \in 1..Len(backlog) /\ backlog'[j] = backlog[j + 1] /\ j + 1 # 1
      BY <2>1, <2>3, TailElements
    <3>3. /\ Head(backlog) \notin done /\ peer[Head(backlog)] # "idle"
          /\ \A g \in Fds : fdtab[g] # Head(backlog)
          /\ \A k \in 1..Len(backlog) : backlog[k] = Head(backlog) => k = 1
      BY <2>1, <3>1 DEF Ownership
    <3>4. \A j \in 1..Len(backlog') :
            /\ backlog'[j] \notin done' /\ peer[backlog'[j]] # "idle"
            /\ \A g \in Fds : fdtab[g] # backlog'[j]
      BY <2>1, <2>3, <3>2, <3>3 DEF Ownership
    <3>5. \A j, k \in 1..Len(backlog') : backlog'[k] = backlog'[j] => k = j
      BY <2>1, <3>2 DEF Ownership
    <3> QED
      BY <2>1, <2>3, <3>1, <3>3, <3>4, <3>5
  <2> QED
    BY <2>2, <2>3
<1>6. TcpTypeOK' /\ LoopTypeOK' /\ Dormant' /\ BatchHeld'
  BY <1>2, <1>5
  DEF RingInv, TcpTypeOK, LoopTypeOK, Dormant, BatchHeld, Running, batchVars
<1>7. Ownership'
  BY <1>4, <1>5 DEF RingInv, Ownership, OpenFds
<1>8. CompletionsFresh'
  BY <1>2 DEF RingInv, CompletionsFresh, Cqe
<1>9. EndsStand'
  BY <1>2 DEF RingInv, EndsStand, Avail, Cqe
<1>10. AcceptArmed'
  BY <1>2 DEF RingInv, AcceptArmed
<1>11. OneChainPerDescriptor'
  <2>1. \A g \in Fds : Carriers(g, Unhandled)' = Carriers(g, Unhandled)
    <3> TAKE g \in Fds
    <3>1. Weight(op, OpsOn(g)) = 0 /\ Weight(Cqe(op, -1), CqesOn(g)) = 0
      BY <1>1, OpKinds, CqeKinds, FdFacts DEF Weight, Cqe
    <3> QED
      BY <1>3, <3>1
  <2> QED
    BY <1>4, <2>1 DEF RingInv, OneChainPerDescriptor
<1> QED
  BY <1>2, <1>6, <1>7, <1>8, <1>9, <1>10, <1>11 DEF RingInv

\* What peers do is not taken back.
Onward ==
  \A c \in Conns :
    /\ peer[c] # "idle" => peer'[c] # "idle"
    /\ peer[c] = "dead" => peer'[c] = "dead"
    /\ peer[c] \in {"fin", "finrst", "dead"} /\ Avail(c) = 0 =>
         peer'[c] \in {"fin", "finrst", "dead"} /\ Avail(c)' = 0

\* A recv or a send is completed: its completion carries its descriptor on.
LEMMA TransferDone ==
  ASSUME RingInv, Running, NEW op \in flight, op.event # "ACCEPT",
         NEW res \in -1..BufferLength, Complete(op, res), Onward,
         peer' \in [Conns -> PeerState], TcpTypeOK',
         op.event = "READ" =>
           /\ res < 0 => peer'[op.conn] = "dead"
           /\ res = 0 =>
                peer'[op.conn] \in {"fin", "finrst", "dead"} /\ Avail(op.conn)' = 0,
         UNCHANGED <<backlog, fdtab, done, sq, loopVars>>
  PROVE  RingInv'
<1>1. op \in Ops /\ op.fd \in Fds /\ op.conn \in Conns /\ Cqe(op, res) \in Cqes
  BY OpKinds, CompletedKinds DEF RingInv, UringTypeOK
<1>2. /\ UringTypeOK' /\ IsFiniteSet(flight') /\ flight' = flight \ {op}
      /\ nready' <= Len(cq')
      /\ Len(Unhandled) \in Nat /\ Len(Unhandled') = Len(Unhandled) + 1
      /\ \A k \in 1..Len(Unhandled') :
           Unhandled'[k] = IF k = Len(Unhandled) + 1 THEN Cqe(op, res) ELSE Unhandled[k]
      /\ Accepts(Unhandled)' = Accepts(Unhandled)
  BY <1>1, CompleteEffect DEF loopVars
<1>3. \A g \in Fds :
        /\ Carriers(g, Unhandled) \in Nat
        /\ Carriers(g, Unhandled)' =
             Carriers(g, Unhandled)
             + (Weight(Cqe(op, res), CqesOn(g)) - Weight(op, OpsOn(g)))
  BY <1>1, CompleteEffect DEF loopVars
<1>4. OpenFds' = OpenFds
  BY DEF OpenFds
<1>5. LoopTypeOK' /\ Dormant' /\ BatchHeld'
  BY <1>2 DEF RingInv, LoopTypeOK, Dormant, BatchHeld, Running, loopVars, batchVars
<1>6. Ownership'
  <2>1. /\ \A fd \in OpenFds : fdtab[fd] \in Conns
        /\ \A j \in 1..Len(backlog) : backlog[j] \in Conns
        /\ done \subseteq Conns
    BY ElementOfSeq DEF RingInv, TcpTypeOK, OpenFds
  <2> QED
    BY <1>4, <2>1 DEF RingInv, Ownership, Onward
<1>7. CompletionsFresh'
  <2>1. op.conn = fdtab[op.fd]
    BY <1>1 DEF RingInv, CompletionsFresh
  <2> QED
    BY <1>2, <2>1 DEF RingInv, CompletionsFresh, Cqe
<1>8. EndsStand'
  <2> SUFFICES ASSUME NEW k \in 1..Len(Unhandled'),
                      Unhandled'[k].event = "READ", Unhandled'[k].fd \in Fds
               PROVE  /\ Unhandled'[k].res < 0 => peer'[Unhandled'[k].conn] = "dead"
                      /\ Unhandled'[k].res = 0 =>
                           /\ peer'[Unhandled'[k].conn] \in {"fin", "finrst", "dead"}
                           /\ sent'[Unhandled'[k].conn] - nread'[Unhandled'[k].conn] = 0
    BY DEF EndsStand, Avail
  <2>1. CASE k = Len(Unhandled) + 1
    BY <1>2, <2>1 DEF Cqe, Avail
  <2>2. CASE k # Len(Unhandled) + 1
    <3>1. k \in 1..Len(Unhandled) /\ Unhandled'[k] = Unhandled[k]
      BY <1>2, <2>2
    <3>2. Unhandled[k].conn \in Conns
      BY <3>1, UnhandledElements, CqeKinds, FdFacts
    <3> QED
      BY <3>1, <3>2 DEF RingInv, EndsStand, Onward, Avail
  <2> QED
    BY <2>1, <2>2
<1>9. AcceptArmed'
  BY <1>2 DEF RingInv, AcceptArmed, Running, loopVars
<1>10. OneChainPerDescriptor'
  <2>1. \A g \in Fds : Carriers(g, Unhandled)' = Carriers(g, Unhandled)
    <3> TAKE g \in Fds
    <3>1. Weight(Cqe(op, res), CqesOn(g)) = Weight(op, OpsOn(g)) /\ Weight(op, OpsOn(g)) \in Nat
      BY <1>1, OpKinds, CqeKinds DEF Weight, Cqe
    <3> QED
      BY <1>3, <3>1
  <2>2. \A g \in OpenFds : peer[fdtab[g]] = "dead" => peer'[fdtab[g]] = "dead"
    BY DEF Onward, OpenFds, RingInv, TcpTypeOK
  <2> QED
    BY <1>4, <2>1, <2>2 DEF RingInv, OneChainPerDescriptor, Running, loopVars
<1> QED
  BY <1>2, <1>5, <1>6, <1>7, <1>8, <1>9, <1>10 DEF RingInv

LEMMA RecvEffect ==
  ASSUME TcpTypeOK, NEW c \in Conns, NEW len \in Nat \ {0}, NEW cnt \in Int,
         Recv(c, len, cnt), UNCHANGED <<sent, unread, backlog, fdtab, done>>
  PROVE  /\ TcpTypeOK' /\ Onward /\ cnt \in -1..len
         /\ cnt < 0 => peer'[c] = "dead"
         /\ cnt = 0 => peer'[c] \in {"fin", "finrst", "dead"} /\ Avail(c)' = 0
         /\ nread' = [nread EXCEPT ![c] = @ + (IF cnt > 0 THEN cnt ELSE 0)]
<1>1. /\ peer \in [Conns -> PeerState] /\ nread \in [Conns -> 0..MaxSend]
      /\ sent \in [Conns -> 0..MaxSend] /\ MaxSend \in Nat
      /\ \A x \in Conns : nread[x] <= sent[x]
  BY TcpAssumption DEF TcpTypeOK, TcpAssumption
<1>2. CASE /\ Avail(c) > 0
           /\ cnt = IF Avail(c) < len THEN Avail(c) ELSE len
           /\ nread' = [nread EXCEPT ![c] = @ + cnt]
           /\ UNCHANGED peer
  <2>1. /\ cnt \in 1..len /\ nread[c] + cnt <= sent[c] /\ nread[c] + cnt \in 0..MaxSend
    BY <1>1, <1>2 DEF Avail
  <2>2. /\ nread' \in [Conns -> 0..MaxSend] /\ nread'[c] = nread[c] + cnt
        /\ \A x \in Conns : x # c => nread'[x] = nread[x]
    BY <1>1, <1>2, <2>1
  <2>3. TcpTypeOK'
    BY <1>1, <1>2, <2>1, <2>2 DEF TcpTypeOK
  <2>4. Onward
    BY <1>1, <1>2, <2>2 DEF Onward, Avail
  <2>5. cnt > 0 /\ cnt = IF cnt > 0 THEN cnt ELSE 0
    BY <2>1
  <2>6. nread' = [nread EXCEPT ![c] = @ + (IF cnt > 0 THEN cnt ELSE 0)]
    BY <1>2, <2>5
  <2> QED
    BY <2>1, <2>3, <2>4, <2>5, <2>6
<1>3. CASE /\ Avail(c) = 0 /\ peer[c] \in {"fin", "finrst", "dead"} /\ cnt = 0
           /\ UNCHANGED <<peer, nread>>
  <2>1. TcpTypeOK' /\ Onward
    BY <1>3 DEF TcpTypeOK, Onward, Avail
  <2>2. nread = [nread EXCEPT ![c] = @ + 0]
    BY <1>1
  <2> QED
    BY <1>3, <2>1, <2>2 DEF Avail
<1>4. CASE /\ Avail(c) = 0 /\ peer[c] = "rst" /\ cnt = -1
           /\ peer' = [peer EXCEPT ![c] = "dead"]
           /\ UNCHANGED nread
  <2>1. /\ peer' \in [Conns -> PeerState] /\ peer'[c] = "dead"
        /\ \A x \in Conns : x # c => peer'[x] = peer[x]
    BY <1>1, <1>4 DEF PeerState
  <2>2. TcpTypeOK' /\ Onward
    BY <1>1, <1>4, <2>1 DEF TcpTypeOK, Onward, Avail
  <2>3. nread = [nread EXCEPT ![c] = @ + 0]
    BY <1>1
  <2> QED
    BY <1>4, <2>1, <2>2, <2>3
<1> QED
  BY <1>2, <1>3, <1>4 DEF Recv

LEMMA SendEffect ==
  ASSUME TcpTypeOK, NEW c \in Conns, NEW res, Send(c, res),
         UNCHANGED <<sent, nread, backlog, fdtab, done>>
  PROVE  TcpTypeOK' /\ Onward
<1>1. /\ peer \in [Conns -> PeerState] /\ unread \in [Conns -> 0..SndRoom]
      /\ SndRoom \in Nat
  BY TcpAssumption DEF TcpTypeOK, TcpAssumption
<1>2. CASE unread[c] < SndRoom /\ unread' = [unread EXCEPT ![c] = @ + 1] /\ UNCHANGED peer
  BY <1>1, <1>2 DEF TcpTypeOK, Onward, Avail
<1>3. CASE peer' = [peer EXCEPT ![c] = "dead"] /\ UNCHANGED unread /\ peer[c] = "rst"
  <2>1. /\ peer' \in [Conns -> PeerState] /\ peer'[c] = "dead"
        /\ \A x \in Conns : x # c => peer'[x] = peer[x]
    BY <1>1, <1>3 DEF PeerState
  <2> QED
    BY <1>1, <1>3, <2>1 DEF TcpTypeOK, Onward, Avail
<1>4. CASE UNCHANGED <<peer, unread>>
  BY <1>4 DEF TcpTypeOK, Onward, Avail
<1> QED
  BY <1>2, <1>3, <1>4 DEF Send

LEMMA RecvDone ==
  ASSUME RingInv, Running, NEW op \in flight, op.event = "READ",
         NEW cnt \in -1..BufferLength, CompleteRecv(op, cnt),
         UNCHANGED <<sent, unread, backlog, fdtab, done, sq, loopVars>>
  PROVE  RingInv'
<1>1. /\ op \in Ops /\ op.conn \in Conns /\ op.len = BufferLength
      /\ BufferLength \in Nat \ {0} /\ cnt \in Int /\ TcpTypeOK
  BY OpKinds, FdFacts DEF RingInv, UringTypeOK
<1>2. Recv(op.conn, op.len, cnt) /\ Complete(op, cnt)
  BY DEF CompleteRecv
<1>3. /\ TcpTypeOK' /\ Onward
      /\ cnt < 0 => peer'[op.conn] = "dead"
      /\ cnt = 0 => peer'[op.conn] \in {"fin", "finrst", "dead"} /\ Avail(op.conn)' = 0
  BY <1>1, <1>2, RecvEffect
<1>4. peer' \in [Conns -> PeerState]
  BY <1>3 DEF TcpTypeOK
<1> QED
  BY <1>2, <1>3, <1>4, TransferDone

LEMMA SendDone ==
  ASSUME RingInv, Running, NEW op \in flight, op.event = "WRITE",
         NEW n \in 0..op.len, CompleteSend(op, n),
         UNCHANGED <<sent, nread, backlog, fdtab, done, sq, loopVars>>
  PROVE  RingInv'
<1>1. /\ op \in Ops /\ op.conn \in Conns /\ op.len \in 1..BufferLength
      /\ BufferLength \in Nat /\ TcpTypeOK
  BY OpKinds, FdFacts DEF RingInv, UringTypeOK
<1>2. PICK r, res : r \in -1..BufferLength /\ Complete(op, r) /\ Send(op.conn, res)
  BY <1>1 DEF CompleteSend
<1>3. TcpTypeOK' /\ Onward
  BY <1>1, <1>2, SendEffect
<1>4. peer' \in [Conns -> PeerState]
  BY <1>3 DEF TcpTypeOK
<1> QED
  BY <1>2, <1>3, <1>4, TransferDone

-----------------------------------------------------------------------------
(* Clients act. *)

LEMMA ClientEffect ==
  ASSUME TcpTypeOK, NEW c \in Conns, Client(c)
  PROVE  TcpTypeOK' /\ Onward
<1>1. /\ peer \in [Conns -> PeerState] /\ sent \in [Conns -> 0..MaxSend]
      /\ nread \in [Conns -> 0..MaxSend] /\ unread \in [Conns -> 0..SndRoom]
      /\ MaxSend \in Nat /\ SndRoom \in Nat /\ backlog \in Seq(Conns)
      /\ \A x \in Conns : nread[x] <= sent[x]
  BY TcpAssumption DEF TcpTypeOK, TcpAssumption
<1>2. CASE Connect(c)
  <2>1. /\ peer' = [peer EXCEPT ![c] = "up"] /\ peer[c] = "idle"
        /\ backlog' \in Seq(Conns)
        /\ UNCHANGED <<sent, nread, unread, fdtab, done>>
    BY <1>1, <1>2, AppendElements DEF Connect
  <2>2. /\ peer' \in [Conns -> PeerState] /\ peer'[c] = "up"
        /\ \A x \in Conns : x # c => peer'[x] = peer[x]
    BY <1>1, <2>1 DEF PeerState
  <2> QED
    BY <1>1, <2>1, <2>2 DEF TcpTypeOK, Onward, Avail
<1>3. CASE ClientSend(c)
  <2>1. /\ sent' = [sent EXCEPT ![c] = sent[c] + 1] /\ peer[c] = "up" /\ sent[c] < MaxSend
        /\ UNCHANGED <<peer, nread, unread, backlog, fdtab, done>>
    BY <1>3 DEF ClientSend
  <2>2. /\ sent' \in [Conns -> 0..MaxSend] /\ sent'[c] = sent[c] + 1
        /\ \A x \in Conns : x # c => sent'[x] = sent[x]
    BY <1>1, <2>1
  <2>3. TcpTypeOK'
    BY <1>1, <2>1, <2>2 DEF TcpTypeOK
  <2> QED
    BY <1>1, <2>1, <2>2, <2>3 DEF Onward, Avail
<1>4. CASE ClientRead(c)
  <2>1. unread' \in [Conns -> 0..SndRoom]
    BY <1>1, <1>4 DEF ClientRead
  <2> QED
    BY <1>4, <2>1 DEF ClientRead, TcpTypeOK, Onward, Avail
<1>5. CASE ClientFin(c)
  <2>1. /\ peer' \in [Conns -> PeerState] /\ peer'[c] = "fin" /\ peer[c] = "up"
        /\ \A x \in Conns : x # c => peer'[x] = peer[x]
    BY <1>1, <1>5 DEF ClientFin, PeerState
  <2> QED
    BY <1>1, <1>5, <2>1 DEF ClientFin, TcpTypeOK, Onward, Avail
<1>6. CASE ClientRst(c)
  <2>1. /\ peer' \in [Conns -> PeerState]
        /\ \/ peer[c] = "up" /\ peer'[c] = "rst"
           \/ peer[c] = "fin" /\ peer'[c] = "finrst"
        /\ \A x \in Conns : x # c => peer'[x] = peer[x]
    BY <1>1, <1>6 DEF ClientRst, PeerState
  <2> QED
    BY <1>1, <1>6, <2>1 DEF ClientRst, TcpTypeOK, Onward, Avail
<1> QED
  BY <1>2, <1>3, <1>4, <1>5, <1>6 DEF Client

LEMMA ClientInv ==
  ASSUME RingInv, Running, NEW c \in Conns, Client(c), UNCHANGED <<uringVars, loopVars>>
  PROVE  RingInv'
<1>1. TcpTypeOK' /\ Onward
  BY ClientEffect DEF RingInv
<1>2. /\ UNCHANGED <<fdtab, done, sq, flight, cq, pc, nready, i>>
      /\ OpenFds' = OpenFds /\ Unhandled' = Unhandled
  BY DEF Client, Connect, ClientSend, ClientRead, ClientFin, ClientRst,
         OpenFds, Unhandled, uringVars, loopVars, batchVars
<1>3. /\ \A fd \in OpenFds : fdtab[fd] \in Conns
      /\ backlog \in Seq(Conns) /\ \A j \in 1..Len(backlog) : backlog[j] \in Conns
      /\ done \subseteq Conns
  BY ElementOfSeq DEF RingInv, TcpTypeOK, OpenFds
<1>4. UringTypeOK' /\ LoopTypeOK' /\ IsFiniteSet(flight') /\ Dormant' /\ BatchHeld'
  BY <1>2 DEF RingInv, UringTypeOK, LoopTypeOK, Dormant, BatchHeld, Running
<1>5. Ownership'
  <2>1. CASE Connect(c)
    <3>1. peer[c] = "idle" /\ peer'[c] = "up" /\ backlog' = Append(backlog, c)
      BY <2>1 DEF Connect, RingInv, TcpTypeOK
    <3>2. /\ Len(backlog) \in Nat /\ Len(backlog') = Len(backlog) + 1
          /\ \A j \in 1..Len(backlog') :
               backlog'[j] = IF j = Len(backlog) + 1 THEN c ELSE backlog[j]
      BY <1>3, <3>1, AppendElements
    <3>3. /\ c \notin done /\ \A fd \in Fds : fdtab[fd] # c
          /\ \A j \in 1..Len(backlog) : backlog[j] # c
      BY <3>1, FdFacts DEF RingInv, Ownership, OpenFds
    <3>4. \A j \in 1..Len(backlog') :
            /\ backlog'[j] \notin done /\ peer'[backlog'[j]] # "idle"
            /\ \A fd \in Fds : fdtab[fd] # backlog'[j]
      BY <1>1, <1>3, <3>1, <3>2, <3>3 DEF RingInv, Ownership, Onward
    <3>5. \A j, k \in 1..Len(backlog') : backlog'[k] = backlog'[j] => k = j
      BY <3>2, <3>3 DEF RingInv, Ownership
    <3> QED
      BY <1>1, <1>2, <1>3, <3>4, <3>5 DEF RingInv, Ownership, Onward
  <2>2. CASE UNCHANGED backlog
    BY <1>1, <1>2, <1>3, <2>2 DEF RingInv, Ownership, Onward
  <2> QED
    BY <2>1, <2>2 DEF Client, ClientSend, ClientRead, ClientFin, ClientRst
<1>6. CompletionsFresh'
  BY <1>2 DEF RingInv, CompletionsFresh
<1>7. EndsStand'
  <2>1. \A k \in 1..Len(Unhandled) :
          Unhandled[k].event = "READ" /\ Unhandled[k].fd \in Fds =>
            Unhandled[k].conn \in Conns
    BY UnhandledElements, CqeKinds, FdFacts
  <2> QED
    BY <1>1, <1>2, <2>1 DEF RingInv, EndsStand, Onward, Avail
<1>8. AcceptArmed'
  BY <1>2 DEF RingInv, AcceptArmed, Running, Accepts
<1>9. OneChainPerDescriptor'
  <2>1. \A g \in Fds : Carriers(g, Unhandled)' = Carriers(g, Unhandled)
    BY <1>2 DEF Carriers
  <2>2. \A g \in OpenFds : peer[fdtab[g]] = "dead" => peer'[fdtab[g]] = "dead"
    BY <1>1, <1>3 DEF Onward
  <2> QED
    BY <1>2, <2>1, <2>2 DEF RingInv, OneChainPerDescriptor, Running
<1> QED
  BY <1>1, <1>4, <1>5, <1>6, <1>7, <1>8, <1>9 DEF RingInv

-----------------------------------------------------------------------------
(* The loop goes on. *)

\* Only the place in the loop changes, and what of the batch is freed.
LEMMA LoopFrame ==
  ASSUME RingInv, Running, UNCHANGED <<tcpVars, sq, flight>>, Unhandled' = Unhandled,
         cq' \in Seq(Cqes), LoopTypeOK', BatchHeld', pc' # "boot"
  PROVE  RingInv'
<1>1. OpenFds' = OpenFds /\ UNCHANGED <<peer, sent, nread, unread, backlog, fdtab, done>>
  BY DEF tcpVars, OpenFds
<1>2. TcpTypeOK' /\ UringTypeOK' /\ IsFiniteSet(flight') /\ Dormant' /\ Ownership'
  BY <1>1 DEF RingInv, TcpTypeOK, UringTypeOK, Dormant, Ownership
<1>3. CompletionsFresh' /\ EndsStand'
  BY <1>1 DEF RingInv, CompletionsFresh, EndsStand, Avail
<1>4. AcceptArmed'
  BY DEF RingInv, AcceptArmed, Accepts
<1>5. OneChainPerDescriptor'
  <2>1. \A g \in Fds : Carriers(g, Unhandled)' = Carriers(g, Unhandled)
    BY DEF Carriers
  <2> QED
    BY <1>1, <2>1 DEF RingInv, OneChainPerDescriptor
<1> QED
  BY <1>2, <1>3, <1>4, <1>5 DEF RingInv

LEMMA WholeRest ==
  ASSUME NEW S, NEW s \in Seq(S)
  PROVE  SubSeq(s, 1, Len(s)) = s
<1>1. /\ SubSeq(s, 0 + 1, Len(s)) \in Seq(S)
      /\ Len(SubSeq(s, 0 + 1, Len(s))) = Len(s) - 0
      /\ \A k \in 1..Len(s) - 0 : SubSeq(s, 0 + 1, Len(s))[k] = s[0 + k]
      /\ Len(s) \in Nat
  BY RestElements, LenProperties
<1>2. /\ SubSeq(s, 1, Len(s)) \in Seq(S)
      /\ Len(SubSeq(s, 1, Len(s))) = Len(s)
      /\ \A k \in 1..Len(s) : SubSeq(s, 1, Len(s))[k] = s[k]
  BY <1>1
<1> QED
  BY <1>2, SeqEqual

\* What waits in the rings is the same after a round as before it.
LEMMA RoundEffect ==
  ASSUME RingInv, Submitted \/ Peek \/ Advance
  PROVE  UNCHANGED <<tcpVars, sq, flight>> /\ Unhandled' = Unhandled
<1>1. nready \in Nat /\ cq \in Seq(Cqes) /\ (pc \in {"submit", "wait"} => i = 0)
  BY FdFacts DEF RingInv, LoopTypeOK, UringTypeOK, BatchHeld, Running
<1>2. CASE Submitted
  BY <1>2 DEF Submitted, uringVars, batchVars, Unhandled
<1>3. CASE Peek
  <2>1. UNCHANGED <<tcpVars, sq, flight, cq>> /\ i' = 0 /\ i = 0
    BY <1>1, <1>3 DEF Peek, uringVars
  <2> QED
    BY <2>1 DEF Unhandled
<1>4. CASE Advance
  <2>1. /\ UNCHANGED <<tcpVars, sq, flight>>
        /\ i = nready /\ i' = 0 /\ cq' = SubSeq(cq, nready + 1, Len(cq))
    BY <1>4 DEF Advance, Advanced, Free
  <2>2. cq' = Unhandled /\ cq' \in Seq(Cqes)
    BY <2>1, UnhandledElements DEF Unhandled
  <2>3. Unhandled' = SubSeq(cq', 0 + 1, Len(cq')) /\ SubSeq(cq', 1, Len(cq')) = cq'
    BY <2>1, <2>2, WholeRest DEF Unhandled
  <2> QED
    BY <2>1, <2>2, <2>3
<1> QED
  BY <1>2, <1>3, <1>4

LEMMA RoundInv ==
  ASSUME RingInv, Submitted \/ Peek \/ Advance
  PROVE  RingInv'
<1>1. /\ Running /\ pc' # "boot" /\ UNCHANGED <<tcpVars, sq, flight>>
      /\ Unhandled' = Unhandled
  BY RoundEffect DEF Submitted, Peek, Advance, Running
<1>2. /\ cq \in Seq(Cqes) /\ Len(cq) \in Nat /\ CqBatch \in Nat /\ LoopTypeOK /\ BatchHeld
  BY LenProperties, FdFacts DEF RingInv, UringTypeOK
<1>3. CASE Submitted
  BY <1>1, <1>2, <1>3, LoopFrame
  DEF Submitted, uringVars, batchVars, LoopTypeOK, BatchHeld, Running
<1>4. CASE Peek
  <2>1. /\ UNCHANGED cq /\ pc' = "handle" /\ i' = 0 /\ nready' \in 0..CqBatch
        /\ nready' <= Len(cq)
    BY <1>2, <1>4 DEF Peek, BatchSize, uringVars
  <2> QED
    BY <1>1, <1>2, <2>1, LoopFrame DEF LoopTypeOK, BatchHeld
<1>5. CASE Advance
  <2>1. /\ pc' = "submit" /\ i' = 0 /\ nready' = 0
        /\ i = nready /\ cq' = SubSeq(cq, nready + 1, Len(cq))
    BY <1>5 DEF Advance, Advanced, Free
  <2>2. cq' \in Seq(Cqes)
    BY <2>1, UnhandledElements DEF Unhandled
  <2>3. LoopTypeOK' /\ BatchHeld'
    BY <1>2, <2>1, <2>2, LenProperties DEF LoopTypeOK, BatchHeld
  <2> QED
    BY <1>1, <2>2, <2>3, LoopFrame
<1> QED
  BY <1>3, <1>4, <1>5

\* The kernel takes an entry: an operation carries on what the entry carried,
\* or, when its descriptor is unusable, a completion at once.
LEMMA SubmitInv ==
  ASSUME RingInv, Submit
  PROVE  RingInv'
<1> DEFINE s == Head(sq)
           op == Op(s)
<1>1. /\ pc = "submit" /\ Running /\ TakeEntry /\ pc' \in {"submit", "wait"}
      /\ UNCHANGED <<peer, sent, nread, unread, backlog, fdtab, done, nready, i>>
      /\ nready = 0 /\ i = 0 /\ OpenFds' = OpenFds
  BY FdFacts DEF Submit, Running, tcpVars, batchVars, RingInv, BatchHeld, LoopTypeOK, OpenFds
<1>2. /\ sq \in Seq(Sqes) /\ flight \subseteq Ops /\ IsFiniteSet(flight)
      /\ cq \in Seq(Cqes) /\ Len(cq) \in Nat
      /\ fdtab \in [Fds -> Conns \cup {NoConn}]
  BY CountsTyped, UnhandledElements DEF RingInv, TcpTypeOK
<1>3. /\ s \in Sqes /\ s = sq[1] /\ 1 \in 1..Len(sq) /\ sq' \in Seq(Sqes)
  BY <1>1, <1>2, TakeEffect
<1>4. \A T : /\ Count(sq, T) \in Nat /\ Count(sq', T) \in Nat
             /\ Count(sq, T) = Count(sq', T) + Weight(s, T)
  BY <1>1, <1>2, <1>3, TakeEffect
<1>5. \A T : Count(Unhandled, T) \in Nat /\ Cardinality(flight \cap T) \in Nat
  BY CountsTyped
<1>6. op.event = s.event /\ op.fd = s.fd /\ op.len = s.len
  BY DEF Op
<1>7. /\ TcpTypeOK' /\ LoopTypeOK' /\ Dormant' /\ Ownership'
  BY <1>1 DEF RingInv, TcpTypeOK, LoopTypeOK, Dormant, Ownership
<1>8. Weight(s, AcceptSqes) = (IF s.event = "ACCEPT" THEN 1 ELSE 0)
      /\ \A fd : Weight(s, SqesOn(fd)) = IF s.fd = fd THEN 1 ELSE 0
  BY <1>3, SqeKinds DEF Weight
<1>9. CASE op.fd \in AllFds /\ flight' = flight \cup {op} /\ UNCHANGED cq
  <2>1. /\ s.fd \in Fds => s.fd \in OpenFds /\ \A other \in flight : other.fd # s.fd
        /\ s.event = "ACCEPT" => \A other \in flight : other.event # "ACCEPT"
    BY <1>1, <1>3, Alone, OneAccept
  <2>2. op \in Ops /\ op \notin flight /\ (op.fd \in Fds => op.conn = fdtab[op.fd])
    <3>1. CASE s.event = "ACCEPT"
      <4>1. s.fd = ListenFd /\ s.len = 0
        BY <1>3, <1>6, <1>9, <3>1, SqeKinds, FdFacts
      <4>2. op = [event |-> "ACCEPT", fd |-> ListenFd, len |-> 0, conn |-> NoConn]
        BY <3>1, <4>1, FdFacts DEF Op
      <4> QED
        BY <1>6, <2>1, <3>1, <4>1, <4>2, FdFacts DEF Ops, AcceptOps
    <3>2. CASE s.event # "ACCEPT"
      <4>1. s.fd \in Fds
        BY <1>3, <1>6, <1>9, <3>2, SqeKinds, FdFacts
      <4>2. fdtab[s.fd] \in Conns
        BY <1>2, <2>1, <4>1 DEF OpenFds
      <4>3. op = [event |-> s.event, fd |-> s.fd, len |-> s.len, conn |-> fdtab[s.fd]]
        BY <4>1 DEF Op
      <4>4. op \in Ops
        BY <1>3, <3>2, <4>1, <4>2, <4>3, SqeKinds, FdFacts DEF Ops, RecvOps, SendOps
      <4> QED
        BY <1>6, <2>1, <4>1, <4>3, <4>4
    <3> QED
      BY <3>1, <3>2
  <2>3. Unhandled' = Unhandled /\ UringTypeOK' /\ BatchHeld' /\ IsFiniteSet(flight')
    BY <1>1, <1>2, <1>3, <1>9, <2>2, FlightAdd
    DEF Unhandled, UringTypeOK, RingInv, BatchHeld
  <2>4. \A T : Cardinality(flight' \cap T) = Cardinality(flight \cap T) + Weight(op, T)
    <3> TAKE T
    <3> QED
      BY <1>2, <1>9, <2>2, FlightAdd
  <2>5. /\ Weight(op, AcceptOps) = (IF s.event = "ACCEPT" THEN 1 ELSE 0)
        /\ \A fd : Weight(op, OpsOn(fd)) = IF s.fd = fd THEN 1 ELSE 0
    BY <1>6, <2>2, OpKinds DEF Weight
  <2> HIDE DEF s, op
  <2>6. Accepts(Unhandled)' = Accepts(Unhandled)
    <3>1. /\ Count(sq, AcceptSqes) =
               Count(sq', AcceptSqes) + (IF s.event = "ACCEPT" THEN 1 ELSE 0)
          /\ Cardinality(flight' \cap AcceptOps) =
               Cardinality(flight \cap AcceptOps) + (IF s.event = "ACCEPT" THEN 1 ELSE 0)
          /\ Count(Unhandled', AcceptCqes) = Count(Unhandled, AcceptCqes)
          /\ Count(sq', AcceptSqes) \in Nat /\ Count(Unhandled, AcceptCqes) \in Nat
          /\ Cardinality(flight \cap AcceptOps) \in Nat
      BY <1>4, <1>5, <1>8, <2>3, <2>4, <2>5
    <3> QED
      BY <3>1 DEF Accepts
  <2>7. \A fd \in Fds : Carriers(fd, Unhandled)' = Carriers(fd, Unhandled)
    <3> TAKE fd \in Fds
    <3>1. /\ Count(sq, SqesOn(fd)) =
               Count(sq', SqesOn(fd)) + (IF s.fd = fd THEN 1 ELSE 0)
          /\ Cardinality(flight' \cap OpsOn(fd)) =
               Cardinality(flight \cap OpsOn(fd)) + (IF s.fd = fd THEN 1 ELSE 0)
          /\ Count(Unhandled', CqesOn(fd)) = Count(Unhandled, CqesOn(fd))
          /\ Count(sq', SqesOn(fd)) \in Nat /\ Count(Unhandled, CqesOn(fd)) \in Nat
          /\ Cardinality(flight \cap OpsOn(fd)) \in Nat
      BY <1>4, <1>5, <1>8, <2>3, <2>4, <2>5
    <3> QED
      BY <3>1 DEF Carriers
  <2>8. CompletionsFresh'
    BY <1>1, <1>9, <2>2, <2>3 DEF RingInv, CompletionsFresh
  <2>9. EndsStand'
    BY <1>1, <2>3 DEF RingInv, EndsStand, Avail
  <2>10. AcceptArmed' /\ OneChainPerDescriptor'
    BY <1>1, <2>6, <2>7 DEF RingInv, AcceptArmed, OneChainPerDescriptor
  <2> QED
    BY <1>7, <2>3, <2>8, <2>9, <2>10 DEF RingInv
<1>10. CASE op.fd = BadFd /\ cq' = Append(cq, Cqe(op, -1)) /\ UNCHANGED flight
  <2> DEFINE e == Cqe(op, -1)
  <2>1. /\ e = [event |-> s.event, fd |-> BadFd, conn |-> NoConn, res |-> -1]
        /\ s.event \in {"ACCEPT", "READ"}
    BY <1>3, <1>6, <1>10, SqeKinds, FdFacts DEF Op, Cqe
  <2>2. e \in Cqes
    BY <2>1 DEF Cqes, AcceptCqes, BadRecvCqes
  <2>3. /\ cq' \in Seq(Cqes) /\ Len(cq') = Len(cq) + 1
        /\ Len(Unhandled) \in Nat /\ Len(Unhandled') = Len(Unhandled) + 1
        /\ \A k \in 1..Len(Unhandled') :
             Unhandled'[k] = IF k = Len(Unhandled) + 1 THEN e ELSE Unhandled[k]
    BY <1>1, <1>10, <2>2, AppendEffect DEF batchVars
  <2>4. \A T : Count(Unhandled', T) = Count(Unhandled, T) + Weight(e, T)
    BY <1>1, <1>10, <2>2, AppendEffect DEF batchVars
  <2>5. UringTypeOK' /\ BatchHeld' /\ IsFiniteSet(flight')
    BY <1>1, <1>2, <1>3, <1>10, <2>3 DEF UringTypeOK, BatchHeld
  <2>6. CompletionsFresh'
    BY <1>1, <1>10, <2>1, <2>3, FdFacts DEF RingInv, CompletionsFresh
  <2>7. EndsStand'
    BY <1>1, <2>1, <2>3, FdFacts DEF RingInv, EndsStand, Avail
  <2>8. /\ Weight(e, AcceptCqes) = (IF s.event = "ACCEPT" THEN 1 ELSE 0)
        /\ \A fd \in Fds : Weight(e, CqesOn(fd)) = 0 /\ Weight(s, SqesOn(fd)) = 0
    BY <1>6, <1>8, <1>10, <2>1, <2>2, CqeKinds, FdFacts DEF Weight
  <2> HIDE DEF s, op, e
  <2>9. Accepts(Unhandled)' = Accepts(Unhandled)
    <3>1. /\ Count(sq, AcceptSqes) =
               Count(sq', AcceptSqes) + (IF s.event = "ACCEPT" THEN 1 ELSE 0)
          /\ Cardinality(flight' \cap AcceptOps) = Cardinality(flight \cap AcceptOps)
          /\ Count(Unhandled', AcceptCqes) =
               Count(Unhandled, AcceptCqes) + (IF s.event = "ACCEPT" THEN 1 ELSE 0)
          /\ Count(sq', AcceptSqes) \in Nat /\ Count(Unhandled, AcceptCqes) \in Nat
          /\ Cardinality(flight \cap AcceptOps) \in Nat
      BY <1>4, <1>5, <1>8, <1>10, <2>4, <2>8
    <3> QED
      BY <3>1 DEF Accepts
  <2>10. \A fd \in Fds : Carriers(fd, Unhandled)' = Carriers(fd, Unhandled)
    <3> TAKE fd \in Fds
    <3>1. /\ Count(sq, SqesOn(fd)) = Count(sq', SqesOn(fd))
          /\ Cardinality(flight' \cap OpsOn(fd)) = Cardinality(flight \cap OpsOn(fd))
          /\ Count(Unhandled', CqesOn(fd)) = Count(Unhandled, CqesOn(fd))
      <4>1. /\ Count(sq', SqesOn(fd)) \in Nat /\ Count(Unhandled, CqesOn(fd)) \in Nat
            /\ Count(sq, SqesOn(fd)) = Count(sq', SqesOn(fd)) + Weight(s, SqesOn(fd))
            /\ Count(Unhandled', CqesOn(fd)) =
                 Count(Unhandled, CqesOn(fd)) + Weight(e, CqesOn(fd))
        BY <1>4, <1>5, <2>4
      <4> QED
        BY <1>10, <2>8, <4>1
    <3> QED
      BY <3>1 DEF Carriers
  <2>11. AcceptArmed' /\ OneChainPerDescriptor'
    BY <1>1, <2>9, <2>10 DEF RingInv, AcceptArmed, OneChainPerDescriptor
  <2> QED
    BY <1>7, <2>5, <2>6, <2>7, <2>11 DEF RingInv
<1> QED
  BY <1>1, <1>9, <1>10 DEF TakeEntry

LEMMA LoopInv ==
  ASSUME RingInv, Loop
  PROVE  RingInv'
BY SubmitInv, RoundInv DEF Loop

-----------------------------------------------------------------------------
(* The servers start, and nothing happens. *)

LEMMA InitInv ==
  ASSUME TcpInit, UringInit, LoopInit
  PROVE  RingInv
<1> USE DEF TcpInit, UringInit, LoopInit
<1>1. TcpTypeOK /\ UringTypeOK /\ LoopTypeOK
  BY TcpAssumption, FdFacts DEF TcpAssumption, TcpTypeOK, PeerState, UringTypeOK, LoopTypeOK
<1>2. IsFiniteSet(flight)
  BY FS_EmptySet
<1>3. OpenFds = {}
  BY DEF OpenFds
<1>4. Dormant /\ Ownership /\ AcceptArmed /\ OneChainPerDescriptor
  BY <1>3 DEF Dormant, Ownership, AcceptArmed, OneChainPerDescriptor, Running
<1>5. BatchHeld
  BY EmptySeq DEF BatchHeld, Running
<1>6. CompletionsFresh /\ EndsStand
  BY <1>1, RestElements, EmptySeq DEF CompletionsFresh, EndsStand, Unhandled
<1> QED
  BY <1>1, <1>2, <1>4, <1>5, <1>6 DEF RingInv

LEMMA BootInv ==
  ASSUME RingInv, pc = "boot", NEW fd \in {ListenFd, BadFd},
         \/ sq' = <<Sqe("ACCEPT", fd, 0)>> /\ pc' = "submit"
         \/ UNCHANGED sq /\ pc' = "crashed",
         UNCHANGED <<tcpVars, flight, cq, batchVars>>
  PROVE  RingInv'
<1>1. /\ sq = <<>> /\ flight = {} /\ cq = <<>> /\ OpenFds = {} /\ nready = 0 /\ i = 0
      /\ UNCHANGED <<peer, sent, nread, unread, backlog, fdtab, done>>
      /\ UNCHANGED <<flight, cq, nready, i>>
  <2>1. sq = <<>> /\ flight = {} /\ cq = <<>> /\ OpenFds = {}
    BY DEF RingInv, Dormant
  <2>2. nready <= Len(cq) /\ nready \in Nat /\ i \in 0..nready
    BY FdFacts DEF RingInv, BatchHeld, LoopTypeOK
  <2>3. Len(cq) = 0
    BY <2>1, EmptySeq
  <2> QED
    BY <2>1, <2>2, <2>3 DEF tcpVars, batchVars
<1>2. Sqe("ACCEPT", fd, 0) \in Sqes /\ Sqe("ACCEPT", fd, 0).event = "ACCEPT"
      /\ Sqe("ACCEPT", fd, 0).fd = fd
  BY PreparedKinds DEF Sqe
<1>3. sq' \in Seq(Sqes)
  <2>1. <<Sqe("ACCEPT", fd, 0)>> \in Seq(Sqes) /\ sq \in Seq(Sqes)
    BY <1>2, CountOne DEF RingInv, UringTypeOK
  <2> QED
    BY <2>1
<1>4. OpenFds' = OpenFds /\ Unhandled' = Unhandled
  BY <1>1 DEF OpenFds, Unhandled
<1>5. /\ TcpTypeOK' /\ UringTypeOK' /\ LoopTypeOK' /\ IsFiniteSet(flight')
      /\ Dormant' /\ BatchHeld' /\ Ownership'
  BY <1>1, <1>3, <1>4
  DEF RingInv, TcpTypeOK, UringTypeOK, LoopTypeOK, Dormant, BatchHeld, Ownership
<1>6. CompletionsFresh' /\ EndsStand'
  BY <1>1, <1>4 DEF RingInv, CompletionsFresh, EndsStand, Avail
<1>7. /\ Len(Unhandled) = 0 /\ Unhandled \in Seq(Cqes)
  <2>1. Len(Unhandled) = Len(cq) - i /\ Unhandled \in Seq(Cqes)
    BY UnhandledElements
  <2> QED
    BY <1>1, <2>1, EmptySeq
<1>8. \A T : /\ Count(Unhandled', T) = 0 /\ Cardinality(flight' \cap T) = 0
             /\ pc' = "submit" => Count(sq', T) = Weight(Sqe("ACCEPT", fd, 0), T)
  <2> TAKE T
  <2>1. Count(Unhandled, T) = 0
    <3>1. \A k \in 1..Len(Unhandled) : Unhandled[k] \notin T
      BY <1>7
    <3> QED
      BY <1>7, <3>1, CountMeaning
  <2>2. flight \cap T = {}
    BY <1>1
  <2>3. Cardinality(flight \cap T) = 0
    BY <2>2, FS_EmptySet
  <2>4. Count(<<Sqe("ACCEPT", fd, 0)>>, T) = Weight(Sqe("ACCEPT", fd, 0), T)
    BY <1>2, CountOne
  <2> QED
    BY <1>1, <1>4, <2>1, <2>3, <2>4
<1>9. AcceptArmed'
  <2>1. Weight(Sqe("ACCEPT", fd, 0), AcceptSqes) = 1
    BY <1>2, SqeKinds DEF Weight
  <2>2. pc' = "submit" => /\ Count(sq', AcceptSqes) = 1 /\ Count(Unhandled', AcceptCqes) = 0
                          /\ Cardinality(flight' \cap AcceptOps) = 0
    BY <1>8, <2>1
  <2> QED
    BY <2>2 DEF AcceptArmed, Accepts, Running
<1>10. OneChainPerDescriptor'
  <2>1. \A g \in Fds : Weight(Sqe("ACCEPT", fd, 0), SqesOn(g)) = 0
    BY <1>2, SqeKinds, FdFacts DEF Weight
  <2>2. pc' = "submit" => \A g \in Fds :
          /\ Count(sq', SqesOn(g)) = 0 /\ Count(Unhandled', CqesOn(g)) = 0
          /\ Cardinality(flight' \cap OpsOn(g)) = 0
    BY <1>8, <2>1
  <2>3. pc' = "submit" => \A g \in Fds : Carriers(g, Unhandled)' = 0
    BY <2>2 DEF Carriers
  <2> QED
    BY <1>1, <1>4, <2>3 DEF OneChainPerDescriptor, Running
<1> QED
  BY <1>5, <1>6, <1>9, <1>10 DEF RingInv

LEMMA StutterInv ==
  ASSUME RingInv, UNCHANGED <<tcpVars, uringVars, loopVars>>
  PROVE  RingInv'
<1>1. /\ UNCHANGED <<peer, sent, nread, unread, backlog, fdtab, done, sq, flight, cq>>
      /\ UNCHANGED <<pc, nready, i>>
  BY DEF tcpVars, uringVars, loopVars, batchVars
<1>2. OpenFds' = OpenFds /\ Unhandled' = Unhandled
  BY <1>1 DEF OpenFds, Unhandled
<1>3. /\ TcpTypeOK' /\ UringTypeOK' /\ LoopTypeOK' /\ IsFiniteSet(flight')
      /\ Dormant' /\ BatchHeld' /\ Ownership'
  BY <1>1, <1>2
  DEF RingInv, TcpTypeOK, UringTypeOK, LoopTypeOK, Dormant, BatchHeld, Ownership, Running
<1>4. CompletionsFresh' /\ EndsStand'
  BY <1>1, <1>2 DEF RingInv, CompletionsFresh, EndsStand, Avail
<1>5. AcceptArmed' /\ OneChainPerDescriptor'
  BY <1>1, <1>2 DEF RingInv, AcceptArmed, OneChainPerDescriptor, Running, Accepts, Carriers
<1> QED
  BY <1>3, <1>4, <1>5 DEF RingInv

-----------------------------------------------------------------------------
(* What both servers prepare when they handle a completion. *)

LEMMA AcceptHandled ==
  ASSUME RingInv, Handling("ACCEPT"), UNCHANGED tcpVars, NEW fd \in {ListenFd, BadFd},
         Prepare(<<Sqe("ACCEPT", fd, 0), Sqe("READ", cq[i + 1].res, BufferLength)>>)
  PROVE  RingInv'
<1> DEFINE e == cq[i + 1]
           a == Sqe("ACCEPT", fd, 0)
           r == Sqe("READ", e.res, BufferLength)
<1>1. e \in Cqes /\ e.event = "ACCEPT" /\ e.res \in Fds \cup {BadFd}
  BY HandlingEffect, CqeKinds, FdFacts
<1>2. /\ a \in Sqes /\ a.event = "ACCEPT" /\ a.fd = fd
      /\ r \in Sqes /\ r.event = "READ" /\ r.fd = e.res
  BY <1>1, PreparedKinds DEF Sqe
<1>3. /\ Weight(a, AcceptSqes) = 1 /\ Weight(r, AcceptSqes) = 0 /\ Weight(e, AcceptCqes) = 1
      /\ \A g \in Fds : /\ Weight(a, SqesOn(g)) = 0
                        /\ Weight(r, SqesOn(g)) = Weight(e, CqesOn(g))
                        /\ Weight(e, CqesOn(g)) \in Nat
  BY <1>1, <1>2, SqeKinds, CqeKinds, FdFacts DEF Weight
<1> HIDE DEF a, r
<1>4. <<a, r>> \in Seq(Sqes) /\ \A T : Count(<<a, r>>, T) = Weight(a, T) + Weight(r, T)
  BY <1>2, CountTwo
<1>5. Prepare(<<a, r>>)
  BY DEF a, r
<1>6. Count(<<a, r>>, AcceptSqes) = Weight(e, AcceptCqes)
  BY <1>3, <1>4
<1>7. \A g \in Fds : Count(<<a, r>>, SqesOn(g)) = Weight(e, CqesOn(g))
  BY <1>3, <1>4
<1> QED
  BY <1>4, <1>5, <1>6, <1>7, HandOver

LEMMA TransferHandled ==
  ASSUME RingInv, NEW event \in {"READ", "WRITE"}, Handling(event), cq[i + 1].fd \in Fds,
         UNCHANGED tcpVars, NEW s \in Sqes, s.event # "ACCEPT", s.fd = cq[i + 1].fd,
         Prepare(<<s>>)
  PROVE  RingInv'
<1> DEFINE e == cq[i + 1]
<1>1. e \in Cqes /\ e.event # "ACCEPT"
  BY HandlingEffect
<1>2. /\ Weight(s, AcceptSqes) = Weight(e, AcceptCqes)
      /\ \A g \in Fds : Weight(s, SqesOn(g)) = Weight(e, CqesOn(g))
  BY <1>1, SqeKinds, CqeKinds DEF Weight
<1>3. <<s>> \in Seq(Sqes) /\ \A T : Count(<<s>>, T) = Weight(s, T)
  BY CountOne
<1>4. /\ Count(<<s>>, AcceptSqes) = Weight(e, AcceptCqes)
      /\ \A g \in Fds : Count(<<s>>, SqesOn(g)) = Weight(e, CqesOn(g))
  BY <1>2, <1>3
<1> QED
  BY <1>3, <1>4, HandOver

-----------------------------------------------------------------------------
(* How much of the submission ring is in use.                              *)

\* A submission ring of this size, as the code has, is never full.
Roomy == SqEntries >= 2 * CqBatch

LEMMA BatchFacts ==
  ASSUME RingInv
  PROVE  /\ CqBatch \in Nat /\ CqBatch > 0 /\ SqEntries \in Nat
         /\ nready \in 0..CqBatch /\ i \in 0..nready
         /\ sq \in Seq(Sqes) /\ Len(sq) \in Nat /\ Count(sq, AcceptSqes) \in Nat
         /\ \A k \in 1..Len(sq) : sq[k] \in Sqes
BY FdFacts, CountsTyped, LenProperties, ElementOfSeq DEF RingInv, LoopTypeOK

LEMMA RoomInit ==
  ASSUME UringInit, LoopInit
  PROVE  RoomInv
BY EmptySeq DEF UringInit, LoopInit, RoomInv, OneBadEntry, RoomForBatch

LEMMA RoomBoot ==
  ASSUME RingInv, pc = "boot",
         \/ sq' = <<Sqe("ACCEPT", ListenFd, 0)>> /\ pc' = "submit"
         \/ UNCHANGED sq /\ pc' = "crashed",
         UNCHANGED batchVars
  PROVE  RoomInv'
<1>1. sq = <<>>
  BY DEF RingInv, Dormant
<1>2. \A k \in 1..Len(sq') : sq'[k].fd # BadFd
  <2>1. CASE sq' = <<Sqe("ACCEPT", ListenFd, 0)>>
    BY <2>1, FdFacts DEF Sqe
  <2>2. CASE UNCHANGED sq
    BY <1>1, <2>2, EmptySeq
  <2> QED
    BY <2>1, <2>2
<1> QED
  BY <1>2 DEF RoomInv, OneBadEntry, RoomForBatch, BadAt

\* Neither the kernel nor a client touches the submission ring.
LEMMA RoomFrame ==
  ASSUME RoomInv, UNCHANGED <<sq, nready, i>>, pc' \in {pc, "crashed"}
  PROVE  RoomInv'
BY DEF RoomInv, OneBadEntry, RoomForBatch, BadAt

LEMMA RoomSubmit ==
  ASSUME RingInv, RoomInv, Submit
  PROVE  RoomInv'
<1>1. /\ pc = "submit" /\ TakeEntry /\ (pc' = "submit" \/ (MayStop /\ pc' = "wait"))
      /\ nready = 0 /\ i = 0 /\ UNCHANGED <<nready, i>>
  BY FdFacts DEF Submit, batchVars, RingInv, BatchHeld, LoopTypeOK, Running
<1>2. /\ Len(sq) \in Nat /\ Len(sq) > 0 /\ Len(sq') = Len(sq) - 1 /\ Head(sq) = sq[1]
      /\ \A k \in 1..Len(sq') : k + 1 \in 1..Len(sq) /\ sq'[k] = sq[k + 1]
      /\ CqBatch \in Nat
  BY <1>1, TakeEffect, BatchFacts
<1>3. \A k \in 1..Len(sq) :
        BadAt(k) => /\ sq[k].event = "READ"
                    /\ \A j \in 1..Len(sq) : BadAt(j) => j = k
                    /\ Len(sq) - k < CqBatch
  BY <1>1, <1>2 DEF RoomInv, OneBadEntry
<1>4. \A k \in 1..Len(sq') : BadAt(k)' => BadAt(k + 1) /\ k + 1 # 1
  BY <1>2 DEF BadAt
<1>5. \A k \in 1..Len(sq') :
        BadAt(k)' => /\ sq'[k].event = "READ"
                     /\ \A j \in 1..Len(sq') : BadAt(j)' => j = k
                     /\ Len(sq') - k < CqBatch
  BY <1>2, <1>3, <1>4
<1>6. CASE pc' = "submit"
  BY <1>1, <1>2, <1>5, <1>6 DEF RoomInv, OneBadEntry, RoomForBatch, BadAt
<1>7. CASE MayStop /\ pc' = "wait"
  <2>1. BadAt(1) /\ 1 \in 1..Len(sq)
    BY <1>2, <1>7 DEF MayStop, BadAt
  <2>2. Len(sq') < CqBatch /\ \A k \in 1..Len(sq') : ~BadAt(k)'
    BY <1>2, <1>3, <1>4, <2>1
  <2> QED
    BY <1>7, <2>2 DEF RoomInv, OneBadEntry, RoomForBatch
<1> QED
  BY <1>1, <1>6, <1>7

LEMMA RoomLoop ==
  ASSUME RingInv, RoomInv, Loop
  PROVE  RoomInv'
<1>1. /\ CqBatch \in Nat /\ CqBatch > 0 /\ nready \in 0..CqBatch /\ i \in 0..nready
      /\ Len(sq) \in Nat /\ Count(sq, AcceptSqes) \in Nat
  BY BatchFacts
<1>2. CASE Submitted
  BY <1>1, <1>2, EmptySeq
  DEF Submitted, uringVars, batchVars, RoomInv, OneBadEntry, RoomForBatch
<1>3. CASE Peek
  <2>1. /\ pc = "wait" /\ pc' = "handle" /\ UNCHANGED sq /\ i' = 0 /\ nready' = BatchSize
        /\ Len(cq) \in Nat
    BY <1>3, UnhandledElements DEF Peek, uringVars
  <2>2. nready' \in 0..CqBatch
    BY <1>1, <2>1 DEF BatchSize
  <2>3. Len(sq) < CqBatch /\ \A k \in 1..Len(sq) : ~BadAt(k)
    BY <2>1 DEF RoomInv, OneBadEntry, RoomForBatch
  <2>4. Len(sq) + (nready' - i') + (1 - Count(sq, AcceptSqes)) <= 2 * CqBatch
    BY <1>1, <2>1, <2>2, <2>3
  <2> QED
    BY <2>1, <2>3, <2>4 DEF RoomInv, OneBadEntry, RoomForBatch, BadAt
<1>4. CASE Advance
  <2>1. pc = "handle" /\ pc' = "submit" /\ UNCHANGED sq /\ i = nready /\ i' = 0 /\ nready' = 0
    BY <1>4 DEF Advance
  <2> QED
    BY <1>1, <2>1 DEF RoomInv, OneBadEntry, RoomForBatch, BadAt
<1> QED
  BY <1>2, <1>3, <1>4, RoomSubmit DEF Loop

\* Handling an accept takes the room that was left for it.
LEMMA RoomAccept ==
  ASSUME RingInv, RoomInv, Roomy, Handling("ACCEPT"), NEW fd \in Fds \cup {BadFd},
         Prepare(<<Sqe("ACCEPT", ListenFd, 0), Sqe("READ", fd, BufferLength)>>)
  PROVE  RoomInv' /\ pc' = "handle"
<1> DEFINE a == Sqe("ACCEPT", ListenFd, 0)
           r == Sqe("READ", fd, BufferLength)
<1>1. /\ a \in Sqes /\ a.event = "ACCEPT" /\ a.fd = ListenFd
      /\ r \in Sqes /\ r.event = "READ" /\ r.fd = fd
  BY PreparedKinds DEF Sqe
<1>2. /\ CqBatch \in Nat /\ nready \in 0..CqBatch /\ i \in 0..nready /\ SqEntries \in Nat
      /\ Len(sq) \in Nat /\ sq \in Seq(Sqes)
  BY BatchFacts
<1>3. /\ pc = "handle" /\ Running /\ i' = i + 1 /\ nready' = nready /\ i < nready
      /\ Len(Unhandled) > 0 /\ 1 \in 1..Len(Unhandled) /\ Unhandled[1].event = "ACCEPT"
  BY HandlingEffect
<1>4. Count(sq, AcceptSqes) = 0
  BY <1>3, OneAccept
<1>5. \A k \in 1..Len(sq) : ~BadAt(k)
  BY <1>3, <1>4 DEF RoomInv, OneBadEntry
<1>6. Len(sq) + (nready - i) + 1 <= SqEntries
  BY <1>2, <1>3, <1>4 DEF RoomInv, RoomForBatch, Roomy
<1>7. /\ Weight(a, AcceptSqes) = 1 /\ Weight(r, AcceptSqes) = 0
      /\ <<a, r>> \in Seq(Sqes) /\ Len(<<a, r>>) = 2
      /\ Count(<<a, r>>, AcceptSqes) = Weight(a, AcceptSqes) + Weight(r, AcceptSqes)
  BY <1>1, SqeKinds, CountTwo DEF Weight
<1>8. /\ pc' = pc /\ sq' = sq \o <<a, r>>
      /\ Count(sq', AcceptSqes) = Count(sq, AcceptSqes) + Count(<<a, r>>, AcceptSqes)
  <2>1. Prepare(<<a, r>>) /\ ~(Len(sq) + Len(<<a, r>>) > SqEntries)
    BY <1>2, <1>3, <1>6, <1>7
  <2> DEFINE new == <<a, r>>
  <2>2. new \in Seq(Sqes) /\ Prepare(new)
    BY <1>7, <2>1
  <2> HIDE DEF new
  <2>3. \/ /\ pc' = pc /\ sq' = sq \o new
           /\ \A T : Count(sq', T) = Count(sq, T) + Count(new, T)
        \/ pc' = "nosqe" /\ sq' = sq /\ Len(sq) + Len(new) > SqEntries
    BY <1>2, <2>2, PrepareEffect
  <2> QED
    BY <2>1, <2>3 DEF new
<1>9. Count(sq', AcceptSqes) = 1
  BY <1>4, <1>7, <1>8
<1>10. /\ Len(sq') = Len(sq) + 2
       /\ \A k \in 1..Len(sq') :
            sq'[k] = IF k <= Len(sq) THEN sq[k] ELSE <<a, r>>[k - Len(sq)]
  BY <1>2, <1>7, <1>8, ConcatProperties
<1>11. /\ \A k \in 1..Len(sq) : sq'[k] = sq[k]
       /\ sq'[Len(sq) + 1] = a /\ sq'[Len(sq) + 2] = r
  BY <1>2, <1>10
<1>12. \A k \in 1..Len(sq') : BadAt(k)' => k = Len(sq') /\ sq'[k].event = "READ"
  BY <1>1, <1>2, <1>5, <1>10, <1>11, FdFacts DEF BadAt
<1> HIDE DEF a, r
<1>13. OneBadEntry'
  <2>1. \A k \in 1..Len(sq') : BadAt(k)' => Len(sq') - k + (nready' - i') < CqBatch
    BY <1>2, <1>3, <1>10, <1>12
  <2>2. pc' = "handle"
    BY <1>3, <1>8
  <2> QED
    BY <1>9, <1>12, <2>1, <2>2 DEF OneBadEntry
<1>14. RoomForBatch'
  BY <1>2, <1>3, <1>4, <1>8, <1>9, <1>10 DEF RoomInv, RoomForBatch
<1> QED
  BY <1>3, <1>8, <1>13, <1>14 DEF RoomInv

\* Handling another completion adds an entry at most.
LEMMA RoomTransfer ==
  ASSUME RingInv, RoomInv, Roomy, NEW event, Handling(event),
         NEW s \in Sqes, s.event # "ACCEPT", s.fd \in Fds, Prepare(<<s>>)
  PROVE  RoomInv' /\ pc' = "handle"
<1>1. /\ CqBatch \in Nat /\ nready \in 0..CqBatch /\ i \in 0..nready /\ SqEntries \in Nat
      /\ Len(sq) \in Nat /\ sq \in Seq(Sqes)
  BY BatchFacts
<1>2. /\ pc = "handle" /\ Running /\ i' = i + 1 /\ nready' = nready /\ i < nready
  BY HandlingEffect
<1>3. Count(sq, AcceptSqes) \in 0..1
  BY <1>2, OneAccept
<1>4. Len(sq) + (nready - i) + (1 - Count(sq, AcceptSqes)) <= SqEntries
  BY <1>1, <1>2, <1>3 DEF RoomInv, RoomForBatch, Roomy
<1>5. /\ <<s>> \in Seq(Sqes) /\ Len(<<s>>) = 1
      /\ Count(<<s>>, AcceptSqes) = 0
  <2>1. Weight(s, AcceptSqes) = 0
    BY SqeKinds DEF Weight
  <2>2. <<s>> \in Seq(Sqes) /\ Count(<<s>>, AcceptSqes) = Weight(s, AcceptSqes)
    BY CountOne
  <2> QED
    BY <2>1, <2>2
<1>6. /\ pc' = pc /\ sq' = sq \o <<s>>
      /\ Count(sq', AcceptSqes) = Count(sq, AcceptSqes) + Count(<<s>>, AcceptSqes)
  <2>1. ~(Len(sq) + Len(<<s>>) > SqEntries)
    BY <1>1, <1>2, <1>3, <1>4, <1>5
  <2> DEFINE new == <<s>>
  <2>2. new \in Seq(Sqes) /\ Prepare(new)
    BY <1>5
  <2> HIDE DEF new
  <2>3. \/ /\ pc' = pc /\ sq' = sq \o new
           /\ \A T : Count(sq', T) = Count(sq, T) + Count(new, T)
        \/ pc' = "nosqe" /\ sq' = sq /\ Len(sq) + Len(new) > SqEntries
    BY <1>1, <2>2, PrepareEffect
  <2> QED
    BY <2>1, <2>3 DEF new
<1>7. Count(sq', AcceptSqes) = Count(sq, AcceptSqes)
  BY <1>3, <1>5, <1>6
<1>8. /\ Len(sq') = Len(sq) + 1
      /\ \A k \in 1..Len(sq') :
           sq'[k] = IF k <= Len(sq) THEN sq[k] ELSE <<s>>[k - Len(sq)]
  BY <1>1, <1>5, <1>6, ConcatProperties
<1>9. (\A k \in 1..Len(sq) : sq'[k] = sq[k]) /\ sq'[Len(sq) + 1] = s
  BY <1>1, <1>8
<1>10. \A k \in 1..Len(sq') : BadAt(k)' => k \in 1..Len(sq) /\ BadAt(k) /\ sq'[k] = sq[k]
  BY <1>1, <1>8, <1>9, FdFacts DEF BadAt
<1>11. OneBadEntry'
  BY <1>1, <1>2, <1>6, <1>7, <1>8, <1>10 DEF RoomInv, OneBadEntry
<1>12. RoomForBatch'
  BY <1>1, <1>2, <1>3, <1>6, <1>7, <1>8 DEF RoomInv, RoomForBatch
<1> QED
  BY <1>2, <1>6, <1>11, <1>12 DEF RoomInv

LEMMA RoomNothing ==
  ASSUME RingInv, RoomInv, NEW event, Handling(event), UNCHANGED sq,
         pc' \in {pc, "crashed"}
  PROVE  RoomInv'
<1>1. /\ CqBatch \in Nat /\ nready \in 0..CqBatch /\ i \in 0..nready
      /\ Len(sq) \in Nat /\ Count(sq, AcceptSqes) \in Nat
  BY BatchFacts
<1>2. /\ pc = "handle" /\ i' = i + 1 /\ nready' = nready /\ i < nready
  BY HandlingEffect
<1>3. OneBadEntry'
  BY <1>1, <1>2 DEF RoomInv, OneBadEntry, BadAt
<1>4. RoomForBatch'
  BY <1>1, <1>2 DEF RoomInv, RoomForBatch
<1> QED
  BY <1>3, <1>4 DEF RoomInv

-----------------------------------------------------------------------------
(* Whose buffer is in use: bytes were read for fd and reported, or are to  *)
(* be sent.                                                                *)

Reported(fd, n) ==
  \E k \in 1..Len(Unhandled) :
    /\ Unhandled[k].event = "READ" /\ Unhandled[k].fd = fd
    /\ Unhandled[k].res = n /\ n > 0

Writing(fd, n) ==
  \/ \E k \in 1..Len(sq) : sq[k].event = "WRITE" /\ sq[k].fd = fd /\ sq[k].len = n
  \/ \E op \in flight : op.event = "WRITE" /\ op.fd = fd /\ op.len = n

\* The loop itself moves entries and completions on, and makes none of them.
LEMMA LoopMoves ==
  ASSUME RingInv, Loop
  PROVE  \A fd, n : /\ Writing(fd, n)' => Writing(fd, n)
                    /\ Reported(fd, n)' => Reported(fd, n)
<1>1. CASE Submitted \/ Peek \/ Advance
  BY <1>1, RoundEffect DEF Writing, Reported
<1>2. CASE Submit
  <2>1. /\ TakeEntry /\ UNCHANGED <<nready, i>> /\ sq \in Seq(Sqes)
    BY <1>2, CountsTyped DEF Submit, batchVars
  <2>2. /\ Head(sq) = sq[1] /\ 1 \in 1..Len(sq) /\ sq[1] \in Sqes
        /\ \A k \in 1..Len(sq') : k + 1 \in 1..Len(sq) /\ sq'[k] = sq[k + 1]
    BY <2>1, TakeEffect
  <2> DEFINE op == Op(sq[1])
  <2>3. op.event = sq[1].event /\ op.fd = sq[1].fd /\ op.len = sq[1].len
    BY DEF Op
  <2>4. CASE flight' = flight \cup {op} /\ UNCHANGED cq
    <3>1. Unhandled' = Unhandled
      BY <2>1, <2>4 DEF Unhandled
    <3> QED
      BY <2>2, <2>3, <2>4, <3>1 DEF Writing, Reported
  <2>5. CASE op.fd = BadFd /\ cq' = Append(cq, Cqe(op, -1)) /\ UNCHANGED flight
    <3>1. Cqe(op, -1) = [event |-> sq[1].event, fd |-> BadFd, conn |-> NoConn, res |-> -1]
      BY <2>3, <2>5, FdFacts DEF Op, Cqe
    <3>2. sq[1].event \in {"ACCEPT", "READ"}
      BY <2>2, <2>3, <2>5, SqeKinds, FdFacts
    <3>3. Cqe(op, -1) \in Cqes
      BY <3>1, <3>2 DEF Cqes, AcceptCqes, BadRecvCqes
    <3>4. \A k \in 1..Len(Unhandled') :
            \/ k \in 1..Len(Unhandled) /\ Unhandled'[k] = Unhandled[k]
            \/ Unhandled'[k].res = -1
      BY <2>1, <2>5, <3>1, <3>3, AppendEffect DEF batchVars
    <3>5. \A fd, n : Reported(fd, n)' => Reported(fd, n)
      BY <3>4 DEF Reported
    <3> QED
      BY <2>2, <2>5, <3>5 DEF Writing
  <2> QED
    BY <2>1, <2>2, <2>4, <2>5 DEF TakeEntry
<1> QED
  BY <1>1, <1>2 DEF Loop

\* Only an open descriptor's buffer is in use, and nothing else is under way
\* on it.
LEMMA InUse ==
  ASSUME RingInv, Running, NEW fd, NEW n, Writing(fd, n) \/ Reported(fd, n)
  PROVE  /\ fd \in OpenFds /\ n \in 1..BufferLength
         /\ \A op \in flight : op.fd = fd => Writing(fd, n) /\ op.event = "WRITE" /\ op.len = n
         /\ \A k \in 1..Len(Unhandled) :
              CarriesOn(Unhandled[k], fd) =>
                Reported(fd, n) /\ Unhandled[k].event = "READ" /\ Unhandled[k].res = n
<1>1. CASE \E k \in 1..Len(sq) : sq[k].event = "WRITE" /\ sq[k].fd = fd /\ sq[k].len = n
  <2>1. PICK k \in 1..Len(sq) : sq[k].event = "WRITE" /\ sq[k].fd = fd /\ sq[k].len = n
    BY <1>1
  <2>2. fd \in Fds /\ n \in 1..BufferLength
    BY <2>1, CountsTyped, ElementOfSeq, SqeKinds
  <2> QED
    BY <2>1, <2>2, Alone
<1>2. CASE \E op \in flight : op.event = "WRITE" /\ op.fd = fd /\ op.len = n
  <2>1. PICK op \in flight : op.event = "WRITE" /\ op.fd = fd /\ op.len = n
    BY <1>2
  <2>2. fd \in Fds /\ n \in 1..BufferLength /\ Writing(fd, n)
    BY <1>2, <2>1, CountsTyped, OpKinds DEF Writing
  <2> QED
    BY <2>1, <2>2, Alone
<1>3. CASE Reported(fd, n)
  <2>1. PICK k \in 1..Len(Unhandled) :
          /\ Unhandled[k].event = "READ" /\ Unhandled[k].fd = fd
          /\ Unhandled[k].res = n /\ n > 0
    BY <1>3 DEF Reported
  <2>2. fd \in Fds /\ n \in 1..BufferLength /\ CarriesOn(Unhandled[k], fd)
    BY <2>1, UnhandledElements, CqeKinds, FdFacts DEF CarriesOn
  <2> QED
    BY <1>3, <2>1, <2>2, Alone
<1> QED
  BY <1>1, <1>2, <1>3 DEF Writing

\* What is handled was in use and no longer is, unless a send is prepared.
LEMMA HandlingMoves ==
  ASSUME RingInv, NEW event, Handling(event), NEW sqes \in Seq(Sqes),
         Prepare(sqes) \/ UNCHANGED sq
  PROVE  \A fd, n :
           /\ Writing(fd, n)' =>
                \/ Writing(fd, n) /\ ~CarriesOn(cq[i + 1], fd)
                \/ \E k \in 1..Len(sqes) :
                     sqes[k].event = "WRITE" /\ sqes[k].fd = fd /\ sqes[k].len = n
           /\ Reported(fd, n)' => Reported(fd, n) /\ ~CarriesOn(cq[i + 1], fd)
<1>1. /\ Running /\ UNCHANGED flight /\ cq[i + 1] = Unhandled[1] /\ 1 \in 1..Len(Unhandled)
      /\ Len(Unhandled) \in Nat /\ Len(Unhandled') = Len(Unhandled) - 1
      /\ \A k \in 1..Len(Unhandled') :
           k + 1 \in 1..Len(Unhandled) /\ Unhandled'[k] = Unhandled[k + 1] /\ k + 1 # 1
  BY HandlingEffect
<1>2. \A k \in 1..Len(sq') :
        \/ \E j \in 1..Len(sq) : sq'[k] = sq[j]
        \/ \E j \in 1..Len(sqes) : sq'[k] = sqes[j]
  <2>1. sq \in Seq(Sqes) /\ Len(sq) \in Nat /\ Len(sqes) \in Nat
    BY CountsTyped, LenProperties
  <2>2. CASE sq' = sq \o sqes
    <3>1. /\ Len(sq') = Len(sq) + Len(sqes)
          /\ \A k \in 1..Len(sq') :
               sq'[k] = IF k <= Len(sq) THEN sq[k] ELSE sqes[k - Len(sq)]
      BY <2>1, <2>2, ConcatProperties
    <3> TAKE k \in 1..Len(sq')
    <3>2. CASE k <= Len(sq)
      BY <2>1, <3>1, <3>2
    <3>3. CASE ~(k <= Len(sq))
      <4>1. k - Len(sq) \in 1..Len(sqes) /\ sq'[k] = sqes[k - Len(sq)]
        BY <2>1, <3>1, <3>3
      <4> QED
        BY <4>1
    <3> QED
      BY <3>2, <3>3
  <2>3. CASE sq' = sq
    BY <2>3
  <2> QED
    BY <2>1, <2>2, <2>3, PrepareEffect
<1> TAKE fd, n
<1>3. Writing(fd, n) => ~CarriesOn(cq[i + 1], fd)
  <2> SUFFICES ASSUME Writing(fd, n), CarriesOn(Unhandled[1], fd)
               PROVE  FALSE
    BY <1>1
  <2>1. fd \in Fds
    BY <1>1, InUse DEF OpenFds
  <2>2. /\ \A j \in 1..Len(sq) : sq[j].fd # fd
        /\ \A op \in flight : op.fd # fd
    BY <1>1, <2>1, Alone
  <2> QED
    BY <2>2 DEF Writing
<1>4. Writing(fd, n)' =>
        \/ Writing(fd, n)
        \/ \E k \in 1..Len(sqes) :
             sqes[k].event = "WRITE" /\ sqes[k].fd = fd /\ sqes[k].len = n
  BY <1>1, <1>2 DEF Writing
<1>5. Reported(fd, n)' => Reported(fd, n) /\ ~CarriesOn(cq[i + 1], fd)
  <2> SUFFICES ASSUME Reported(fd, n)'
               PROVE  Reported(fd, n) /\ ~CarriesOn(Unhandled[1], fd)
    BY <1>1
  <2>1. PICK k \in 1..Len(Unhandled') :
          /\ Unhandled'[k].event = "READ" /\ Unhandled'[k].fd = fd
          /\ Unhandled'[k].res = n /\ n > 0
    BY DEF Reported
  <2>2. /\ k + 1 \in 1..Len(Unhandled) /\ k + 1 # 1
        /\ Unhandled[k + 1].event = "READ" /\ Unhandled[k + 1].fd = fd
        /\ Unhandled[k + 1].res = n
    BY <1>1, <2>1
  <2>3. Reported(fd, n) /\ CarriesOn(Unhandled[k + 1], fd)
    BY <2>1, <2>2 DEF Reported, CarriesOn
  <2>4. fd \in Fds
    BY <1>1, <2>3, InUse DEF OpenFds
  <2> QED
    BY <1>1, <2>2, <2>3, <2>4, Alone
<1> QED
  BY <1>3, <1>4, <1>5

\* A completed send no longer is in use; a completed recv may be.
LEMMA CompleteMoves ==
  ASSUME RingInv, Running, NEW op \in flight, NEW res, Cqe(op, res) \in Cqes,
         Complete(op, res), UNCHANGED <<sq, batchVars>>
  PROVE  \A fd, n :
           /\ Writing(fd, n)' => Writing(fd, n) /\ op.fd # fd
           /\ Reported(fd, n)' =>
                \/ Reported(fd, n) /\ op.fd # fd
                \/ op.event = "READ" /\ op.fd = fd /\ n = res /\ n > 0
<1>1. /\ flight' = flight \ {op}
      /\ Len(Unhandled) \in Nat /\ Len(Unhandled') = Len(Unhandled) + 1
      /\ \A k \in 1..Len(Unhandled') :
           Unhandled'[k] = IF k = Len(Unhandled) + 1 THEN Cqe(op, res) ELSE Unhandled[k]
  BY CompleteEffect
<1>2. Cqe(op, res).event = op.event /\ Cqe(op, res).fd = op.fd /\ Cqe(op, res).res = res
  BY DEF Cqe
<1> TAKE fd, n
<1>3. Reported(fd, n) => op.fd # fd
  <2> SUFFICES ASSUME Reported(fd, n), op.fd = fd
               PROVE  FALSE
    OBVIOUS
  <2>1. fd \in Fds
    BY InUse DEF OpenFds
  <2>2. PICK k \in 1..Len(Unhandled) : Unhandled[k].event = "READ" /\ Unhandled[k].fd = fd
    BY DEF Reported
  <2> QED
    BY <2>1, <2>2, Alone DEF CarriesOn
<1>4. Reported(fd, n)' =>
        \/ Reported(fd, n)
        \/ op.event = "READ" /\ op.fd = fd /\ n = res /\ n > 0
  BY <1>1, <1>2 DEF Reported
<1>5. Writing(fd, n)' => Writing(fd, n) /\ op.fd # fd
  <2> SUFFICES ASSUME Writing(fd, n)'
               PROVE  Writing(fd, n) /\ op.fd # fd
    OBVIOUS
  <2>1. Writing(fd, n)
    BY <1>1 DEF Writing
  <2>2. fd \in Fds
    BY <2>1, InUse DEF OpenFds
  <2> QED
    BY <1>1, <2>1, <2>2, Alone DEF Writing
<1> QED
  BY <1>3, <1>4, <1>5

\* Whose descriptor an operation is on, and that no other descriptor is.
LEMMA OpOwner ==
  ASSUME RingInv, NEW op \in flight, op.event # "ACCEPT"
  PROVE  /\ op.fd \in Fds /\ op.conn \in Conns /\ op.conn = fdtab[op.fd]
         /\ op.event = "READ" => op.len = BufferLength
         /\ op.event = "WRITE" => op.len \in 1..BufferLength
         /\ \A g \in OpenFds : g # op.fd => fdtab[g] # op.conn
<1>1. /\ op.fd \in Fds /\ op.conn \in Conns
      /\ op.event = "READ" => op.len = BufferLength
      /\ op.event = "WRITE" => op.len \in 1..BufferLength
  BY OpKinds DEF RingInv, UringTypeOK
<1>2. op.conn = fdtab[op.fd] /\ op.fd \in OpenFds
  BY <1>1, FdFacts DEF RingInv, CompletionsFresh, OpenFds
<1>3. \A g \in OpenFds : g # op.fd => fdtab[g] # op.conn
  BY <1>2 DEF RingInv, Ownership
<1> QED
  BY <1>1, <1>2, <1>3

-----------------------------------------------------------------------------
(* Where each conversation stands, step by step. *)

LEMMA OwesMeaning ==
  \A fd : /\ Owes(fd) <=> \E n : Writing(fd, n) \/ Reported(fd, n)
          /\ Owes(fd)' <=> \E n : Writing(fd, n)' \/ Reported(fd, n)'
<1>1. \A fd : Owes(fd) <=> \E n : Writing(fd, n) \/ Reported(fd, n)
  BY DEF Owes, Answering, Writing, Reported
<1>2. \A fd : Owes(fd)' <=> \E n : Writing(fd, n)' \/ Reported(fd, n)'
  BY DEF Owes, Answering, Writing, Reported
<1> QED
  BY <1>1, <1>2

SameStance(fd) == Owes(fd)' <=> Owes(fd)

LEMMA PhaseStays ==
  ASSUME NEW c \in Conns, FdsOf(c)' = FdsOf(c), c \in done' <=> c \in done,
         \A fd \in FdsOf(c) : SameStance(fd)
  PROVE  Phase(c)' = Phase(c)
BY DEF Phase, SameStance

\* An open descriptor belongs to one connection, which has no other.
LEMMA PhaseAt ==
  ASSUME RingInv, NEW fd \in OpenFds, NEW c, c = fdtab[fd]
  PROVE  /\ fd \in Fds /\ c \in Conns /\ c \notin done /\ FdsOf(c) = {fd}
         /\ Phase(c) = IF Owes(fd) THEN "answering" ELSE "listening"
         /\ \A d \in Conns : d # c => fd \notin FdsOf(d)
<1>1. fd \in Fds /\ c \in Conns
  BY DEF OpenFds, RingInv, TcpTypeOK
<1>2. \A g \in Fds : fdtab[g] = c => g \in OpenFds
  BY <1>1, TcpAssumption DEF OpenFds, TcpAssumption
<1>3. c \notin done /\ FdsOf(c) = {fd}
  BY <1>1, <1>2 DEF RingInv, Ownership, FdsOf
<1>4. Phase(c) = IF Owes(fd) THEN "answering" ELSE "listening"
  BY <1>3 DEF Phase
<1>5. \A d \in Conns : d # c => fd \notin FdsOf(d)
  BY DEF FdsOf
<1> QED
  BY <1>1, <1>3, <1>4, <1>5

\* Nothing changes when no open descriptor's stance does.
LEMMA PhasesStay ==
  ASSUME UNCHANGED <<fdtab, done>>, \A fd \in OpenFds : SameStance(fd)
  PROVE  \A c \in Conns : Phase(c)' = Phase(c)
<1>1. \A c \in Conns : FdsOf(c)' = FdsOf(c) /\ FdsOf(c) \subseteq OpenFds
  BY TcpAssumption DEF FdsOf, OpenFds, TcpAssumption
<1> QED
  BY <1>1, PhaseStays

\* One conversation moves on and the others stay where they are.
MovesOn(c, from, to) ==
  /\ Phase(c) = from /\ Phase(c)' = to
  /\ \A d \in Conns : d # c => Phase(d)' = Phase(d)

LEMMA StanceMoves ==
  ASSUME RingInv, UNCHANGED <<fdtab, done>>, NEW fd \in OpenFds, NEW c, c = fdtab[fd],
         \A g \in OpenFds : g # fd => SameStance(g)
  PROVE  /\ Phase(c) = IF Owes(fd) THEN "answering" ELSE "listening"
         /\ Phase(c)' = IF Owes(fd)' THEN "answering" ELSE "listening"
         /\ \A d \in Conns : d # c => Phase(d)' = Phase(d)
<1>1. /\ c \in Conns /\ c \notin done /\ FdsOf(c) = {fd}
      /\ Phase(c) = IF Owes(fd) THEN "answering" ELSE "listening"
      /\ \A d \in Conns : d # c => fd \notin FdsOf(d)
  BY PhaseAt
<1>2. \A d \in Conns : FdsOf(d)' = FdsOf(d) /\ FdsOf(d) \subseteq OpenFds
  BY TcpAssumption DEF FdsOf, OpenFds, TcpAssumption
<1>3. c \notin done' /\ FdsOf(c)' = {fd}
  BY <1>1, <1>2
<1>4. Phase(c)' = IF Owes(fd)' THEN "answering" ELSE "listening"
  BY <1>3 DEF Phase
<1>5. \A d \in Conns : d # c => Phase(d)' = Phase(d)
  BY <1>1, <1>2, PhaseStays
<1> QED
  BY <1>1, <1>4, <1>5

LEMMA LoopPhase ==
  ASSUME RingInv, Loop
  PROVE  \A c \in Conns : Phase(c)' = Phase(c)
<1>1. UNCHANGED <<fdtab, done>>
  BY DEF Loop, Submit, Submitted, Peek, Advance, tcpVars
<1>2. CASE Submitted \/ Peek \/ Advance
  <2>1. \A fd : SameStance(fd)
    BY <1>2, RoundEffect DEF SameStance, Owes, Answering
  <2> QED
    BY <1>1, <2>1, PhasesStay
<1>3. CASE Submit
  <2>1. TakeEntry /\ UNCHANGED <<nready, i>> /\ sq \in Seq(Sqes)
    BY <1>3, CountsTyped DEF Submit, batchVars
  <2>2. /\ Head(sq) = sq[1] /\ 1 \in 1..Len(sq) /\ sq[1] \in Sqes
        /\ Len(sq) \in Nat /\ Len(sq') = Len(sq) - 1
        /\ \A k \in 1..Len(sq') : k + 1 \in 1..Len(sq) /\ sq'[k] = sq[k + 1]
    BY <2>1, TakeEffect
  <2>3. \A k \in 1..Len(sq) : k = 1 \/ (k - 1 \in 1..Len(sq') /\ sq'[k - 1] = sq[k])
    <3> TAKE k \in 1..Len(sq)
    <3>1. CASE k # 1
      <4>1. k - 1 \in 1..Len(sq') /\ (k - 1) + 1 = k
        BY <2>2, <3>1
      <4> QED
        BY <2>2, <4>1
    <3> QED
      BY <3>1
  <2> DEFINE op == Op(sq[1])
  <2>4. op.event = sq[1].event /\ op.fd = sq[1].fd /\ op.len = sq[1].len
    BY DEF Op
  <2>5. ASSUME flight' = flight \cup {op}, NEW fd, NEW n, Writing(fd, n)
        PROVE  Writing(fd, n)'
    BY <2>2, <2>3, <2>4, <2>5 DEF Writing
  <2>6. ASSUME op.fd = BadFd, flight' = flight, NEW fd, NEW n, Writing(fd, n)
        PROVE  Writing(fd, n)'
    <3>1. sq[1].event # "WRITE"
      BY <2>2, <2>4, <2>6, SqeKinds, FdFacts
    <3> QED
      BY <2>3, <2>6, <3>1 DEF Writing
  <2>7. \A fd, n : Writing(fd, n) => Writing(fd, n)'
    BY <2>1, <2>2, <2>5, <2>6 DEF TakeEntry
  <2>8. \A k \in 1..Len(Unhandled) : k \in 1..Len(Unhandled') /\ Unhandled'[k] = Unhandled[k]
    <3>1. CASE UNCHANGED cq
      <4>1. Unhandled' = Unhandled
        BY <2>1, <3>1 DEF Unhandled
      <4> QED
        BY <4>1
    <3>2. CASE op.fd = BadFd /\ cq' = Append(cq, Cqe(op, -1))
      <4>1. Cqe(op, -1) = [event |-> sq[1].event, fd |-> BadFd, conn |-> NoConn, res |-> -1]
        BY <2>4, <3>2, FdFacts DEF Op, Cqe
      <4>2. sq[1].event \in {"ACCEPT", "READ"}
        BY <2>2, <2>4, <3>2, SqeKinds, FdFacts
      <4>3. Cqe(op, -1) \in Cqes
        BY <4>1, <4>2 DEF Cqes, AcceptCqes, BadRecvCqes
      <4> HIDE DEF op
      <4>4. /\ Len(Unhandled) \in Nat /\ Len(Unhandled') = Len(Unhandled) + 1
            /\ \A k \in 1..Len(Unhandled') :
                 Unhandled'[k] = IF k = Len(Unhandled) + 1 THEN Cqe(op, -1) ELSE Unhandled[k]
        BY <2>1, <3>2, <4>3, AppendEffect DEF batchVars
      <4> QED
        BY <4>4
    <3> QED
      BY <2>1, <2>2, <3>1, <3>2 DEF TakeEntry
  <2>9. \A fd, n : Reported(fd, n) => Reported(fd, n)'
    BY <2>8 DEF Reported
  <2>10. \A fd : SameStance(fd)
    BY <1>3, <2>7, <2>9, LoopMoves, OwesMeaning DEF Loop, SameStance
  <2> QED
    BY <1>1, <2>10, PhasesStay
<1> QED
  BY <1>2, <1>3 DEF Loop

\* What is prepared and reported stays so while other completions are handled.
LEMMA HandlingKeeps ==
  ASSUME RingInv, NEW event, Handling(event), NEW sqes \in Seq(Sqes),
         Prepare(sqes) \/ UNCHANGED sq
  PROVE  \A fd, n :
           /\ Writing(fd, n) => Writing(fd, n)'
           /\ Reported(fd, n) /\ ~CarriesOn(cq[i + 1], fd) => Reported(fd, n)'
<1>1. /\ UNCHANGED flight /\ cq[i + 1] = Unhandled[1]
      /\ Len(Unhandled) \in Nat /\ Len(Unhandled') = Len(Unhandled) - 1
      /\ \A k \in 1..Len(Unhandled') : Unhandled'[k] = Unhandled[k + 1]
  BY HandlingEffect
<1>2. \A k \in 1..Len(sq) : k \in 1..Len(sq') /\ sq'[k] = sq[k]
  <2>1. sq \in Seq(Sqes) /\ Len(sq) \in Nat /\ Len(sqes) \in Nat
    BY CountsTyped, LenProperties
  <2>2. CASE sq' = sq \o sqes
    <3>1. /\ Len(sq') = Len(sq) + Len(sqes)
          /\ \A k \in 1..Len(sq') :
               sq'[k] = IF k <= Len(sq) THEN sq[k] ELSE sqes[k - Len(sq)]
      BY <2>1, <2>2, ConcatProperties
    <3> QED
      BY <2>1, <3>1
  <2>3. CASE sq' = sq
    BY <2>3
  <2> QED
    BY <2>1, <2>2, <2>3, PrepareEffect
<1>3. \A fd, n : Writing(fd, n) => Writing(fd, n)'
  BY <1>1, <1>2 DEF Writing
<1>4. ASSUME NEW fd, NEW n, Reported(fd, n), ~CarriesOn(cq[i + 1], fd)
      PROVE  Reported(fd, n)'
  <2>1. PICK k \in 1..Len(Unhandled) :
          /\ Unhandled[k].event = "READ" /\ Unhandled[k].fd = fd
          /\ Unhandled[k].res = n /\ n > 0
    BY <1>4 DEF Reported
  <2>2. k # 1
    BY <1>1, <1>4, <2>1 DEF CarriesOn
  <2>3. k - 1 \in 1..Len(Unhandled') /\ (k - 1) + 1 = k
    BY <1>1, <2>2
  <2>4. Unhandled'[k - 1] = Unhandled[k]
    BY <1>1, <2>3
  <2> QED
    BY <2>1, <2>3, <2>4 DEF Reported
<1> QED
  BY <1>3, <1>4

\* What is handled without an answer leaves every conversation where it is.
LEMMA HandlingPhase ==
  ASSUME RingInv, NEW event, Handling(event), NEW sqes \in Seq(Sqes),
         Prepare(sqes) \/ UNCHANGED sq, UNCHANGED <<fdtab, done>>,
         \A k \in 1..Len(sqes) : sqes[k].event # "WRITE",
         event = "READ" => ~(cq[i + 1].res > 0)
  PROVE  \A c \in Conns : Phase(c)' = Phase(c)
<1>1. /\ Running /\ cq[i + 1] = Unhandled[1] /\ Unhandled[1].event = event
      /\ 1 \in 1..Len(Unhandled)
  BY HandlingEffect
<1>2. ASSUME NEW fd, NEW n, Reported(fd, n)
      PROVE  ~CarriesOn(cq[i + 1], fd)
  <2> SUFFICES ASSUME CarriesOn(Unhandled[1], fd)
               PROVE  FALSE
    BY <1>1
  <2>1. Unhandled[1].event = "READ" /\ Unhandled[1].res = n /\ n \in 1..BufferLength
    BY <1>1, <1>2, InUse
  <2> QED
    BY <1>1, <2>1, FdFacts
<1>3. \A fd, n : /\ Writing(fd, n) => Writing(fd, n)'
                 /\ Reported(fd, n) => Reported(fd, n)'
  BY <1>2, HandlingKeeps
<1>4. \A fd, n : /\ Writing(fd, n)' => Writing(fd, n)
                 /\ Reported(fd, n)' => Reported(fd, n)
  BY HandlingMoves
<1>5. \A fd : SameStance(fd)
  BY <1>3, <1>4, OwesMeaning DEF SameStance
<1> QED
  BY <1>5, PhasesStay

\* The answer to what was read is being prepared: nothing has been said yet.
LEMMA ReadPhase ==
  ASSUME RingInv, Handling("READ"), cq[i + 1].res > 0, cq[i + 1].fd \in Fds,
         NEW s \in Sqes, s.event = "WRITE", s.fd = cq[i + 1].fd,
         Prepare(<<s>>), pc' # "nosqe", UNCHANGED <<fdtab, done>>
  PROVE  \A c \in Conns : Phase(c)' = Phase(c)
<1>1. PICK fd, ret : fd \in Fds /\ fd = cq[i + 1].fd /\ ret = cq[i + 1].res
  OBVIOUS
<1> DEFINE new == <<s>>
<1>2. Prepare(new)
  OBVIOUS
<1>3. new \in Seq(Sqes) /\ Len(new) = 1 /\ new[1] = s /\ \A k \in 1..Len(new) : new[k] = s
  OBVIOUS
<1> HIDE DEF new
<1>4. /\ cq[i + 1] = Unhandled[1] /\ Unhandled[1].event = "READ"
      /\ 1 \in 1..Len(Unhandled)
  BY HandlingEffect
<1>5. Reported(fd, ret)
  BY <1>1, <1>4 DEF Reported
<1>6. \A g : CarriesOn(cq[i + 1], g) <=> g = fd
  BY <1>1, <1>4 DEF CarriesOn
<1>7. Writing(fd, s.len)'
  <2>1. sq \in Seq(Sqes) /\ Len(sq) \in Nat
    BY CountsTyped, LenProperties
  <2>2. sq' = sq \o new
    BY <1>2 DEF Prepare, Queue
  <2>3. /\ Len(sq') = Len(sq) + Len(new)
        /\ \A k \in 1..Len(sq') :
             sq'[k] = IF k <= Len(sq) THEN sq[k] ELSE new[k - Len(sq)]
    <3>1. new \in Seq(Sqes)
      BY <1>3
    <3>2. /\ Len(sq \o new) = Len(sq) + Len(new)
          /\ \A k \in 1..(Len(sq) + Len(new)) :
               (sq \o new)[k] = IF k <= Len(sq) THEN sq[k] ELSE new[k - Len(sq)]
      BY <2>1, <3>1, ConcatProperties
    <3> QED
      BY <2>2, <3>2
  <2>4. Len(sq) + 1 \in 1..Len(sq') /\ sq'[Len(sq) + 1] = s
    BY <1>3, <2>1, <2>3
  <2> QED
    BY <1>1, <2>4 DEF Writing
<1>8. \A g, n : g # fd => /\ Writing(g, n) => Writing(g, n)'
                          /\ Reported(g, n) => Reported(g, n)'
  BY <1>2, <1>3, <1>6, HandlingKeeps
<1>9. \A g, n : g # fd => /\ Writing(g, n)' => Writing(g, n)
                          /\ Reported(g, n)' => Reported(g, n)
  BY <1>1, <1>2, <1>3, HandlingMoves
<1>10. \A g : g # fd => SameStance(g)
  BY <1>8, <1>9, OwesMeaning DEF SameStance
<1>11. SameStance(fd)
  BY <1>5, <1>7, OwesMeaning DEF SameStance
<1> QED
  BY <1>10, <1>11, PhasesStay

\* The server leaves a client that it listens to.
LEMMA ClosePhase ==
  ASSUME RingInv, Handling("READ"), cq[i + 1].res = 0, NEW fd, fd = cq[i + 1].fd,
         fd \in Fds, CloseFd(fd), UNCHANGED sq
  PROVE  \E c \in Conns : MovesOn(c, "listening", "over") /\ done' = done \cup {c}
<1>1. /\ Running /\ cq[i + 1] = Unhandled[1] /\ Unhandled[1].event = "READ"
      /\ 1 \in 1..Len(Unhandled)
  BY HandlingEffect
<1>2. CarriesOn(Unhandled[1], fd)
  BY <1>1 DEF CarriesOn
<1>3. fd \in OpenFds
  BY <1>1, <1>2, Alone
<1>4. PICK c : c = fdtab[fd]
  OBVIOUS
<1>5. /\ c \in Conns /\ c \notin done
      /\ Phase(c) = IF Owes(fd) THEN "answering" ELSE "listening"
      /\ \A d \in Conns : d # c => fd \notin FdsOf(d)
  BY <1>3, <1>4, PhaseAt
<1>6. ~Owes(fd)
  <2>1. \A n : ~(Writing(fd, n) \/ Reported(fd, n))
    <3> SUFFICES ASSUME NEW n, Writing(fd, n) \/ Reported(fd, n)
                 PROVE  FALSE
      OBVIOUS
    <3>1. Unhandled[1].res = n /\ n \in 1..BufferLength
      BY <1>1, <1>2, InUse
    <3> QED
      BY <1>1, <3>1, FdFacts
  <2> QED
    BY <2>1, OwesMeaning
<1>7. done' = done \cup {c} /\ fdtab' = [fdtab EXCEPT ![fd] = NoConn]
  BY <1>4, <1>5, TcpAssumption DEF CloseFd, TcpAssumption
<1>8. Phase(c)' = "over"
  BY <1>7 DEF Phase
<1>9. <<>> \in Seq(Sqes) /\ \A k \in 1..Len(<<>>) : FALSE
  BY EmptySeq
<1>10. \A g, n : g # fd => /\ Writing(g, n) <=> Writing(g, n)'
                           /\ Reported(g, n) <=> Reported(g, n)'
  <2>1. \A g : g # fd => ~CarriesOn(cq[i + 1], g)
    BY <1>1 DEF CarriesOn
  <2>2. \A g, n : g # fd => /\ Writing(g, n) => Writing(g, n)'
                            /\ Reported(g, n) => Reported(g, n)'
    BY <1>9, <2>1, HandlingKeeps
  <2>3. \A g, n : /\ Writing(g, n)' => Writing(g, n)
                  /\ Reported(g, n)' => Reported(g, n)
    BY <1>9, HandlingMoves
  <2> QED
    BY <2>2, <2>3
<1>11. \A g : g # fd => SameStance(g)
  BY <1>10, OwesMeaning DEF SameStance
<1>12. \A d \in Conns : d # c => FdsOf(d)' = FdsOf(d)
  <2>1. \A g \in Fds : g # fd => fdtab'[g] = fdtab[g]
    BY <1>7 DEF RingInv, TcpTypeOK
  <2>2. fdtab'[fd] = NoConn
    BY <1>7 DEF RingInv, TcpTypeOK
  <2> QED
    BY <1>4, <2>1, <2>2, TcpAssumption DEF FdsOf, TcpAssumption
<1>13. \A d \in Conns : d # c => Phase(d)' = Phase(d)
  BY <1>5, <1>7, <1>11, <1>12, PhaseStays
<1> QED
  BY <1>5, <1>6, <1>7, <1>8, <1>13 DEF MovesOn

\* What is under way stays so while another operation completes.
LEMMA CompleteKeeps ==
  ASSUME RingInv, Running, NEW op \in flight, NEW res, Cqe(op, res) \in Cqes,
         Complete(op, res), UNCHANGED <<sq, batchVars>>
  PROVE  /\ \A fd, n : /\ Writing(fd, n) /\ op.fd # fd => Writing(fd, n)'
                       /\ Reported(fd, n) => Reported(fd, n)'
         /\ op.event = "READ" /\ res > 0 => Reported(op.fd, res)'
<1>1. /\ flight' = flight \ {op}
      /\ Len(Unhandled) \in Nat /\ Len(Unhandled') = Len(Unhandled) + 1
      /\ \A k \in 1..Len(Unhandled') :
           Unhandled'[k] = IF k = Len(Unhandled) + 1 THEN Cqe(op, res) ELSE Unhandled[k]
  BY CompleteEffect
<1>2. Cqe(op, res).event = op.event /\ Cqe(op, res).fd = op.fd /\ Cqe(op, res).res = res
  BY DEF Cqe
<1>3. \A k \in 1..Len(Unhandled) : k \in 1..Len(Unhandled') /\ Unhandled'[k] = Unhandled[k]
  BY <1>1
<1>4. \A fd, n : Reported(fd, n) => Reported(fd, n)'
  BY <1>3 DEF Reported
<1>5. \A fd, n : Writing(fd, n) /\ op.fd # fd => Writing(fd, n)'
  BY <1>1 DEF Writing
<1>6. op.event = "READ" /\ res > 0 => Reported(op.fd, res)'
  <2>1. Len(Unhandled') \in 1..Len(Unhandled') /\ Unhandled'[Len(Unhandled')] = Cqe(op, res)
    BY <1>1
  <2> QED
    BY <1>2, <2>1 DEF Reported
<1> QED
  BY <1>4, <1>5, <1>6

\* accept admits the client that has waited longest.
LEMMA AcceptPhase ==
  ASSUME RingInv, Running, NEW op \in flight, op.event = "ACCEPT", NEW fd \in Fds,
         AcceptConn(fd), Complete(op, fd), UNCHANGED <<sq, batchVars, done>>
  PROVE  \E c \in Conns : MovesOn(c, "waiting", "listening") /\ c \notin done
<1>1. TcpTypeOK /\ backlog \in Seq(Conns) /\ backlog # <<>>
  BY DEF RingInv, TcpTypeOK, AcceptConn
<1>2. Head(backlog) \in Conns /\ Head(backlog) = backlog[1] /\ 1 \in 1..Len(backlog)
  BY <1>1, TailElements
<1>3. PICK c \in Conns : c = Head(backlog) /\ c = backlog[1]
  BY <1>2
<1>4. c \notin done /\ FdsOf(c) = {}
  BY <1>2, <1>3 DEF RingInv, Ownership, FdsOf
<1>5. /\ fdtab[fd] = NoConn /\ fdtab'[fd] = c /\ fd \notin OpenFds
      /\ \A g \in Fds : g # fd => fdtab'[g] = fdtab[g]
  BY <1>1, <1>3 DEF AcceptConn, FreeFds, TcpTypeOK, OpenFds
<1>6. FdsOf(c)' = {fd}
  BY <1>4, <1>5 DEF FdsOf
<1>7. \A d \in Conns : d # c => FdsOf(d)' = FdsOf(d) /\ FdsOf(d) \subseteq OpenFds
  BY <1>5, TcpAssumption DEF FdsOf, OpenFds, TcpAssumption
<1>8. Cqe(op, fd) \in Cqes
  BY CompletedKinds DEF RingInv, UringTypeOK
<1>9. \A g, n : /\ Writing(g, n)' => Writing(g, n)
                /\ Reported(g, n)' => Reported(g, n)
  BY <1>8, CompleteMoves
<1>10. op.fd = ListenFd
  BY OpKinds DEF RingInv, UringTypeOK
<1>11. \A g \in Fds : \A n : /\ Writing(g, n) => Writing(g, n)'
                             /\ Reported(g, n) => Reported(g, n)'
  BY <1>8, <1>10, CompleteKeeps, FdFacts
<1>12. \A g \in Fds : SameStance(g)
  <2> TAKE g \in Fds
  <2>1. \A n : Writing(g, n)' => Writing(g, n)
    BY <1>9
  <2>2. \A n : Reported(g, n)' => Reported(g, n)
    BY <1>9
  <2>3. \A n : Writing(g, n) => Writing(g, n)'
    BY <1>11
  <2>4. \A n : Reported(g, n) => Reported(g, n)'
    BY <1>11
  <2> QED
    BY <2>1, <2>2, <2>3, <2>4, OwesMeaning DEF SameStance
<1>13. ~Owes(fd)'
  BY <1>5, <1>9, InUse, OwesMeaning
<1>14. Phase(c) = "waiting"
  BY <1>4 DEF Phase
<1>15. Phase(c)' = "listening"
  BY <1>4, <1>6, <1>13 DEF Phase
<1>16. \A d \in Conns : d # c => Phase(d)' = Phase(d)
  <2>1. \A d \in Conns : FdsOf(d) \subseteq Fds
    BY DEF FdsOf
  <2> QED
    BY <1>7, <1>12, <2>1, PhaseStays
<1> QED
  BY <1>4, <1>14, <1>15, <1>16 DEF MovesOn

\* An accept that fails changes nothing for those who are not closed by it.
LEMMA AcceptFailedPhase ==
  ASSUME RingInv, Running, NEW op \in flight, op.event = "ACCEPT", Complete(op, -1),
         UNCHANGED <<sq, batchVars, fdtab>>
  PROVE  \A c \in Conns : (c \in done' <=> c \in done) => Phase(c)' = Phase(c)
<1>1. Cqe(op, -1) \in Cqes
  BY CompletedKinds DEF RingInv, UringTypeOK
<1>2. \A g, n : /\ Writing(g, n)' => Writing(g, n)
                /\ Reported(g, n)' => Reported(g, n)
  BY <1>1, CompleteMoves
<1>3. op.fd = ListenFd
  BY OpKinds DEF RingInv, UringTypeOK
<1>4. \A g \in Fds : \A n : /\ Writing(g, n) => Writing(g, n)'
                            /\ Reported(g, n) => Reported(g, n)'
  BY <1>1, <1>3, CompleteKeeps, FdFacts
<1>5. \A g \in Fds : SameStance(g)
  <2> TAKE g \in Fds
  <2>1. \A n : Writing(g, n)' => Writing(g, n)
    BY <1>2
  <2>2. \A n : Reported(g, n)' => Reported(g, n)
    BY <1>2
  <2>3. \A n : Writing(g, n) => Writing(g, n)'
    BY <1>4
  <2>4. \A n : Reported(g, n) => Reported(g, n)'
    BY <1>4
  <2> QED
    BY <2>1, <2>2, <2>3, <2>4, OwesMeaning DEF SameStance
<1>6. \A c \in Conns : FdsOf(c)' = FdsOf(c) /\ FdsOf(c) \subseteq Fds
  BY DEF FdsOf
<1> QED
  BY <1>5, <1>6, PhaseStays

\* A recv with data ends the listening, a send the answering.
LEMMA TransferPhase ==
  ASSUME RingInv, Running, NEW op \in flight, op.event # "ACCEPT",
         NEW res \in -1..BufferLength, Complete(op, res),
         UNCHANGED <<fdtab, done, sq, batchVars>>
  PROVE  /\ op.event = "WRITE" => MovesOn(op.conn, "answering", "listening")
         /\ op.event = "READ" /\ res > 0 => MovesOn(op.conn, "listening", "answering")
         /\ op.event = "READ" /\ ~(res > 0) => \A c \in Conns : Phase(c)' = Phase(c)
<1>1. PICK fd \in Fds, c \in Conns : fd = op.fd /\ c = op.conn /\ c = fdtab[fd]
  BY OpOwner
<1>2. fd \in OpenFds
  BY <1>1, TcpAssumption DEF OpenFds, TcpAssumption
<1>3. Cqe(op, res) \in Cqes
  BY CompletedKinds DEF RingInv, UringTypeOK
<1>4. \A g, n : g # fd => /\ Writing(g, n)' <=> Writing(g, n)
                          /\ Reported(g, n)' <=> Reported(g, n)
  <2>1. \A g, n : g # fd => /\ Writing(g, n)' => Writing(g, n)
                            /\ Reported(g, n)' => Reported(g, n)
    BY <1>1, <1>3, CompleteMoves
  <2>2. \A g, n : g # fd => /\ Writing(g, n) => Writing(g, n)'
                            /\ Reported(g, n) => Reported(g, n)'
    BY <1>1, <1>3, CompleteKeeps
  <2> QED
    BY <2>1, <2>2
<1>5. \A g : g # fd => SameStance(g)
  BY <1>4, OwesMeaning DEF SameStance
<1>6. /\ Phase(c) = IF Owes(fd) THEN "answering" ELSE "listening"
      /\ Phase(c)' = IF Owes(fd)' THEN "answering" ELSE "listening"
      /\ \A d \in Conns : d # c => Phase(d)' = Phase(d)
  BY <1>1, <1>2, <1>5, StanceMoves
<1>7. \A n : /\ ~Writing(fd, n)'
             /\ Reported(fd, n)' => op.event = "READ" /\ n = res /\ n > 0
  BY <1>1, <1>3, CompleteMoves
<1>8. CASE op.event = "WRITE"
  <2>1. Writing(fd, op.len)
    BY <1>1, <1>8 DEF Writing
  <2>2. Owes(fd) /\ ~Owes(fd)'
    BY <1>7, <1>8, <2>1, OwesMeaning
  <2> QED
    BY <1>1, <1>6, <1>8, <2>2 DEF MovesOn
<1>9. CASE op.event = "READ"
  <2>1. \A n : ~(Writing(fd, n) \/ Reported(fd, n))
    BY <1>1, <1>9, InUse
  <2>2. ~Owes(fd)
    BY <2>1, OwesMeaning
  <2>3. CASE res > 0
    <3>1. Reported(fd, res)'
      BY <1>1, <1>3, <1>9, <2>3, CompleteKeeps
    <3>2. Owes(fd)'
      BY <3>1, OwesMeaning
    <3> QED
      BY <1>1, <1>6, <1>9, <2>2, <2>3, <3>2 DEF MovesOn
  <2>4. CASE ~(res > 0)
    <3>1. ~Owes(fd)'
      BY <1>7, <2>4, OwesMeaning
    <3>2. \A d \in Conns : Phase(d)' = Phase(d)
      BY <1>6, <2>2, <3>1
    <3> QED
      BY <1>9, <2>4, <3>2
  <2> QED
    BY <2>3, <2>4
<1> QED
  BY <1>8, <1>9, OpKinds DEF RingInv, UringTypeOK

LEMMA StillPhase ==
  ASSUME UNCHANGED <<fdtab, done, sq, flight>>, Unhandled' = Unhandled
  PROVE  \A c \in Conns : Phase(c)' = Phase(c)
BY PhasesStay DEF SameStance, Owes, Answering

\* A client's own steps can break its connection, and no other one.
LEMMA ClientBreaks ==
  ASSUME RingInv, NEW c \in Conns, Client(c)
  PROVE  /\ UNCHANGED <<nread, fdtab, done>>
         /\ Broken(c) => Broken(c)'
         /\ \A d \in Conns : d # c => (Broken(d)' <=> Broken(d))
<1>1. peer \in [Conns -> PeerState]
  BY DEF RingInv, TcpTypeOK
<1>2. UNCHANGED <<nread, fdtab, done>>
  BY DEF Client, Connect, ClientSend, ClientRead, ClientFin, ClientRst
<1>3. \A d \in Conns : d # c => peer'[d] = peer[d]
  BY <1>1 DEF Client, Connect, ClientSend, ClientRead, ClientFin, ClientRst
<1>4. Broken(c) => Broken(c)'
  BY <1>1 DEF Client, Connect, ClientSend, ClientRead, ClientFin, ClientRst, Broken
<1> QED
  BY <1>2, <1>3, <1>4 DEF Broken

\* recv and send report a reset on a connection that is broken already.
LEMMA TransferBroken ==
  ASSUME RingInv, NEW c \in Conns
  PROVE  /\ \A len, cnt : Recv(c, len, cnt) => \A d \in Conns : Broken(d)' <=> Broken(d)
         /\ \A res : Send(c, res) => /\ \A d \in Conns : Broken(d)' <=> Broken(d)
                                     /\ res # "sent" => Broken(c)
<1>1. peer \in [Conns -> PeerState]
  BY DEF RingInv, TcpTypeOK
<1>2. ASSUME peer' = peer \/ (peer[c] = "rst" /\ peer' = [peer EXCEPT ![c] = "dead"])
      PROVE  \A d \in Conns : Broken(d)' <=> Broken(d)
  BY <1>1, <1>2 DEF Broken
<1>3. \A len, cnt : Recv(c, len, cnt) => \A d \in Conns : Broken(d)' <=> Broken(d)
  BY <1>2 DEF Recv
<1>4. \A res : Send(c, res) => /\ \A d \in Conns : Broken(d)' <=> Broken(d)
                               /\ res # "sent" => Broken(c)
  BY <1>2 DEF Send, Broken
<1> QED
  BY <1>3, <1>4

\* What a recv returns is what it takes from the connection.
LEMMA RecvCount ==
  ASSUME RingInv, NEW c \in Conns, NEW cnt, Recv(c, BufferLength, cnt)
  PROVE  IF cnt > 0 THEN /\ nread'[c] > nread[c]
                         /\ nread' = [nread EXCEPT ![c] = nread'[c]]
                    ELSE nread' = nread
<1>1. /\ nread \in [Conns -> 0..MaxSend] /\ sent \in [Conns -> 0..MaxSend]
      /\ MaxSend \in Nat /\ BufferLength \in Nat \ {0}
  BY TcpAssumption, FdFacts DEF RingInv, TcpTypeOK, TcpAssumption
<1>2. Avail(c) \in Int /\ nread[c] \in Int
  BY <1>1 DEF Avail
<1>3. CASE /\ Avail(c) > 0
           /\ cnt = IF Avail(c) < BufferLength THEN Avail(c) ELSE BufferLength
           /\ nread' = [nread EXCEPT ![c] = @ + cnt]
  <2>1. cnt \in Int /\ cnt > 0
    BY <1>1, <1>2, <1>3
  <2>2. nread'[c] = nread[c] + cnt
    BY <1>1, <1>3
  <2>3. nread' = [nread EXCEPT ![c] = nread'[c]]
    BY <1>3, <2>2
  <2> QED
    BY <1>2, <2>1, <2>2, <2>3
<1>4. CASE nread' = nread /\ (cnt = 0 \/ cnt = -1)
  BY <1>4
<1> QED
  BY <1>3, <1>4 DEF Recv
=============================================================================
