-------------------------- MODULE RouteTableProofs --------------------------
(***************************************************************************)
(* Proofs about RouteTable, for every set of tables.                       *)
(***************************************************************************)
EXTENDS RouteTable, SequenceTheorems, TLAPS

-----------------------------------------------------------------------------
(* Paths *)

String == Seq(Words)

LEMMA PathFacts ==
    ASSUME NEW e, IsPath(e)
    PROVE  /\ e \in String /\ Len(e) \in Nat /\ Len(e) > 0
           /\ \A k \in 1..Len(e) : e[k] \in Words
           /\ \A k \in 2..(Len(e) - 1) : e[k] # Empty
<1>1. e \in Seq(Words) /\ e # <<>> /\ \A k \in 2..(Len(e) - 1) : e[k] # Empty
  BY DEF IsPath
<1>2. Len(e) \in Nat \ {0}
  BY <1>1, EmptySeq
<1>3. e \in [1..Len(e) -> Words]
  BY <1>1, LenProperties
<1>4. \A k \in 1..Len(e) : e[k] \in Words
  BY <1>3
<1>5. e \in String
  BY <1>1 DEF String
<1>6. Len(e) \in Nat /\ Len(e) > 0
  BY <1>2
<1> QED
  BY <1>1, <1>4, <1>5, <1>6

LEMMA StringFacts ==
    ASSUME NEW s \in String
    PROVE  /\ Len(s) \in Nat /\ \A k \in 1..Len(s) : s[k] \in Words
           /\ s = <<>> <=> Len(s) = 0
<1>1. Len(s) \in Nat /\ s \in [1..Len(s) -> Words]
  BY LenProperties DEF String
<1>2. s = <<>> <=> Len(s) = 0
  BY EmptySeq DEF String
<1> QED
  BY <1>1, <1>2

LEMMA PrefixFacts ==
    ASSUME NEW s \in String, NEW n \in 0..Len(s)
    PROVE  /\ SubSeq(s, 1, n) \in String /\ Len(SubSeq(s, 1, n)) = n
           /\ \A k \in 1..n : SubSeq(s, 1, n)[k] = s[k]
<1>1. n \in Int /\ 1 \in Int /\ n >= 0 /\ \A k \in 1..n : s[k] \in Words
  BY StringFacts
<1>2. /\ SubSeq(s, 1, n) \in Seq(Words)
      /\ Len(SubSeq(s, 1, n)) = IF 1 <= n THEN n - 1 + 1 ELSE 0
      /\ \A k \in 1..(n - 1 + 1) : SubSeq(s, 1, n)[k] = s[1 + k - 1]
  BY <1>1, SubSeqProperties
<1>3. SubSeq(s, 1, n) \in String
  BY <1>2 DEF String
<1>4. Len(SubSeq(s, 1, n)) = n
  BY <1>1, <1>2
<1>5. \A k \in 1..n : SubSeq(s, 1, n)[k] = s[k]
  BY <1>1, <1>2
<1> QED
  BY <1>3, <1>4, <1>5

LEMMA FrontFacts ==
    ASSUME NEW s \in String, Len(s) > 0
    PROVE  /\ Front(s) \in String /\ Len(Front(s)) = Len(s) - 1
           /\ \A k \in 1..(Len(s) - 1) : Front(s)[k] = s[k]
<1>1. Len(s) - 1 \in 0..Len(s)
  BY StringFacts
<1> QED
  BY <1>1, PrefixFacts DEF Front

LEMMA TailFacts ==
    ASSUME NEW s \in String, Len(s) > 0
    PROVE  /\ Tail(s) \in String /\ Len(Tail(s)) = Len(s) - 1
           /\ \A k \in 1..(Len(s) - 1) : Tail(s)[k] = s[k + 1]
           /\ Head(s) = s[1]
<1>1. s # <<>>
  BY EmptySeq
<1> QED
  BY <1>1, HeadTailProperties, LenProperties DEF String

LEMMA AppendFacts ==
    ASSUME NEW s \in String, NEW x \in Words
    PROVE  /\ Append(s, x) \in String /\ Len(Append(s, x)) = Len(s) + 1
           /\ \A k \in 1..Len(s) : Append(s, x)[k] = s[k]
           /\ Append(s, x)[Len(s) + 1] = x
BY AppendProperties DEF String

LEMMA Same ==
    ASSUME NEW s \in String, NEW t \in String, Len(s) = Len(t),
           \A k \in 1..Len(s) : s[k] = t[k]
    PROVE  s = t
BY SeqEqual DEF String

LEMMA PrefixMeans ==
    ASSUME NEW s \in String, NEW t \in String
    PROVE  IsPrefix(s, t) <=> Len(s) <= Len(t) /\ \A k \in 1..Len(s) : s[k] = t[k]
<1>1. Len(s) \in Nat /\ Len(t) \in Nat
  BY StringFacts
<1>2. CASE Len(s) <= Len(t)
  <2>1. Len(s) \in 0..Len(s) /\ Len(s) \in 0..Len(t)
    BY <1>1, <1>2
  <2> DEFINE u == SubSeq(s, 1, Len(s))
             v == SubSeq(t, 1, Len(s))
  <2>2. /\ u \in String /\ Len(u) = Len(s) /\ \A k \in 1..Len(s) : u[k] = s[k]
        /\ v \in String /\ Len(v) = Len(s) /\ \A k \in 1..Len(s) : v[k] = t[k]
    BY <2>1, PrefixFacts
  <2> HIDE DEF u, v
  <2>3. u = v <=> \A k \in 1..Len(s) : s[k] = t[k]
    BY <2>2, Same
  <2> QED
    BY <1>2, <2>3 DEF IsPrefix, u, v
<1>3. CASE ~(Len(s) <= Len(t))
  BY <1>3 DEF IsPrefix
<1> QED
  BY <1>2, <1>3

LEMMA RootFacts ==
    /\ Root \in String /\ Len(Root) = 1 /\ Root[1] = Empty
    /\ <<>> \in String /\ Len(<<>>) = 0
<1>1. Root \in Seq(Words) /\ Len(Root) = 1 /\ Root[1] = Empty
  BY TablesAssumption DEF Root
<1>2. <<>> \in Seq(Words) /\ Len(<<>>) = 0
  BY EmptySeq
<1> QED
  BY <1>1, <1>2 DEF String

\* A path below the root.
Rooted(n) == Root \o n

LEMMA RootedFacts ==
    ASSUME NEW n \in String
    PROVE  /\ Rooted(n) \in String /\ Len(Rooted(n)) = Len(n) + 1
           /\ Rooted(n)[1] = Empty /\ \A k \in 1..Len(n) : Rooted(n)[k + 1] = n[k]
<1>1. Len(n) \in Nat
  BY StringFacts
<1> DEFINE r == Root
<1>2. r \in Seq(Words)
  BY RootFacts DEF String
<1>3. Len(r) = 1
  BY RootFacts
<1>4. r[1] = Empty
  BY RootFacts
<1> HIDE DEF r
<1>5. /\ r \o n \in Seq(Words) /\ Len(r \o n) = Len(r) + Len(n)
      /\ \A i \in 1..(Len(r) + Len(n)) : (r \o n)[i] = IF i <= Len(r) THEN r[i] ELSE n[i - Len(r)]
  BY <1>2, ConcatProperties DEF String
<1>6. 1 \in 1..(Len(r) + Len(n)) /\ 1 <= Len(r)
  BY <1>1, <1>3
<1>7. (r \o n)[1] = Empty
  BY <1>4, <1>5, <1>6
<1>8. r \o n \in String /\ Len(r \o n) = Len(n) + 1
  BY <1>1, <1>3, <1>5 DEF String
<1>9. ASSUME NEW k \in 1..Len(n)
      PROVE  (r \o n)[k + 1] = n[k]
  <2>1. k + 1 \in 1..(Len(r) + Len(n)) /\ ~(k + 1 <= Len(r)) /\ (k + 1) - Len(r) = k
    BY <1>1, <1>3
  <2> QED
    BY <1>5, <2>1
<1> QED
  BY <1>7, <1>8, <1>9 DEF Rooted, r

LEMMA RootedAppend ==
    ASSUME NEW n \in String, NEW x \in Words
    PROVE  Rooted(Append(n, x)) = Append(Rooted(n), x)
<1> DEFINE a == Append(n, x)
           r == Rooted(n)
           s == Rooted(a)
           t == Append(r, x)
<1>1. /\ Len(n) \in Nat /\ a \in String /\ Len(a) = Len(n) + 1
      /\ \A k \in 1..Len(n) : a[k] = n[k]
      /\ a[Len(n) + 1] = x
  BY AppendFacts, StringFacts
<1>2. /\ r \in String /\ Len(r) = Len(n) + 1
      /\ r[1] = Empty /\ \A k \in 1..Len(n) : r[k + 1] = n[k]
  BY RootedFacts
<1> HIDE DEF a, r
<1>3. /\ s \in String /\ Len(s) = Len(a) + 1
      /\ s[1] = Empty /\ \A k \in 1..Len(a) : s[k + 1] = a[k]
  BY <1>1, RootedFacts
<1>4. /\ t \in String /\ Len(t) = Len(r) + 1
      /\ \A k \in 1..Len(r) : t[k] = r[k]
      /\ t[Len(r) + 1] = x
  BY <1>2, AppendFacts
<1> HIDE DEF s, t
<1>5. ASSUME NEW k \in 1..Len(s)
      PROVE  s[k] = t[k]
  <2>1. CASE k = 1
    BY <1>1, <1>2, <1>3, <1>4, <2>1
  <2>2. CASE k # 1
    <3> DEFINE l == k - 1
    <3>1. l \in 1..Len(a) /\ l + 1 = k
      BY <1>1, <1>3, <2>2
    <3> HIDE DEF l
    <3>2. s[k] = a[l]
      BY <1>3, <3>1
    <3>3. CASE l = Len(n) + 1
      BY <1>1, <1>2, <1>4, <3>1, <3>2, <3>3
    <3>4. CASE l # Len(n) + 1
      <4>1. l \in 1..Len(n) /\ k \in 1..Len(r)
        BY <1>1, <1>2, <3>1, <3>4
      <4> QED
        BY <1>1, <1>2, <1>4, <3>1, <3>2, <4>1
    <3> QED
      BY <3>3, <3>4
  <2> QED
    BY <2>1, <2>2
<1>6. Len(s) = Len(t)
  BY <1>1, <1>2, <1>3, <1>4
<1> QED
  BY <1>3, <1>4, <1>5, <1>6, Same DEF a, r, s, t

LEMMA OnlyRoot ==
    ASSUME NEW s \in String, Len(s) = 1, s[1] = Empty
    PROVE  s = Root
<1>1. \A k \in 1..Len(s) : s[k] = Root[k]
  BY RootFacts
<1> QED
  BY <1>1, RootFacts, Same

LEMMA RootPrefix ==
    ASSUME NEW e \in String, Len(e) > 0
    PROVE  IsStrictPrefix(Root, e) <=> e[1] = Empty /\ e # Root
<1>1. Len(e) \in Nat /\ Len(Root) <= Len(e)
  BY StringFacts, RootFacts
<1>2. IsPrefix(Root, e) <=> \A k \in 1..Len(Root) : Root[k] = e[k]
  BY <1>1, RootFacts, PrefixMeans
<1>3. IsPrefix(Root, e) <=> e[1] = Empty
  BY <1>2, RootFacts
<1> QED
  BY <1>3 DEF IsStrictPrefix

\* Any path but the root, as gin joins it.
LEMMA JoinedFacts ==
    ASSUME NEW e, IsPath(e), e # Root
    PROVE  LET j == Joined(e) IN
           /\ j \in String /\ Len(j) \in Nat /\ Len(j) > 0
           /\ Last(j) = Last(e)
           /\ \A k \in 1..(Len(j) - 1) : j[k] # Empty
           /\ Split(e) = Rooted(j)
<1> DEFINE j == Joined(e)
<1>1. e \in String /\ Len(e) \in Nat /\ Len(e) > 0 /\ \A k \in 2..(Len(e) - 1) : e[k] # Empty
  BY PathFacts
<1>2. Head(e) = e[1]
  BY <1>1, TailFacts
<1>3. CASE e[1] = Empty
  <2>1. Len(e) > 1
    <3>1. Len(e) # 1
      BY <1>1, <1>3, OnlyRoot
    <3> QED
      BY <1>1, <3>1
  <2>2. j = Tail(e)
    BY <1>2, <1>3 DEF Joined
  <2> HIDE DEF j
  <2>3. j \in String /\ Len(j) = Len(e) - 1 /\ \A k \in 1..(Len(e) - 1) : j[k] = e[k + 1]
    BY <1>1, <2>2, TailFacts
  <2>4. j[Len(j)] = e[Len(e)]
    <3>1. Len(e) - 1 \in 1..(Len(e) - 1) /\ (Len(e) - 1) + 1 = Len(e)
      BY <1>1, <2>1
    <3> QED
      BY <2>3, <3>1
  <2>5. ASSUME NEW k \in 1..(Len(j) - 1)
        PROVE  j[k] # Empty
    <3>1. k \in 1..(Len(e) - 1) /\ k + 1 \in 2..(Len(e) - 1)
      BY <1>1, <2>3
    <3> QED
      BY <1>1, <2>3, <3>1
  <2>6. Rooted(j) = e
    <3>1. /\ Rooted(j) \in String /\ Len(Rooted(j)) = Len(e)
          /\ Rooted(j)[1] = Empty /\ \A k \in 1..Len(j) : Rooted(j)[k + 1] = j[k]
      BY <1>1, <2>3, RootedFacts
    <3>2. ASSUME NEW k \in 1..Len(e)
          PROVE  Rooted(j)[k] = e[k]
      <4>1. CASE k = 1
        BY <1>3, <3>1, <4>1
      <4>2. CASE k # 1
        <5> DEFINE l == k - 1
        <5>1. l \in 1..(Len(e) - 1) /\ l + 1 = k
          BY <1>1, <4>2
        <5> HIDE DEF l
        <5>2. l \in 1..Len(j)
          BY <2>3, <5>1
        <5> QED
          BY <2>3, <3>1, <5>1, <5>2
      <4> QED
        BY <4>1, <4>2
    <3> QED
      BY <1>1, <3>1, <3>2, Same
  <2>7. Split(e) = e
    BY <1>1, <1>3, RootPrefix DEF Split
  <2>8. Len(j) \in Nat /\ Len(j) > 0
    BY <1>1, <2>1, <2>3
  <2> QED
    BY <2>3, <2>4, <2>5, <2>6, <2>7, <2>8 DEF Last, j
<1>4. CASE e[1] # Empty
  <2>1. j = e
    BY <1>2, <1>4 DEF Joined
  <2>2. Split(e) = Rooted(e)
    BY <1>1, <1>4, RootPrefix DEF Split, Rooted
  <2>3. ASSUME NEW k \in 1..(Len(e) - 1)
        PROVE  e[k] # Empty
    <3>1. CASE k = 1
      BY <1>4, <3>1
    <3>2. CASE k # 1
      <4>1. k \in 2..(Len(e) - 1)
        BY <1>1, <3>2
      <4> QED
        BY <1>1, <4>1
    <3> QED
      BY <3>1, <3>2
  <2> QED
    BY <1>1, <2>1, <2>2, <2>3
<1> QED
  BY <1>3, <1>4

\* The names in a path, and the two routes and the elements it stands for.
LEMMA PathNames ==
    ASSUME NEW e, IsPath(e)
    PROVE  LET n == Names(e) IN
           /\ n \in String /\ Len(n) \in Nat /\ \A k \in 1..Len(n) : n[k] # Empty
           /\ {Joined(e), Joined(alternateEndpoint(e))} = {n, Append(n, Empty)}
           /\ Last(e) # Empty => Split(e) = Rooted(n) /\ Joined(e) = n
           /\ Last(e) = Empty => Split(e) = Append(Rooted(n), Empty)
<1> DEFINE n == Names(e)
           j == Joined(e)
           alt == alternateEndpoint(e)
<1>1. e \in String /\ Len(e) \in Nat /\ Len(e) > 0
  BY PathFacts
<1>2. CASE e = Root
  <2>1. j = <<>>
    <3>1. Head(e) = Empty /\ Tail(e) \in String /\ Len(Tail(e)) = 0
      BY <1>2, RootFacts, TailFacts
    <3>2. Tail(e) = <<>>
      BY <3>1, StringFacts
    <3> QED
      BY <3>1, <3>2 DEF Joined
  <2>2. n = <<>>
    BY <2>1 DEF Names, TrailingSlash
  <2>3. Last(e) = Empty
    BY <1>2, RootFacts DEF Last
  <2>4. alt = Append(Root, Empty)
    BY <1>2, RootFacts DEF alternateEndpoint
  <2>5. Joined(alt) = Append(<<>>, Empty)
    <3>1. Head(Append(Root, Empty)) = Empty
      BY RootFacts, TablesAssumption, HeadTailAppend DEF String, Root
    <3>2. Tail(Append(Root, Empty)) = Append(<<>>, Empty)
      <4>1. Tail(Append(Root, Empty)) = Append(Tail(Root), Empty)
        BY RootFacts, StringFacts, HeadTailAppend DEF String
      <4>2. Tail(Root) = <<>>
        <5>1. Tail(Root) \in String /\ Len(Tail(Root)) = 0
          BY RootFacts, TailFacts
        <5> QED
          BY <5>1, StringFacts
      <4> QED
        BY <4>1, <4>2
    <3> QED
      BY <2>4, <3>1, <3>2 DEF Joined
  <2>6. Split(e) = Root \o Root
    BY <1>1, <1>2, RootPrefix DEF Split
  <2>7. Root \o Root = Append(Root \o <<>>, Empty)
    BY DEF Root
  <2> HIDE DEF n, j, alt
  <2>8. n \in String /\ Len(n) = 0
    BY <2>2, RootFacts
  <2>9. {j, Joined(alt)} = {n, Append(n, Empty)}
    BY <2>1, <2>2, <2>5
  <2>10. Split(e) = Append(Rooted(n), Empty)
    BY <2>2, <2>6, <2>7 DEF Rooted
  <2> QED
    BY <2>3, <2>8, <2>9, <2>10 DEF n, j, alt
<1>3. CASE e # Root
  <2>1. /\ j \in String /\ Len(j) \in Nat /\ Len(j) > 0
        /\ Last(j) = Last(e)
        /\ \A k \in 1..(Len(j) - 1) : j[k] # Empty
        /\ Split(e) = Rooted(j)
    BY <1>3, JoinedFacts
  <2>2. Head(e) = e[1]
    BY <1>1, TailFacts
  <2>3. j # <<>>
    BY <2>1, StringFacts
  <2>4. CASE Last(e) = Empty
    <3>1. Len(e) > 1
      <4>1. Len(e) # 1
        BY <1>1, <1>3, <2>4, OnlyRoot DEF Last
      <4> DEFINE l == Len(e)
      <4>2. l \in Nat /\ l > 0 /\ l # 1
        BY <1>1, <4>1
      <4> HIDE DEF l
      <4>3. l > 1
        BY <4>2
      <4> QED
        BY <4>3 DEF l
    <3>2. n = Front(j)
      BY <2>1, <2>3, <2>4 DEF Names, TrailingSlash
    <3>3. alt = Front(e)
      BY <2>4, <3>1 DEF alternateEndpoint
    <3>4. /\ Front(e) \in String /\ Len(Front(e)) = Len(e) - 1
          /\ \A k \in 1..(Len(e) - 1) : Front(e)[k] = e[k]
      BY <1>1, FrontFacts
    <3>5. Len(Front(e)) > 0 /\ Front(e)[1] = e[1]
      BY <1>1, <3>1, <3>4
    <3>6. Head(Front(e)) = e[1]
      BY <3>4, <3>5, TailFacts
    <3>7. /\ n \in String /\ Len(n) = Len(j) - 1
          /\ \A k \in 1..(Len(j) - 1) : n[k] = j[k]
      BY <2>1, <3>2, FrontFacts
    <3>8. Joined(alt) = n
      <4>1. CASE e[1] = Empty
        <5>1. /\ Tail(e) \in String /\ Len(Tail(e)) = Len(e) - 1
              /\ \A k \in 1..(Len(e) - 1) : Tail(e)[k] = e[k + 1]
          BY <1>1, TailFacts
        <5>2. j = Tail(e)
          BY <2>2, <4>1 DEF Joined
        <5> DEFINE t == Tail(Front(e))
        <5>3. /\ t \in String /\ Len(t) = Len(Front(e)) - 1
              /\ \A k \in 1..(Len(Front(e)) - 1) : t[k] = Front(e)[k + 1]
          BY <3>4, <3>5, TailFacts
        <5>4. Joined(alt) = t
          BY <3>3, <3>6, <4>1 DEF Joined
        <5> HIDE DEF t, n, j
        <5>5. Len(t) = Len(n)
          BY <1>1, <3>4, <3>7, <5>1, <5>2, <5>3
        <5>6. ASSUME NEW k \in 1..Len(t)
              PROVE  t[k] = n[k]
          <6>1. /\ k \in 1..(Len(Front(e)) - 1) /\ k \in 1..(Len(j) - 1)
                /\ k \in 1..(Len(e) - 1) /\ k + 1 \in 1..(Len(e) - 1)
            BY <1>1, <3>4, <3>7, <5>1, <5>2, <5>3
          <6> QED
            BY <3>4, <3>7, <5>1, <5>2, <5>3, <6>1
        <5> QED
          BY <3>7, <5>3, <5>4, <5>5, <5>6, Same
      <4>2. CASE e[1] # Empty
        BY <2>2, <3>2, <3>3, <3>6, <4>2 DEF Joined
      <4> QED
        BY <4>1, <4>2
    <3>9. j = Append(n, Empty)
      <4>1. /\ Append(n, Empty) \in String /\ Len(Append(n, Empty)) = Len(n) + 1
            /\ \A k \in 1..Len(n) : Append(n, Empty)[k] = n[k]
            /\ Append(n, Empty)[Len(n) + 1] = Empty
        BY <3>7, AppendFacts, TablesAssumption
      <4> HIDE DEF n, j
      <4>2. ASSUME NEW k \in 1..Len(j)
            PROVE  j[k] = Append(n, Empty)[k]
        <5>1. CASE k = Len(j)
          BY <2>1, <2>4, <3>7, <4>1, <5>1 DEF Last
        <5>2. CASE k # Len(j)
          <6>1. k \in 1..(Len(j) - 1)
            BY <2>1, <5>2
          <6> QED
            BY <2>1, <3>7, <4>1, <6>1
        <5> QED
          BY <5>1, <5>2
      <4>3. Len(j) = Len(Append(n, Empty))
        BY <2>1, <3>7, <4>1
      <4> QED
        BY <2>1, <4>1, <4>2, <4>3, Same
    <3>10. Rooted(j) = Append(Rooted(n), Empty)
      <4> HIDE DEF n, j
      <4> QED
        BY <3>7, <3>9, RootedAppend, TablesAssumption
    <3> HIDE DEF n, j, alt
    <3>11. Len(n) \in Nat /\ \A k \in 1..Len(n) : n[k] # Empty
      BY <2>1, <3>7
    <3>12. {j, Joined(alt)} = {n, Append(n, Empty)}
      BY <3>8, <3>9
    <3> QED
      BY <2>1, <2>4, <3>7, <3>10, <3>11, <3>12 DEF n, j, alt
  <2>5. CASE Last(e) # Empty
    <3>1. n = j
      BY <2>1, <2>5 DEF Names, TrailingSlash
    <3>2. alt = Append(e, Empty)
      BY <2>5 DEF alternateEndpoint
    <3>3. Joined(alt) = Append(j, Empty)
      <4>1. /\ Append(e, Empty) \in String
            /\ Head(Append(e, Empty)) = Head(e)
            /\ Tail(Append(e, Empty)) = Append(Tail(e), Empty)
        BY <1>1, StringFacts, AppendFacts, TablesAssumption, HeadTailAppend DEF String
      <4> QED
        BY <3>2, <4>1 DEF Joined
    <3>4. \A k \in 1..Len(j) : j[k] # Empty
      BY <2>1, <2>5 DEF Last
    <3> HIDE DEF n, j, alt
    <3> QED
      BY <2>1, <2>5, <3>1, <3>3, <3>4 DEF n, j, alt
  <2> QED
    BY <2>4, <2>5
<1> QED
  BY <1>2, <1>3

-----------------------------------------------------------------------------
(* Directories *)

IsDir(q) == q \in String /\ \A k \in 1..Len(q) : q[k] # Empty

LEMMA NotSlashed ==
    ASSUME NEW q, IsDir(q)
    PROVE  ~TrailingSlash(q)
<1>1. q \in String /\ \A k \in 1..Len(q) : q[k] # Empty
  BY DEF IsDir
<1> SUFFICES ASSUME q # <<>>
             PROVE  q[Len(q)] # Empty
  BY DEF TrailingSlash, Last
<1>2. Len(q) \in 1..Len(q)
  BY <1>1, StringFacts
<1> QED
  BY <1>1, <1>2

\* The builder's name of a directory, and the routes its listing gets.
LEMMA DirectoryFacts ==
    ASSUME NEW q, IsDir(q)
    PROVE  /\ IsPath(Rooted(q)) /\ Names(Rooted(q)) = q
           /\ {Joined(Rooted(q)), Joined(alternateEndpoint(Rooted(q)))} = {q, Append(q, Empty)}
<1> DEFINE r == Rooted(q)
<1>1. q \in String /\ Len(q) \in Nat /\ \A k \in 1..Len(q) : q[k] # Empty
  BY StringFacts DEF IsDir
<1>2. /\ r \in String /\ Len(r) = Len(q) + 1
      /\ r[1] = Empty /\ \A k \in 1..Len(q) : r[k + 1] = q[k]
  BY <1>1, RootedFacts
<1> HIDE DEF r
<1>3. Len(r) > 0
  BY <1>1, <1>2
<1>4. IsPath(r)
  <2>1. r # <<>>
    BY <1>2, <1>3, StringFacts
  <2>2. ASSUME NEW k \in 2..(Len(r) - 1)
        PROVE  r[k] # Empty
    <3> DEFINE l == k - 1
    <3>1. l \in 1..Len(q) /\ l + 1 = k
      BY <1>1, <1>2
    <3> HIDE DEF l
    <3> QED
      BY <1>1, <1>2, <3>1
  <2> QED
    BY <1>2, <2>1, <2>2 DEF IsPath, String
<1>5. Joined(r) = q
  <2>1. /\ Tail(r) \in String /\ Len(Tail(r)) = Len(r) - 1 /\ Head(r) = r[1]
        /\ \A k \in 1..(Len(r) - 1) : Tail(r)[k] = r[k + 1]
    BY <1>2, <1>3, TailFacts
  <2>2. Len(Tail(r)) = Len(q) /\ \A k \in 1..Len(q) : Tail(r)[k] = q[k]
    BY <1>1, <1>2, <2>1
  <2>3. Tail(r) = q
    BY <1>1, <2>1, <2>2, Same
  <2> QED
    BY <1>2, <2>1, <2>3 DEF Joined
<1>6. ~TrailingSlash(q)
  BY NotSlashed
<1>7. Names(r) = q
  BY <1>5, <1>6 DEF Names
<1> QED
  BY <1>4, <1>7, PathNames DEF r

LEMMA SamePlace ==
    ASSUME NEW p, IsDir(p), NEW q, IsDir(q), Rooted(p) = Rooted(q)
    PROVE  p = q
BY DirectoryFacts

\* The directories a path leads through.
Upto(n, k) == SubSeq(n, 1, k)

LEMMA UptoFacts ==
    ASSUME NEW n, IsDir(n), NEW k \in 0..Len(n)
    PROVE  IsDir(Upto(n, k)) /\ Len(Upto(n, k)) = k /\ \A i \in 1..k : Upto(n, k)[i] = n[i]
<1>1. n \in String /\ Len(n) \in Nat /\ \A i \in 1..Len(n) : n[i] # Empty
  BY StringFacts DEF IsDir
<1>2. Upto(n, k) \in String /\ Len(Upto(n, k)) = k /\ \A i \in 1..k : Upto(n, k)[i] = n[i]
  BY <1>1, PrefixFacts DEF Upto
<1>3. \A i \in 1..k : Upto(n, k)[i] # Empty
  BY <1>1, <1>2
<1> QED
  BY <1>2, <1>3 DEF IsDir

\* The elements the builder puts under its directories.
LEMMA FromEndpointFacts ==
    ASSUME NEW e, IsPath(e)
    PROVE  LET n == Names(e) IN
           /\ IsDir(n) /\ Len(n) \in Nat
           /\ \A x \in FromEndpoint(e) : \E k \in 0..Len(n) :
                 /\ x[1] = Rooted(Upto(n, k))
                 /\ \/ k < Len(n) /\ x[2] = n[k + 1]
                    \/ k = Len(n) /\ Last(e) = Empty
           /\ \A k \in 0..(Len(n) - 1) : <<Rooted(Upto(n, k)), n[k + 1]>> \in FromEndpoint(e)
           /\ Last(e) = Empty => \E c : <<Rooted(n), c>> \in FromEndpoint(e)
<1> DEFINE n == Names(e)
           s == Split(e)
<1>1. /\ n \in String /\ Len(n) \in Nat /\ \A k \in 1..Len(n) : n[k] # Empty
      /\ Last(e) # Empty => s = Rooted(n)
      /\ Last(e) = Empty => s = Append(Rooted(n), Empty)
  BY PathNames
<1> DEFINE r == Rooted(n)
<1>2. /\ r \in String /\ Len(r) = Len(n) + 1
      /\ r[1] = Empty /\ \A k \in 1..Len(n) : r[k + 1] = n[k]
  BY <1>1, RootedFacts
<1>3. FromEndpoint(e) = {<<SubSeq(s, 1, i), s[i + 1]>> : i \in 1..(Len(s) - 1)}
  BY DEF FromEndpoint
<1>4. IsDir(n)
  BY <1>1 DEF IsDir
<1> HIDE DEF s, r, n
<1>5. /\ s \in String
      /\ Len(s) = IF Last(e) = Empty THEN Len(n) + 2 ELSE Len(n) + 1
      /\ \A k \in 1..(Len(n) + 1) : s[k] = r[k]
  <2>1. CASE Last(e) = Empty
    <3>1. s = Append(r, Empty)
      BY <1>1, <2>1 DEF r
    <3>2. Len(s) = Len(r) + 1 /\ s \in String /\ \A k \in 1..Len(r) : s[k] = r[k]
      BY <1>2, <3>1, AppendFacts, TablesAssumption
    <3> QED
      BY <1>1, <1>2, <2>1, <3>2
  <2>2. CASE Last(e) # Empty
    BY <1>1, <1>2, <2>2 DEF r
  <2> QED
    BY <2>1, <2>2
<1>6. ASSUME NEW k \in 0..Len(n)
      PROVE  SubSeq(s, 1, k + 1) = Rooted(Upto(n, k))
  <2> DEFINE a == SubSeq(s, 1, k + 1)
             u == Upto(n, k)
             b == Rooted(u)
  <2>1. k + 1 \in 0..Len(s)
    BY <1>1, <1>5
  <2>2. a \in String /\ Len(a) = k + 1 /\ \A i \in 1..(k + 1) : a[i] = s[i]
    BY <1>5, <2>1, PrefixFacts
  <2>3. u \in String /\ Len(u) = k /\ \A i \in 1..k : u[i] = n[i]
    BY <1>4, UptoFacts DEF IsDir
  <2> HIDE DEF a, u
  <2>4. /\ b \in String /\ Len(b) = k + 1 /\ b[1] = Empty
        /\ \A i \in 1..k : b[i + 1] = u[i]
    BY <2>3, RootedFacts
  <2> HIDE DEF b
  <2>5. ASSUME NEW i \in 1..(k + 1)
        PROVE  a[i] = b[i]
    <3>1. i \in 1..(Len(n) + 1)
      BY <1>1
    <3>2. a[i] = r[i]
      BY <1>5, <2>2, <3>1
    <3>3. CASE i = 1
      BY <1>2, <2>4, <3>2, <3>3
    <3>4. CASE i # 1
      <4> DEFINE l == i - 1
      <4>1. l \in 1..k /\ l \in 1..Len(n) /\ l + 1 = i
        BY <1>1, <3>4
      <4> HIDE DEF l
      <4> QED
        BY <1>2, <2>3, <2>4, <3>2, <4>1
    <3> QED
      BY <3>3, <3>4
  <2>6. a = b
    BY <2>2, <2>4, <2>5, Same
  <2> QED
    BY <2>6 DEF a, b, u
<1>7. ASSUME NEW x \in FromEndpoint(e)
      PROVE  \E k \in 0..Len(n) :
                /\ x[1] = Rooted(Upto(n, k))
                /\ \/ k < Len(n) /\ x[2] = n[k + 1]
                   \/ k = Len(n) /\ Last(e) = Empty
  <2>1. PICK i \in 1..(Len(s) - 1) : x = <<SubSeq(s, 1, i), s[i + 1]>>
    BY <1>3
  <2> DEFINE k == i - 1
  <2>2. k \in 0..Len(n) /\ k + 1 = i
    BY <1>1, <1>5
  <2>3. k < Len(n) \/ (k = Len(n) /\ Last(e) = Empty)
    <3>1. CASE Last(e) = Empty
      BY <1>1, <2>2, <3>1
    <3>2. CASE Last(e) # Empty
      BY <1>1, <1>5, <3>2
    <3> QED
      BY <3>1, <3>2
  <2> HIDE DEF k
  <2>4. x[1] = Rooted(Upto(n, k))
    BY <1>6, <2>1, <2>2
  <2>5. ASSUME k < Len(n)
        PROVE  x[2] = n[k + 1]
    <3> DEFINE l == k + 1
    <3>1. l \in 1..Len(n) /\ l + 1 \in 1..(Len(n) + 1) /\ l = i
      BY <1>1, <2>2, <2>5
    <3> HIDE DEF l
    <3>2. x[2] = n[l]
      BY <1>2, <1>5, <2>1, <3>1
    <3> QED
      BY <3>2 DEF l
  <2> QED
    BY <2>2, <2>3, <2>4, <2>5
<1>8. ASSUME NEW k \in 0..(Len(n) - 1)
      PROVE  <<Rooted(Upto(n, k)), n[k + 1]>> \in FromEndpoint(e)
  <2> DEFINE l == k + 1
  <2>1. l \in 1..(Len(s) - 1) /\ l + 1 \in 1..(Len(n) + 1) /\ l \in 1..Len(n) /\ k \in 0..Len(n)
    BY <1>1, <1>5
  <2>2. SubSeq(s, 1, l) = Rooted(Upto(n, k))
    BY <1>6, <2>1
  <2> HIDE DEF l
  <2>3. s[l + 1] = n[l]
    BY <1>2, <1>5, <2>1
  <2>4. <<Rooted(Upto(n, k)), n[l]>> \in FromEndpoint(e)
    BY <1>3, <2>1, <2>2, <2>3
  <2> QED
    BY <2>4 DEF l
<1>9. ASSUME Last(e) = Empty
      PROVE  \E c : <<Rooted(n), c>> \in FromEndpoint(e)
  <2> DEFINE l == Len(n) + 1
  <2>1. l \in 1..(Len(s) - 1) /\ Len(n) \in 0..Len(n)
    BY <1>1, <1>5, <1>9
  <2>2. SubSeq(s, 1, l) = Rooted(Upto(n, Len(n)))
    BY <1>6, <2>1
  <2>3. Upto(n, Len(n)) = n
    BY <1>1, SubSeqFull DEF Upto, String
  <2> HIDE DEF l
  <2> QED
    BY <1>3, <2>1, <2>2, <2>3
<1> QED
  BY <1>1, <1>4, <1>7, <1>8, <1>9 DEF n

-----------------------------------------------------------------------------
(* The invariant *)

Name(i) == Names(dataRoutes[i])

\* A handler's two routes: at its place, with and without a trailing slash.
RoutesAt(n, handler) == {[path |-> p, serves |-> handler] : p \in {n, Append(n, Empty)}}

DataAt(i) == RoutesAt(Name(i), [data |-> dataRoutes[i]])
ListingAt(d) == RoutesAt(Names(d.Endpoint), [listing |-> d.Children])

\* The listings that are bound.
Bound == IF pc = "data" THEN {} ELSE Build(builder) \ pending

Progress ==
    /\ bound \in 0..Len(dataRoutes)
    /\ pc # "data" => bound = Len(dataRoutes)
    /\ builder = UNION {FromEndpoint(dataRoutes[i]) : i \in 1..bound}
    /\ pending \in SUBSET Build(builder)
    /\ pc \in {"data", "done"} => pending = {}

\* The router serves the endpoints and the listings that are bound, and these
\* only; no two at one place.
RouterInv ==
    /\ \A i \in 1..bound : DataAt(i) \in SUBSET routes
    /\ \A d \in Bound : ListingAt(d) \in SUBSET routes
    /\ \A r \in routes : \/ \E i \in 1..bound : r \in DataAt(i)
                         \/ \E d \in Bound : r \in ListingAt(d)
    /\ \A i, j \in 1..bound : i # j => Name(i) # Name(j)
    /\ \A i \in 1..bound : \A d \in Bound : Name(i) # Names(d.Endpoint)

Inv ==
    /\ dataRoutes \in Tables
    /\ pc \in {"data", "static", "done", "panicked"}
    /\ pc = "panicked" => Conflict
    /\ pc # "panicked" => Progress /\ RouterInv

-----------------------------------------------------------------------------
(* What is in the builder *)

LEMMA TableFacts ==
    ASSUME dataRoutes \in Tables
    PROVE  /\ Len(dataRoutes) \in Nat /\ DOMAIN dataRoutes = 1..Len(dataRoutes)
           /\ \A i \in 1..Len(dataRoutes) : IsPath(dataRoutes[i]) /\ IsDir(Name(i))
<1>1. dataRoutes \in Seq(Seq(Words)) /\ \A i \in DOMAIN dataRoutes : IsPath(dataRoutes[i])
  BY TablesAssumption
<1>2. Len(dataRoutes) \in Nat /\ DOMAIN dataRoutes = 1..Len(dataRoutes)
  BY <1>1, LenProperties
<1>3. \A i \in 1..Len(dataRoutes) : IsPath(dataRoutes[i])
  BY <1>1, <1>2
<1> QED
  BY <1>2, <1>3, FromEndpointFacts DEF Name

LEMMA BoundFacts ==
    ASSUME dataRoutes \in Tables, Progress
    PROVE  /\ bound \in Nat /\ bound <= Len(dataRoutes)
           /\ \A i \in 1..bound : /\ i \in 1..Len(dataRoutes)
                                  /\ IsPath(dataRoutes[i]) /\ IsDir(Name(i))
<1>1. bound \in 0..Len(dataRoutes)
  BY DEF Progress
<1>2. Len(dataRoutes) \in Nat
  BY TableFacts
<1>3. bound \in Nat /\ bound <= Len(dataRoutes)
  BY <1>1, <1>2
<1>4. \A i \in 1..bound : i \in 1..Len(dataRoutes)
  BY <1>2, <1>3
<1> QED
  BY <1>3, <1>4, TableFacts

\* A handler for one place is never in the way of one for another.
LEMMA PlacesMeet ==
    ASSUME NEW m, IsDir(m), NEW n, IsDir(n),
           NEW p \in {m, Append(m, Empty)}, p \in {n, Append(n, Empty)}
    PROVE  m = n
<1>1. ASSUME NEW u, IsDir(u), NEW v, IsDir(v)
      PROVE  u # Append(v, Empty)
  <2>1. /\ Len(v) \in Nat /\ v \in String
        /\ Len(Append(v, Empty)) = Len(v) + 1 /\ Append(v, Empty)[Len(v) + 1] = Empty
    BY <1>1, AppendFacts, StringFacts, TablesAssumption DEF IsDir
  <2> DEFINE l == Len(v) + 1
  <2>2. l \in 1..l
    BY <2>1
  <2> HIDE DEF l
  <2>3. \A k \in 1..Len(u) : u[k] # Empty
    BY <1>1 DEF IsDir
  <2> QED
    BY <2>1, <2>2, <2>3 DEF l
<1>2. Append(m, Empty) = Append(n, Empty) => m = n
  BY AppendInjective, TablesAssumption DEF IsDir, String
<1> QED
  BY <1>1, <1>2

\* A parent is a directory on the way to an endpoint, or the endpoint itself
\* when it ends with a slash; nothing is a parent but these.
LEMMA ParentFacts ==
    ASSUME dataRoutes \in Tables, Progress
    PROVE  /\ \A x \in builder : \E i \in 1..bound : \E k \in 0..Len(Name(i)) :
                 /\ x[1] = Rooted(Upto(Name(i), k))
                 /\ \/ k < Len(Name(i)) /\ x[2] = Name(i)[k + 1]
                    \/ k = Len(Name(i)) /\ Last(dataRoutes[i]) = Empty
           /\ \A i \in 1..bound : \A k \in 0..(Len(Name(i)) - 1) :
                 <<Rooted(Upto(Name(i), k)), Name(i)[k + 1]>> \in builder
           /\ \A i \in 1..bound : Last(dataRoutes[i]) = Empty =>
                 \E c : <<Rooted(Name(i)), c>> \in builder
<1>1. builder = UNION {FromEndpoint(dataRoutes[i]) : i \in 1..bound}
  BY DEF Progress
<1>2. \A i \in 1..bound : IsPath(dataRoutes[i])
  BY BoundFacts
<1>3. ASSUME NEW x \in builder
      PROVE  \E i \in 1..bound : \E k \in 0..Len(Name(i)) :
                 /\ x[1] = Rooted(Upto(Name(i), k))
                 /\ \/ k < Len(Name(i)) /\ x[2] = Name(i)[k + 1]
                    \/ k = Len(Name(i)) /\ Last(dataRoutes[i]) = Empty
  <2>1. PICK i \in 1..bound : x \in FromEndpoint(dataRoutes[i])
    BY <1>1
  <2> QED
    BY <1>2, <2>1, FromEndpointFacts DEF Name
<1>4. ASSUME NEW i \in 1..bound
      PROVE  /\ \A k \in 0..(Len(Name(i)) - 1) :
                   <<Rooted(Upto(Name(i), k)), Name(i)[k + 1]>> \in builder
             /\ Last(dataRoutes[i]) = Empty => \E c : <<Rooted(Name(i)), c>> \in builder
  <2>1. FromEndpoint(dataRoutes[i]) \in SUBSET builder
    BY <1>1
  <2>2. /\ \A k \in 0..(Len(Name(i)) - 1) :
              <<Rooted(Upto(Name(i), k)), Name(i)[k + 1]>> \in FromEndpoint(dataRoutes[i])
        /\ Last(dataRoutes[i]) = Empty =>
              \E c : <<Rooted(Name(i)), c>> \in FromEndpoint(dataRoutes[i])
    BY <1>2, FromEndpointFacts DEF Name
  <2> QED
    BY <2>1, <2>2
<1> QED
  BY <1>3, <1>4

Directory(b, parent) ==
    [Endpoint |-> parent,
     Children |-> {[name |-> e[2], dir |-> Append(parent, e[2]) \in Parents(b)] :
                      e \in {f \in b : f[1] = parent}}]

LEMMA BuildFacts ==
    ASSUME NEW b
    PROVE  /\ \A d \in Build(b) : d.Endpoint \in Parents(b) /\ d = Directory(b, d.Endpoint)
           /\ \A p \in Parents(b) : Directory(b, p) \in Build(b) /\ Directory(b, p).Endpoint = p
<1>1. Build(b) = {Directory(b, p) : p \in Parents(b)}
  BY DEF Build, Directory
<1>2. \A p : Directory(b, p).Endpoint = p
  BY DEF Directory
<1> QED
  BY <1>1, <1>2

\* A listing is for one parent, and tells of everything the builder has there.
LEMMA ListingFacts ==
    ASSUME dataRoutes \in Tables, Progress
    PROVE  /\ \A d \in Build(builder) : \E i \in 1..bound : \E k \in 0..Len(Name(i)) :
                 /\ d.Endpoint = Rooted(Upto(Name(i), k))
                 /\ Names(d.Endpoint) = Upto(Name(i), k)
                 /\ k < Len(Name(i)) \/ Last(dataRoutes[i]) = Empty
           /\ \A d \in Build(builder) :
                 IsPath(d.Endpoint) /\ IsDir(Names(d.Endpoint)) /\ d.Endpoint = Rooted(Names(d.Endpoint))
           /\ \A d1, d2 \in Build(builder) : Names(d1.Endpoint) = Names(d2.Endpoint) => d1 = d2
           /\ \A x \in builder : \E d \in Build(builder) : d.Endpoint = x[1]
<1>1. \A d \in Build(builder) : d.Endpoint \in Parents(builder) /\ d = Directory(builder, d.Endpoint)
  BY BuildFacts
<1>2. \A d \in Build(builder) : \E x \in builder : d.Endpoint = x[1]
  BY <1>1 DEF Parents
<1>3. ASSUME NEW d \in Build(builder)
      PROVE  /\ \E i \in 1..bound : \E k \in 0..Len(Name(i)) :
                   /\ d.Endpoint = Rooted(Upto(Name(i), k))
                   /\ Names(d.Endpoint) = Upto(Name(i), k)
                   /\ k < Len(Name(i)) \/ Last(dataRoutes[i]) = Empty
             /\ IsPath(d.Endpoint) /\ IsDir(Names(d.Endpoint))
             /\ d.Endpoint = Rooted(Names(d.Endpoint))
  <2>1. PICK x \in builder : d.Endpoint = x[1]
    BY <1>2
  <2>2. PICK i \in 1..bound : \E k \in 0..Len(Name(i)) :
           /\ x[1] = Rooted(Upto(Name(i), k))
           /\ \/ k < Len(Name(i)) /\ x[2] = Name(i)[k + 1]
              \/ k = Len(Name(i)) /\ Last(dataRoutes[i]) = Empty
    BY ParentFacts
  <2>3. PICK k \in 0..Len(Name(i)) :
           /\ x[1] = Rooted(Upto(Name(i), k))
           /\ k < Len(Name(i)) \/ Last(dataRoutes[i]) = Empty
    BY <2>2
  <2>4. IsDir(Name(i))
    BY BoundFacts
  <2>5. IsDir(Upto(Name(i), k))
    BY <2>4, UptoFacts
  <2>6. IsPath(d.Endpoint) /\ Names(d.Endpoint) = Upto(Name(i), k)
    BY <2>1, <2>3, <2>5, DirectoryFacts
  <2> QED
    BY <2>1, <2>3, <2>5, <2>6
<1>4. ASSUME NEW d1 \in Build(builder), NEW d2 \in Build(builder),
             Names(d1.Endpoint) = Names(d2.Endpoint)
      PROVE  d1 = d2
  <2>1. d1.Endpoint = d2.Endpoint
    BY <1>3, <1>4
  <2> QED
    BY <1>1, <2>1
<1>5. ASSUME NEW x \in builder
      PROVE  \E d \in Build(builder) : d.Endpoint = x[1]
  <2>1. x[1] \in Parents(builder)
    BY DEF Parents
  <2> QED
    BY <2>1, BuildFacts
<1> QED
  BY <1>3, <1>4, <1>5

-----------------------------------------------------------------------------
(* GET *)

LEMMA GetFacts ==
    ASSUME NEW e, IsPath(e), NEW handler, GET(e, handler)
    PROVE  LET n == Names(e) IN
           \/ /\ pc' = "panicked"
              /\ \E r \in routes : r.path \in {n, Append(n, Empty)}
           \/ /\ pc' = pc /\ routes' = routes \cup RoutesAt(n, handler)
              /\ \A r \in routes : r.path \notin {n, Append(n, Empty)}
<1>1. {Joined(e), Joined(alternateEndpoint(e))} = {Names(e), Append(Names(e), Empty)}
  BY PathNames
<1> QED
  BY <1>1 DEF GET, RoutesAt

\* A route that is in the way of a new one belongs to the same place.
LEMMA Taken ==
    ASSUME NEW n, IsDir(n), NEW m, IsDir(m), NEW handler,
           NEW r \in RoutesAt(m, handler), r.path \in {n, Append(n, Empty)}
    PROVE  m = n
<1>1. r.path \in {m, Append(m, Empty)}
  BY DEF RoutesAt
<1> QED
  BY <1>1, PlacesMeet

LEMMA Free ==
    ASSUME NEW n, NEW m, NEW handler, RoutesAt(m, handler) \in SUBSET routes,
           \A r \in routes : r.path \notin {n, Append(n, Empty)}
    PROVE  m # n
<1> DEFINE r == [path |-> m, serves |-> handler]
<1>1. r \in RoutesAt(m, handler) /\ r.path = m
  BY DEF RoutesAt
<1> HIDE DEF r
<1> QED
  BY <1>1

-----------------------------------------------------------------------------
(* Every step keeps the invariant *)

LEMMA InitInv == Init => Inv
<1> SUFFICES ASSUME Init PROVE Inv
  OBVIOUS
<1>1. /\ dataRoutes \in Tables /\ pc = "data" /\ bound = 0 /\ builder = {} /\ pending = {}
      /\ routes = {}
  BY DEF Init
<1>2. Len(dataRoutes) \in Nat /\ 1..bound = {}
  BY <1>1, TableFacts
<1>3. Progress
  BY <1>1, <1>2 DEF Progress
<1>4. RouterInv
  BY <1>1, <1>2 DEF RouterInv, Bound
<1> QED
  BY <1>1, <1>3, <1>4 DEF Inv

\* Two endpoints collide when they have the same name.
LEMMA BindDataPanics ==
    ASSUME dataRoutes \in Tables, Progress, RouterInv, pc = "data", bound < Len(dataRoutes),
           NEW r \in routes, r.path \in {Name(bound + 1), Append(Name(bound + 1), Empty)}
    PROVE  Conflict
<1>1. bound \in Nat /\ bound + 1 \in DOMAIN dataRoutes /\ IsDir(Name(bound + 1))
  BY BoundFacts, TableFacts
<1>2. PICK i \in 1..bound : r \in DataAt(i)
  BY DEF RouterInv, Bound
<1>3. IsDir(Name(i)) /\ i \in DOMAIN dataRoutes /\ i # bound + 1
  BY <1>1, BoundFacts, TableFacts
<1> DEFINE n == Name(bound + 1)
<1>4. Name(i) = n
  BY <1>1, <1>2, <1>3, Taken DEF DataAt
<1>5. IsPrefix(Name(i), n)
  BY <1>3, <1>4, PrefixMeans, StringFacts DEF IsDir
<1> QED
  BY <1>1, <1>3, <1>5 DEF Conflict, Name

LEMMA BindDataInv ==
    ASSUME dataRoutes \in Tables, Progress, RouterInv, BindData, pc' # "panicked"
    PROVE  (Progress /\ RouterInv)'
<1> DEFINE b == bound + 1
           h == [data |-> dataRoutes[b]]
<1>1. /\ pc = "data" /\ bound < Len(dataRoutes) /\ GET(dataRoutes[b], h)
      /\ builder' = builder \cup FromEndpoint(dataRoutes[b])
      /\ bound' = b /\ dataRoutes' = dataRoutes /\ pending' = pending
  BY DEF BindData
<1>2. bound \in Nat /\ b \in 1..Len(dataRoutes) /\ IsPath(dataRoutes[b]) /\ IsDir(Name(b))
  BY <1>1, BoundFacts, TableFacts
<1>3. /\ pc' = "data" /\ routes' = routes \cup RoutesAt(Name(b), h)
      /\ \A r \in routes : r.path \notin {Name(b), Append(Name(b), Empty)}
  BY <1>1, <1>2, GetFacts DEF Name
<1>4. RoutesAt(Name(b), h) = DataAt(b)
  BY DEF DataAt
<1>5. \A i : Name(i)' = Name(i) /\ DataAt(i)' = DataAt(i)
  BY <1>1 DEF Name, DataAt
<1>6. 1..b = 1..bound \cup {b} /\ b \notin 1..bound
  BY <1>2
<1> HIDE DEF b, h
<1>7. Progress'
  <2>1. builder = UNION {FromEndpoint(dataRoutes[i]) : i \in 1..bound} /\ pending = {}
    BY <1>1 DEF Progress
  <2>2. builder' = UNION {FromEndpoint(dataRoutes[i]) : i \in 1..b}
    BY <1>1, <1>6, <2>1
  <2>3. b \in 0..Len(dataRoutes)
    BY <1>2, TableFacts
  <2> QED
    BY <1>1, <1>3, <2>1, <2>2, <2>3 DEF Progress
<1>8. RouterInv'
  <2>1. Bound = {} /\ Bound' = {}
    BY <1>1, <1>3 DEF Bound
  <2>2. /\ \A i \in 1..bound : DataAt(i) \in SUBSET routes
        /\ \A r \in routes : \E i \in 1..bound : r \in DataAt(i)
        /\ \A i, j \in 1..bound : i # j => Name(i) # Name(j)
    BY <2>1 DEF RouterInv
  <2>3. \A i \in 1..b : DataAt(i) \in SUBSET routes'
    BY <1>3, <1>4, <1>6, <2>2
  <2>4. \A r \in routes' : \E i \in 1..b : r \in DataAt(i)
    BY <1>3, <1>4, <1>6, <2>2
  <2>5. \A i \in 1..bound : Name(i) # Name(b)
    BY <1>3, <2>2, Free DEF DataAt
  <2>6. \A i, j \in 1..b : i # j => Name(i) # Name(j)
    BY <1>6, <2>2, <2>5
  <2> QED
    BY <1>1, <1>5, <2>1, <2>3, <2>4, <2>6 DEF RouterInv
<1> QED
  BY <1>7, <1>8

LEMMA BuildStaticInv ==
    ASSUME dataRoutes \in Tables, Progress, RouterInv, BuildStatic
    PROVE  (Progress /\ RouterInv)'
<1>1. /\ pc = "data" /\ bound = Len(dataRoutes) /\ pending' = Build(builder) /\ pc' = "static"
      /\ dataRoutes' = dataRoutes /\ bound' = bound /\ builder' = builder /\ routes' = routes
  BY DEF BuildStatic
<1>2. Progress'
  BY <1>1 DEF Progress
<1>3. Bound = {} /\ Bound' = {}
  BY <1>1 DEF Bound
<1>4. \A i : Name(i)' = Name(i) /\ DataAt(i)' = DataAt(i)
  BY <1>1 DEF Name, DataAt
<1>5. RouterInv'
  BY <1>1, <1>3, <1>4 DEF RouterInv
<1> QED
  BY <1>2, <1>5

\* A listing collides with an endpoint that is one of its directories, or that
\* ends with a slash; with another listing, never.
LEMMA BindStaticPanics ==
    ASSUME dataRoutes \in Tables, Progress, RouterInv, pc = "static", NEW d \in pending,
           NEW r \in routes, r.path \in {Names(d.Endpoint), Append(Names(d.Endpoint), Empty)}
    PROVE  Conflict
<1>1. d \in Build(builder) /\ Bound = Build(builder) \ pending
  BY DEF Progress, Bound
<1> DEFINE q == Names(d.Endpoint)
<1>2. IsDir(q)
  BY <1>1, ListingFacts
<1>3. ASSUME NEW c \in Bound, r \in ListingAt(c)
      PROVE  FALSE
  <2>1. c \in Build(builder) /\ c # d
    BY <1>1
  <2>2. IsDir(Names(c.Endpoint))
    BY <2>1, ListingFacts
  <2>3. Names(c.Endpoint) = q
    BY <1>2, <1>3, <2>2, Taken DEF ListingAt
  <2> QED
    BY <1>1, <2>1, <2>3, ListingFacts
<1>4. PICK i \in 1..bound : r \in DataAt(i)
  BY <1>3 DEF RouterInv
<1>5. IsDir(Name(i)) /\ i \in DOMAIN dataRoutes
  BY BoundFacts, TableFacts
<1>6. Name(i) = q
  BY <1>2, <1>4, <1>5, Taken DEF DataAt
<1>7. PICK j \in 1..bound : \E k \in 0..Len(Name(j)) :
         q = Upto(Name(j), k) /\ (k < Len(Name(j)) \/ Last(dataRoutes[j]) = Empty)
  BY <1>1, ListingFacts
<1>8. PICK k \in 0..Len(Name(j)) :
         q = Upto(Name(j), k) /\ (k < Len(Name(j)) \/ Last(dataRoutes[j]) = Empty)
  BY <1>7
<1>9. IsDir(Name(j)) /\ j \in DOMAIN dataRoutes /\ Len(Name(j)) \in Nat
  BY BoundFacts, TableFacts, StringFacts DEF IsDir
<1>10. Len(q) = k /\ \A l \in 1..k : q[l] = Name(j)[l]
  BY <1>8, <1>9, UptoFacts
<1> HIDE DEF q
<1>11. CASE Last(dataRoutes[j]) = Empty
  BY <1>9, <1>11 DEF Conflict
<1>12. CASE k < Len(Name(j))
  <2>1. i # j
    BY <1>6, <1>9, <1>10, <1>12
  <2>2. IsPrefix(Name(i), Name(j))
    <3>1. Len(Name(i)) <= Len(Name(j)) /\ \A l \in 1..Len(Name(i)) : Name(i)[l] = Name(j)[l]
      BY <1>6, <1>9, <1>10
    <3>2. Name(i) \in String /\ Name(j) \in String
      BY <1>5, <1>9 DEF IsDir
    <3> QED
      BY <3>1, <3>2, PrefixMeans
  <2> QED
    BY <1>5, <1>9, <2>1, <2>2 DEF Conflict, Name
<1> QED
  BY <1>8, <1>11, <1>12

LEMMA BindStaticInv ==
    ASSUME dataRoutes \in Tables, Progress, RouterInv, BindStatic, pc' # "panicked"
    PROVE  (Progress /\ RouterInv)'
<1>1. PICK d \in pending : /\ GET(d.Endpoint, [listing |-> d.Children])
                           /\ pending' = pending \ {d}
  BY DEF BindStatic
<1>2. /\ pc = "static" /\ dataRoutes' = dataRoutes /\ bound' = bound /\ builder' = builder
  BY DEF BindStatic
<1> DEFINE q == Names(d.Endpoint)
           h == [listing |-> d.Children]
<1>3. d \in Build(builder) /\ pending \in SUBSET Build(builder) /\ bound = Len(dataRoutes)
  BY <1>2 DEF Progress
<1>4. IsPath(d.Endpoint)
  BY <1>3, ListingFacts
<1>5. /\ pc' = "static" /\ routes' = routes \cup RoutesAt(q, h)
      /\ \A r \in routes : r.path \notin {q, Append(q, Empty)}
  BY <1>1, <1>2, <1>4, GetFacts
<1>6. RoutesAt(q, h) = ListingAt(d)
  BY DEF ListingAt
<1>7. \A i : Name(i)' = Name(i) /\ DataAt(i)' = DataAt(i)
  BY <1>2 DEF Name, DataAt
<1>8. Bound' = Bound \cup {d}
  <2>1. Bound = Build(builder) \ pending
    BY <1>2 DEF Bound
  <2>2. Bound' = Build(builder) \ (pending \ {d})
    BY <1>1, <1>2, <1>5 DEF Bound
  <2> QED
    BY <1>3, <2>1, <2>2
<1> HIDE DEF q, h
<1>9. Progress'
  BY <1>1, <1>2, <1>3, <1>5 DEF Progress
<1>10. RouterInv'
  <2>1. /\ \A i \in 1..bound : DataAt(i) \in SUBSET routes
        /\ \A c \in Bound : ListingAt(c) \in SUBSET routes
        /\ \A r \in routes : \/ \E i \in 1..bound : r \in DataAt(i)
                             \/ \E c \in Bound : r \in ListingAt(c)
        /\ \A i, j \in 1..bound : i # j => Name(i) # Name(j)
        /\ \A i \in 1..bound : \A c \in Bound : Name(i) # Names(c.Endpoint)
    BY DEF RouterInv
  <2>2. \A i \in 1..bound : DataAt(i) \in SUBSET routes'
    BY <1>5, <2>1
  <2>3. \A c \in Bound \cup {d} : ListingAt(c) \in SUBSET routes'
    BY <1>5, <1>6, <2>1
  <2>4. \A r \in routes' : \/ \E i \in 1..bound : r \in DataAt(i)
                           \/ \E c \in Bound \cup {d} : r \in ListingAt(c)
    BY <1>5, <1>6, <2>1
  <2>5. \A i \in 1..bound : Name(i) # q
    BY <1>5, <2>1, Free DEF DataAt
  <2>6. \A i \in 1..bound : \A c \in Bound \cup {d} : Name(i) # Names(c.Endpoint)
    BY <2>1, <2>5 DEF q
  <2>7. \A c : ListingAt(c)' = ListingAt(c)
    BY DEF ListingAt
  <2> QED
    BY <1>2, <1>7, <1>8, <2>1, <2>2, <2>3, <2>4, <2>6, <2>7 DEF RouterInv
<1> QED
  BY <1>9, <1>10

LEMMA ConfiguredInv ==
    ASSUME dataRoutes \in Tables, Progress, RouterInv, Configured
    PROVE  (Progress /\ RouterInv)'
<1>1. /\ pc = "static" /\ pending = {} /\ pc' = "done" /\ pending' = pending
      /\ dataRoutes' = dataRoutes /\ bound' = bound /\ builder' = builder /\ routes' = routes
  BY DEF Configured
<1>2. Progress'
  BY <1>1 DEF Progress
<1>3. Bound' = Bound
  BY <1>1 DEF Bound
<1>4. \A i : Name(i)' = Name(i) /\ DataAt(i)' = DataAt(i)
  BY <1>1 DEF Name, DataAt
<1>5. RouterInv'
  BY <1>1, <1>3, <1>4 DEF RouterInv
<1> QED
  BY <1>2, <1>5

LEMMA StepInv == Inv /\ [Next]_vars => Inv'
<1> SUFFICES ASSUME Inv, [Next]_vars PROVE Inv'
  OBVIOUS
<1>1. /\ dataRoutes \in Tables /\ pc \in {"data", "static", "done", "panicked"}
      /\ pc = "panicked" => Conflict
      /\ pc # "panicked" => Progress /\ RouterInv
  BY DEF Inv
<1>2. dataRoutes' = dataRoutes
  BY DEF Next, vars, BindData, BuildStatic, BindStatic, Configured
<1>3. Conflict' <=> Conflict
  BY <1>2 DEF Conflict
<1>4. CASE BindData
  <2>1. pc = "data" /\ bound < Len(dataRoutes) /\ GET(dataRoutes[bound + 1], [data |-> dataRoutes[bound + 1]])
    BY <1>4 DEF BindData
  <2>2. Progress /\ RouterInv
    BY <1>1, <2>1
  <2>3. IsPath(dataRoutes[bound + 1])
    <3>1. bound + 1 \in 1..Len(dataRoutes)
      BY <1>1, <2>1, <2>2, BoundFacts, TableFacts
    <3> QED
      BY <1>1, <3>1, TableFacts
  <2>4. CASE pc' = "panicked"
    <3>1. \E r \in routes : r.path \in {Name(bound + 1), Append(Name(bound + 1), Empty)}
      BY <2>1, <2>3, <2>4, GetFacts DEF Name
    <3>2. Conflict
      BY <1>1, <2>1, <2>2, <3>1, BindDataPanics
    <3> QED
      BY <1>1, <1>2, <1>3, <2>4, <3>2 DEF Inv
  <2>5. CASE pc' # "panicked"
    <3>1. (Progress /\ RouterInv)'
      BY <1>1, <1>4, <2>2, <2>5, BindDataInv
    <3>2. pc' = "data"
      BY <2>1, <2>3, <2>5, GetFacts
    <3> QED
      BY <1>1, <1>2, <3>1, <3>2 DEF Inv
  <2> QED
    BY <2>4, <2>5
<1>5. CASE BuildStatic
  <2>1. pc = "data" /\ pc' = "static"
    BY <1>5 DEF BuildStatic
  <2>2. (Progress /\ RouterInv)'
    BY <1>1, <1>5, <2>1, BuildStaticInv
  <2> QED
    BY <1>1, <1>2, <2>1, <2>2 DEF Inv
<1>6. CASE BindStatic
  <2>1. PICK d \in pending : GET(d.Endpoint, [listing |-> d.Children])
    BY <1>6 DEF BindStatic
  <2>2. pc = "static" /\ Progress /\ RouterInv
    BY <1>1, <1>6 DEF BindStatic
  <2>3. IsPath(d.Endpoint)
    BY <1>1, <2>2, ListingFacts DEF Progress
  <2>4. CASE pc' = "panicked"
    <3>1. \E r \in routes : r.path \in {Names(d.Endpoint), Append(Names(d.Endpoint), Empty)}
      BY <2>1, <2>2, <2>3, <2>4, GetFacts
    <3>2. Conflict
      BY <1>1, <2>2, <3>1, BindStaticPanics
    <3> QED
      BY <1>1, <1>2, <1>3, <2>4, <3>2 DEF Inv
  <2>5. CASE pc' # "panicked"
    <3>1. (Progress /\ RouterInv)'
      BY <1>1, <1>6, <2>2, <2>5, BindStaticInv
    <3>2. pc' = "static"
      BY <2>1, <2>2, <2>3, <2>5, GetFacts
    <3> QED
      BY <1>1, <1>2, <3>1, <3>2 DEF Inv
  <2> QED
    BY <2>4, <2>5
<1>7. CASE Configured
  <2>1. pc = "static" /\ pc' = "done"
    BY <1>7 DEF Configured
  <2>2. (Progress /\ RouterInv)'
    BY <1>1, <1>7, <2>1, ConfiguredInv
  <2> QED
    BY <1>1, <1>2, <2>1, <2>2 DEF Inv
<1>8. CASE UNCHANGED vars
  BY <1>8 DEF vars, Inv, Progress, RouterInv, Bound, Conflict, DataAt, ListingAt, Name
<1> QED
  BY <1>4, <1>5, <1>6, <1>7, <1>8 DEF Next

\* While Configure goes through the table, the router serves the endpoints and
\* listings bound so far, each at a place of its own, and a panic means that the
\* table has a conflict, for any set of tables (frontend.go:73-86).
THEOREM Invariant == Spec => []Inv
BY InitInv, StepInv, PTL DEF Spec

-----------------------------------------------------------------------------
(* Panics *)

LEMMA DoneFacts ==
    ASSUME Inv, pc = "done"
    PROVE  /\ dataRoutes \in Tables /\ Progress /\ RouterInv
           /\ bound = Len(dataRoutes) /\ DOMAIN dataRoutes = 1..bound
           /\ Bound = Build(builder)
<1>1. dataRoutes \in Tables /\ Progress /\ RouterInv
  BY DEF Inv
<1>2. bound = Len(dataRoutes) /\ pending = {}
  BY <1>1 DEF Progress
<1> QED
  BY <1>1, <1>2, TableFacts DEF Bound

\* Once all is bound, no directory has an endpoint's name.
LEMMA NoDirectoryIsData ==
    ASSUME Inv, pc = "done", NEW x \in builder, NEW q, IsDir(q), x[1] = Rooted(q),
           NEW i \in DOMAIN dataRoutes
    PROVE  Name(i) # q
<1>1. PICK d \in Build(builder) : d.Endpoint = Rooted(q)
  BY DoneFacts, ListingFacts
<1>2. Names(d.Endpoint) = q
  BY <1>1, DirectoryFacts
<1> QED
  BY <1>1, <1>2, DoneFacts DEF RouterInv

LEMMA NoConflictWhenDone ==
    ASSUME Inv, pc = "done"
    PROVE  ~Conflict
<1>1. ASSUME NEW i \in DOMAIN dataRoutes, Last(dataRoutes[i]) = Empty
      PROVE  FALSE
  <2>1. PICK c : <<Rooted(Name(i)), c>> \in builder
    BY <1>1, DoneFacts, ParentFacts
  <2>2. IsDir(Name(i))
    BY <1>1, DoneFacts, BoundFacts
  <2> DEFINE x == <<Rooted(Name(i)), c>>
  <2>3. x \in builder /\ x[1] = Rooted(Name(i))
    BY <2>1
  <2> HIDE DEF x
  <2> QED
    BY <2>2, <2>3, NoDirectoryIsData
<1>2. ASSUME NEW i \in DOMAIN dataRoutes, NEW j \in DOMAIN dataRoutes, i # j,
             IsPrefix(Name(i), Name(j))
      PROVE  FALSE
  <2> DEFINE m == Name(i)
             n == Name(j)
             k == Len(m)
  <2>1. IsDir(m) /\ IsDir(n) /\ m # n
    BY <1>2, DoneFacts, BoundFacts DEF RouterInv
  <2>2. m \in String /\ n \in String /\ k \in Nat /\ Len(n) \in Nat
    BY <2>1, StringFacts DEF IsDir
  <2>3. k <= Len(n) /\ \A l \in 1..k : m[l] = n[l]
    BY <1>2, <2>2, PrefixMeans
  <2>4. k # Len(n)
    <3> HIDE DEF m, n
    <3> QED
      BY <2>1, <2>2, <2>3, Same
  <2>5. k \in 0..(Len(n) - 1) /\ k \in 0..Len(n)
    BY <2>2, <2>3, <2>4
  <2>6. Upto(n, k) = m
    <3> DEFINE u == Upto(n, k)
    <3>1. IsDir(u) /\ Len(u) = k /\ \A l \in 1..k : u[l] = n[l]
      BY <2>1, <2>5, UptoFacts
    <3> HIDE DEF u, m, n
    <3> QED
      BY <2>2, <2>3, <3>1, Same DEF IsDir, u, k
  <2> DEFINE x == <<Rooted(Upto(n, k)), n[k + 1]>>
  <2>7. x \in builder
    BY <2>5, DoneFacts, ParentFacts
  <2>8. x[1] = Rooted(m)
    BY <2>6
  <2> HIDE DEF x, m
  <2> QED
    BY <2>1, <2>7, <2>8, NoDirectoryIsData DEF m
<1> QED
  BY <1>1, <1>2 DEF Conflict, Name

\* The tables Configure accepts are those where no value is also a directory and
\* no value is named twice; hegel panics at startup over any other
\* (frontend.go:73-86).
THEOREM PanicsExactlyOnConflict == Spec => []PanicsOnConflict
<1>1. Inv => PanicsOnConflict
  BY NoConflictWhenDone DEF Inv, PanicsOnConflict
<1> QED
  BY <1>1, Invariant, PTL

-----------------------------------------------------------------------------
(* Listings *)

LEMMA ListingBound ==
    ASSUME Inv, pc = "done", NEW d \in Build(builder)
    PROVE  /\ [path |-> Names(d.Endpoint), serves |-> [listing |-> d.Children]] \in routes
           /\ [path |-> Append(Names(d.Endpoint), Empty), serves |-> [listing |-> d.Children]]
                 \in routes
BY DoneFacts DEF RouterInv, ListingAt, RoutesAt

\* Every value is found by following listings from the root
\* (staticroute.go:29-47).
THEOREM EveryRouteIsListed == Spec => []EveryRouteListed
<1>1. ASSUME Inv, pc = "done", NEW i \in DOMAIN dataRoutes, NEW k \in DOMAIN Names(dataRoutes[i])
      PROVE  \E r \in Listings :
                /\ r.path = SubSeq(Names(dataRoutes[i]), 1, k - 1)
                /\ \E c \in r.serves.listing : c.name = Names(dataRoutes[i])[k]
  <2> DEFINE n == Name(i)
             l == k - 1
             q == Upto(n, l)
             x == <<Rooted(q), n[l + 1]>>
  <2>1. IsDir(n)
    BY <1>1, DoneFacts, BoundFacts
  <2>2. Len(n) \in Nat /\ k \in 1..Len(n)
    <3>1. n \in Seq(Words)
      BY <2>1 DEF IsDir, String
    <3>2. Len(n) \in Nat /\ DOMAIN n = 1..Len(n)
      BY <3>1, LenProperties
    <3> QED
      BY <1>1, <3>2 DEF Name
  <2> HIDE DEF n
  <2>3. l \in 0..(Len(n) - 1) /\ l \in 0..Len(n) /\ l + 1 = k
    BY <2>2
  <2> HIDE DEF l
  <2>4. x \in builder
    BY <1>1, <2>3, DoneFacts, ParentFacts DEF n
  <2>5. IsDir(q)
    BY <2>1, <2>3, UptoFacts
  <2> HIDE DEF q
  <2>6. x[1] = Rooted(q) /\ x[2] = n[k]
    BY <2>3
  <2> HIDE DEF x
  <2>7. PICK d \in Build(builder) : d.Endpoint = Rooted(q)
    BY <1>1, <2>4, <2>6, DoneFacts, ListingFacts
  <2>8. Names(d.Endpoint) = q
    BY <2>5, <2>7, DirectoryFacts
  <2> DEFINE c == [name |-> x[2], dir |-> Append(d.Endpoint, x[2]) \in Parents(builder)]
             r == [path |-> q, serves |-> [listing |-> d.Children]]
  <2>9. c \in d.Children /\ c.name = n[k]
    <3>1. d.Children = {[name |-> e[2], dir |-> Append(d.Endpoint, e[2]) \in Parents(builder)] :
                           e \in {f \in builder : f[1] = d.Endpoint}}
      BY BuildFacts DEF Directory
    <3> QED
      BY <2>4, <2>6, <2>7, <3>1
  <2>10. r \in routes
    BY <1>1, <2>8, ListingBound
  <2> HIDE DEF c
  <2>11. r \in Listings /\ r.path = q /\ r.serves.listing = d.Children
    BY <2>5, <2>10, NotSlashed DEF Listings
  <2>12. q = SubSeq(Names(dataRoutes[i]), 1, k - 1)
    BY DEF q, Upto, n, l, Name
  <2> HIDE DEF r
  <2> QED
    BY <2>9, <2>11, <2>12 DEF n, Name
<1>2. Inv => EveryRouteListed
  BY <1>1 DEF EveryRouteListed
<1> QED
  BY <1>2, Invariant, PTL

LEMMA UptoNext ==
    ASSUME NEW n, IsDir(n), NEW k \in 0..(Len(n) - 1)
    PROVE  Upto(n, k + 1) = Append(Upto(n, k), n[k + 1])
<1> DEFINE l == k + 1
           u == Upto(n, l)
           q == Upto(n, k)
           a == Append(q, n[l])
<1>1. n \in String /\ Len(n) \in Nat /\ \A i \in 1..Len(n) : n[i] \in Words
  BY StringFacts DEF IsDir
<1>2. k \in 0..Len(n) /\ l \in 0..Len(n) /\ l \in 1..Len(n) /\ k + 1 = l
  BY <1>1
<1> HIDE DEF l
<1>3. u \in String /\ Len(u) = l /\ \A i \in 1..l : u[i] = n[i]
  BY <1>2, UptoFacts DEF IsDir
<1>4. q \in String /\ Len(q) = k /\ \A i \in 1..k : q[i] = n[i]
  BY <1>2, UptoFacts DEF IsDir
<1> HIDE DEF u, q
<1>5. /\ a \in String /\ Len(a) = k + 1 /\ \A i \in 1..k : a[i] = q[i]
      /\ a[k + 1] = n[l]
  BY <1>1, <1>2, <1>4, AppendFacts
<1> HIDE DEF a
<1>6. ASSUME NEW i \in 1..Len(u)
      PROVE  u[i] = a[i]
  <2>1. CASE i = l
    BY <1>2, <1>3, <1>5, <2>1
  <2>2. CASE i # l
    <3>1. i \in 1..k /\ i \in 1..l
      BY <1>2, <1>3, <2>2
    <3> QED
      BY <1>3, <1>4, <1>5, <3>1
  <2> QED
    BY <2>1, <2>2
<1>7. u = a
  BY <1>2, <1>3, <1>5, <1>6, Same
<1> QED
  BY <1>7 DEF u, a, q, l

LEMMA Below ==
    ASSUME NEW q \in String, NEW x \in Words
    PROVE  q \o <<x>> = Append(q, x) /\ q \o <<x, Empty>> = Append(Append(q, x), Empty)
<1>1. q \in Seq(Words) /\ Empty \in Words /\ Append(q, x) \in Seq(Words)
  BY AppendFacts, TablesAssumption DEF String
<1>2. <<x>> \in Seq(Words) /\ <<Empty>> \in Seq(Words)
  BY <1>1
<1>3. <<x>> \o <<Empty>> = <<x, Empty>>
  <2> DEFINE a == <<x>> \o <<Empty>>
             b == <<x, Empty>>
  <2>1. Len(<<x>>) = 1 /\ <<x>>[1] = x /\ Len(<<Empty>>) = 1 /\ <<Empty>>[1] = Empty
    OBVIOUS
  <2>2. /\ a \in Seq(Words) /\ Len(a) = 1 + 1
        /\ \A i \in 1..(1 + 1) : a[i] = IF i <= 1 THEN <<x>>[i] ELSE <<Empty>>[i - 1]
    BY <1>2, <2>1, ConcatProperties
  <2>3. a[1] = x /\ a[2] = Empty
    BY <2>1, <2>2
  <2>4. b \in Seq(Words) /\ Len(b) = 2 /\ b[1] = x /\ b[2] = Empty
    BY <1>1
  <2> HIDE DEF a, b
  <2>5. \A i \in 1..2 : a[i] = b[i]
    BY <2>3, <2>4
  <2>6. Len(a) = Len(b) /\ \A i \in 1..Len(a) : a[i] = b[i]
    BY <2>2, <2>4, <2>5
  <2>7. a = b
    BY <2>2, <2>4, <2>6, SeqEqual
  <2> QED
    BY <2>7 DEF a, b
<1>4. Append(q, x) = q \o <<x>> /\ Append(Append(q, x), Empty) = Append(q, x) \o <<Empty>>
  BY <1>1, AppendIsConcat
<1>5. (q \o <<x>>) \o <<Empty>> = q \o (<<x>> \o <<Empty>>)
  BY <1>1, <1>2, ConcatAssociative
<1> QED
  BY <1>4, <1>5, <1>3

LEMMA ListingsAre ==
    ASSUME Inv, pc = "done", NEW r \in Listings
    PROVE  \E d \in Build(builder) : /\ r.path = Names(d.Endpoint)
                                     /\ r.serves.listing = d.Children
<1>1. r \in routes /\ DOMAIN r.serves = {"listing"} /\ ~TrailingSlash(r.path)
  BY DEF Listings
<1>2. \A i : r \notin DataAt(i)
  <2> SUFFICES ASSUME NEW i, r \in DataAt(i)
               PROVE  FALSE
    OBVIOUS
  <2>1. r.serves = [data |-> dataRoutes[i]]
    BY DEF DataAt, RoutesAt
  <2>2. "data" \in DOMAIN r.serves
    BY <2>1
  <2> QED
    BY <1>1, <2>2
<1>3. PICK d \in Build(builder) : r \in ListingAt(d)
  BY <1>1, <1>2, DoneFacts DEF RouterInv
<1> DEFINE q == Names(d.Endpoint)
<1>4. r.path \in {q, Append(q, Empty)} /\ r.serves = [listing |-> d.Children]
  BY <1>3 DEF ListingAt, RoutesAt
<1>5. q \in String
  BY DoneFacts, ListingFacts DEF IsDir
<1> HIDE DEF q
<1>6. TrailingSlash(Append(q, Empty))
  <2>1. /\ Append(q, Empty) # <<>> /\ Len(Append(q, Empty)) = Len(q) + 1
        /\ Append(q, Empty)[Len(q) + 1] = Empty
    BY <1>5, AppendProperties, TablesAssumption DEF String
  <2> QED
    BY <2>1 DEF TrailingSlash, Last
<1>7. r.path = q
  BY <1>1, <1>4, <1>6
<1>8. r.serves.listing = d.Children
  BY <1>4
<1> QED
  BY <1>7, <1>8 DEF q

\* A client that follows a listing finds what the listing says: a directory
\* where it is marked as one, a value where it is not
\* (staticroute.go:52-80, frontend.go:84-86).
THEOREM ListingsAreTrue == Spec => []ListingsResolve
<1>1. ASSUME Inv, pc = "done", NEW r \in Listings, NEW c \in r.serves.listing
      PROVE  \E s \in Serves(r.path \o IF c.dir THEN <<c.name, Empty>> ELSE <<c.name>>) :
                DOMAIN s = {IF c.dir THEN "listing" ELSE "data"}
  <2>1. dataRoutes \in Tables /\ Progress /\ RouterInv /\ ~Conflict
    BY <1>1, DoneFacts, NoConflictWhenDone
  <2>2. PICK d \in Build(builder) : r.path = Names(d.Endpoint) /\ r.serves.listing = d.Children
    BY <1>1, ListingsAre
  <2> DEFINE q == Names(d.Endpoint)
  <2>3. IsDir(q) /\ q \in String /\ d.Endpoint = Rooted(q)
    BY <2>1, <2>2, ListingFacts DEF IsDir
  <2>4. PICK x \in builder : /\ x[1] = Rooted(q)
                             /\ c = [name |-> x[2], dir |-> Append(Rooted(q), x[2]) \in Parents(builder)]
    <3>1. d.Children = {[name |-> e[2], dir |-> Append(d.Endpoint, e[2]) \in Parents(builder)] :
                           e \in {f \in builder : f[1] = d.Endpoint}}
      BY BuildFacts DEF Directory
    <3> HIDE DEF q
    <3> QED
      BY <1>1, <2>2, <2>3, <3>1
  <2>5. c.name = x[2] /\ c.dir = (Append(Rooted(q), x[2]) \in Parents(builder))
    BY <2>4
  <2>6. PICK i \in 1..bound : \E k \in 0..Len(Name(i)) :
           /\ x[1] = Rooted(Upto(Name(i), k))
           /\ \/ k < Len(Name(i)) /\ x[2] = Name(i)[k + 1]
              \/ k = Len(Name(i)) /\ Last(dataRoutes[i]) = Empty
    BY <2>1, ParentFacts
  <2> DEFINE n == Name(i)
  <2>7. Last(dataRoutes[i]) # Empty /\ IsDir(n)
    BY <1>1, <2>1, BoundFacts, DoneFacts DEF Conflict
  <2>8. n \in String /\ Len(n) \in Nat /\ \A k \in 1..Len(n) : n[k] \in Words
    BY <2>7, StringFacts DEF IsDir
  <2> HIDE DEF q
  <2>9. PICK k \in 0..(Len(n) - 1) : x[1] = Rooted(Upto(n, k)) /\ x[2] = n[k + 1]
    BY <2>6, <2>7, <2>8
  <2> HIDE DEF n
  <2>10. k \in 0..Len(n) /\ k + 1 \in 0..Len(n) /\ k + 1 \in 1..Len(n)
    BY <2>8
  <2>11. q = Upto(n, k)
    BY <2>3, <2>4, <2>7, <2>9, <2>10, UptoFacts, SamePlace
  <2>12. x[2] \in Words
    BY <2>8, <2>9, <2>10
  <2> DEFINE u == Append(q, x[2])
  <2>13. u = Upto(n, k + 1) /\ IsDir(u)
    BY <2>7, <2>9, <2>10, <2>11, UptoNext, UptoFacts
  <2>14. Append(Rooted(q), x[2]) = Rooted(u)
    BY <2>3, <2>12, RootedAppend
  <2>15. q \o <<x[2]>> = u /\ q \o <<x[2], Empty>> = Append(u, Empty)
    BY <2>3, <2>12, Below
  <2> HIDE DEF u
  <2>16. CASE c.dir
    <3>1. Rooted(u) \in Parents(builder)
      BY <2>5, <2>14, <2>16
    <3>2. PICK y \in builder : y[1] = Rooted(u)
      BY <3>1 DEF Parents
    <3>3. PICK e \in Build(builder) : e.Endpoint = Rooted(u)
      BY <2>1, <3>2, ListingFacts
    <3>4. Names(e.Endpoint) = u
      BY <2>13, <3>3, DirectoryFacts
    <3> DEFINE h == [listing |-> e.Children]
               t == [path |-> Append(u, Empty), serves |-> h]
    <3>5. t \in routes
      BY <1>1, <3>4, ListingBound
    <3>6. h \in Serves(Append(u, Empty))
      BY <3>5 DEF Serves
    <3>7. DOMAIN h = {"listing"}
      OBVIOUS
    <3> HIDE DEF h
    <3> QED
      BY <2>2, <2>5, <2>15, <2>16, <3>6, <3>7 DEF q
  <2>17. CASE ~c.dir
    <3>1. k + 1 = Len(n)
      <4> SUFFICES ASSUME k + 1 # Len(n)
                   PROVE  FALSE
        OBVIOUS
      <4> DEFINE l == k + 1
      <4>1. l \in 0..(Len(n) - 1)
        BY <2>8, <2>10
      <4> HIDE DEF l
      <4> DEFINE y == <<Rooted(Upto(n, l)), n[l + 1]>>
      <4>2. y \in builder
        BY <2>1, <4>1, ParentFacts DEF n
      <4>3. y[1] = Rooted(u)
        BY <2>13 DEF l
      <4> HIDE DEF y
      <4>4. Rooted(u) \in Parents(builder)
        BY <4>2, <4>3 DEF Parents
      <4> QED
        BY <2>5, <2>14, <2>17, <4>4
    <3>2. u = n
      BY <2>8, <2>13, <3>1, SubSeqFull DEF Upto, String
    <3> DEFINE h == [data |-> dataRoutes[i]]
               t == [path |-> u, serves |-> h]
    <3>3. t \in routes
      BY <2>1, <3>2 DEF RouterInv, DataAt, RoutesAt, n
    <3>4. h \in Serves(u)
      BY <3>3 DEF Serves
    <3>5. DOMAIN h = {"data"}
      OBVIOUS
    <3> HIDE DEF h
    <3> QED
      BY <2>2, <2>5, <2>15, <2>17, <3>4, <3>5 DEF q
  <2> QED
    BY <2>16, <2>17
<1>2. Inv => ListingsResolve
  BY <1>1 DEF ListingsResolve
<1> QED
  BY <1>2, Invariant, PTL

-----------------------------------------------------------------------------
(* Hegel's own table *)

Row(i) == hegelRoutes[i]
Size(i) == Len(Row(i))

LEMMA Rows ==
    /\ DOMAIN hegelRoutes = 1..17
    /\ Row(1) = <<Empty, "user-data">>
    /\ Row(2) = <<Empty, "meta-data", "instance-id">>
    /\ Row(3) = <<Empty, "meta-data", "hostname">>
    /\ Row(4) = <<Empty, "meta-data", "local-hostname">>
    /\ Row(5) = <<Empty, "meta-data", "iqn">>
    /\ Row(6) = <<Empty, "meta-data", "plan">>
    /\ Row(7) = <<Empty, "meta-data", "facility">>
    /\ Row(8) = <<Empty, "meta-data", "tags">>
    /\ Row(9) = <<Empty, "meta-data", "public-ipv4">>
    /\ Row(10) = <<Empty, "meta-data", "public-ipv6">>
    /\ Row(11) = <<Empty, "meta-data", "local-ipv4">>
    /\ Row(12) = <<Empty, "meta-data", "public-keys">>
    /\ Row(13) = <<Empty, "meta-data", "operating-system", "slug">>
    /\ Row(14) = <<Empty, "meta-data", "operating-system", "distro">>
    /\ Row(15) = <<Empty, "meta-data", "operating-system", "version">>
    /\ Row(16) = <<Empty, "meta-data", "operating-system", "image_tag">>
    /\ Row(17) = <<Empty, "meta-data", "operating-system", "license_activation", "state">>
BY DEF hegelRoutes, Row

LEMMA Lengths ==
    /\ Size(1) = 2
    /\ \A i \in 2..12 : Size(i) = 3
    /\ \A i \in 13..16 : Size(i) = 4
    /\ Size(17) = 5
BY Rows DEF Size

LEMMA Elements ==
    /\ Row(1)[2] = "user-data"
    /\ \A i \in 2..17 : Row(i)[2] = "meta-data"
    /\ Row(2)[3] = "instance-id"
    /\ Row(3)[3] = "hostname"
    /\ Row(4)[3] = "local-hostname"
    /\ Row(5)[3] = "iqn"
    /\ Row(6)[3] = "plan"
    /\ Row(7)[3] = "facility"
    /\ Row(8)[3] = "tags"
    /\ Row(9)[3] = "public-ipv4"
    /\ Row(10)[3] = "public-ipv6"
    /\ Row(11)[3] = "local-ipv4"
    /\ Row(12)[3] = "public-keys"
    /\ \A i \in 13..17 : Row(i)[3] = "operating-system"
    /\ Row(13)[4] = "slug"
    /\ Row(14)[4] = "distro"
    /\ Row(15)[4] = "version"
    /\ Row(16)[4] = "image_tag"
    /\ Row(17)[4] = "license_activation"
    /\ Row(17)[5] = "state"
BY Rows

LEMMA ThirdIsItsOwn ==
    \A i \in 2..12, j \in 2..17 : i # j => Row(i)[3] # Row(j)[3]
<1>2. \A j \in 2..17 : j # 2 => Row(2)[3] # Row(j)[3]
  BY Elements
<1>3. \A j \in 2..17 : j # 3 => Row(3)[3] # Row(j)[3]
  BY Elements
<1>4. \A j \in 2..17 : j # 4 => Row(4)[3] # Row(j)[3]
  BY Elements
<1>5. \A j \in 2..17 : j # 5 => Row(5)[3] # Row(j)[3]
  BY Elements
<1>6. \A j \in 2..17 : j # 6 => Row(6)[3] # Row(j)[3]
  BY Elements
<1>7. \A j \in 2..17 : j # 7 => Row(7)[3] # Row(j)[3]
  BY Elements
<1>8. \A j \in 2..17 : j # 8 => Row(8)[3] # Row(j)[3]
  BY Elements
<1>9. \A j \in 2..17 : j # 9 => Row(9)[3] # Row(j)[3]
  BY Elements
<1>10. \A j \in 2..17 : j # 10 => Row(10)[3] # Row(j)[3]
  BY Elements
<1>11. \A j \in 2..17 : j # 11 => Row(11)[3] # Row(j)[3]
  BY Elements
<1>12. \A j \in 2..17 : j # 12 => Row(12)[3] # Row(j)[3]
  BY Elements
<1> QED
  BY <1>2, <1>3, <1>4, <1>5, <1>6, <1>7, <1>8, <1>9, <1>10, <1>11, <1>12

LEMMA FourthIsItsOwn ==
    \A i \in 13..17, j \in 13..17 : i # j => Row(i)[4] # Row(j)[4]
<1>13. \A j \in 13..17 : j # 13 => Row(13)[4] # Row(j)[4]
  BY Elements
<1>14. \A j \in 13..17 : j # 14 => Row(14)[4] # Row(j)[4]
  BY Elements
<1>15. \A j \in 13..17 : j # 15 => Row(15)[4] # Row(j)[4]
  BY Elements
<1>16. \A j \in 13..17 : j # 16 => Row(16)[4] # Row(j)[4]
  BY Elements
<1>17. \A j \in 13..17 : j # 17 => Row(17)[4] # Row(j)[4]
  BY Elements
<1> QED
  BY <1>13, <1>14, <1>15, <1>16, <1>17

\* No row of hegel's table is a prefix of another.
LEMMA Distinct ==
    ASSUME NEW i \in 1..17, NEW j \in 1..17, i # j, Size(i) <= Size(j)
    PROVE  \E k \in 2..Size(i) : Row(i)[k] # Row(j)[k]
<1>1. CASE i = 1
  <2>1. j \in 2..17
    BY <1>1
  <2>2. Row(1)[2] # Row(j)[2]
    BY <2>1, Elements
  <2>3. 2 \in 2..Size(1)
    BY Lengths
  <2> QED
    BY <1>1, <2>2, <2>3
<1>2. CASE i \in 2..12
  <2>1. Size(i) = 3
    BY <1>2, Lengths
  <2>2. j # 1
    BY <2>1, Lengths
  <2>3. Row(i)[3] # Row(j)[3]
    BY <1>2, <2>2, ThirdIsItsOwn
  <2>4. 3 \in 2..Size(i)
    BY <2>1
  <2> QED
    BY <2>3, <2>4
<1>3. CASE i \in 13..17
  <2>1. Size(i) \in {4, 5}
    BY <1>3, Lengths
  <2>2. j # 1 /\ ~(j \in 2..12)
    BY <2>1, Lengths
  <2>3. j \in 13..17
    BY <2>2
  <2>4. Row(i)[4] # Row(j)[4]
    BY <1>3, <2>3, FourthIsItsOwn
  <2>5. 4 \in 2..Size(i)
    BY <2>1
  <2> QED
    BY <2>4, <2>5
<1> QED
  BY <1>1, <1>2, <1>3
LEMMA WordsAreWords ==
    /\ "user-data" # Empty
    /\ "instance-id" # Empty
    /\ "hostname" # Empty
    /\ "local-hostname" # Empty
    /\ "iqn" # Empty
    /\ "plan" # Empty
    /\ "facility" # Empty
    /\ "tags" # Empty
    /\ "public-ipv4" # Empty
    /\ "public-ipv6" # Empty
    /\ "local-ipv4" # Empty
    /\ "public-keys" # Empty
    /\ "slug" # Empty
    /\ "distro" # Empty
    /\ "version" # Empty
    /\ "image_tag" # Empty
    /\ "state" # Empty
BY Zenon DEF Empty

LEMMA LastElements ==
    /\ Row(1)[Size(1)] = "user-data"
    /\ Row(2)[Size(2)] = "instance-id"
    /\ Row(3)[Size(3)] = "hostname"
    /\ Row(4)[Size(4)] = "local-hostname"
    /\ Row(5)[Size(5)] = "iqn"
    /\ Row(6)[Size(6)] = "plan"
    /\ Row(7)[Size(7)] = "facility"
    /\ Row(8)[Size(8)] = "tags"
    /\ Row(9)[Size(9)] = "public-ipv4"
    /\ Row(10)[Size(10)] = "public-ipv6"
    /\ Row(11)[Size(11)] = "local-ipv4"
    /\ Row(12)[Size(12)] = "public-keys"
    /\ Row(13)[Size(13)] = "slug"
    /\ Row(14)[Size(14)] = "distro"
    /\ Row(15)[Size(15)] = "version"
    /\ Row(16)[Size(16)] = "image_tag"
    /\ Row(17)[Size(17)] = "state"
BY Lengths, Elements

LEMMA LastIsNotEmpty ==
    ASSUME NEW i \in 1..17
    PROVE  Row(i)[Size(i)] # Empty
BY LastElements, WordsAreWords

LEMMA HegelNames ==
    ASSUME dataRoutes \in Tables, dataRoutes = hegelRoutes, NEW i \in 1..17
    PROVE  /\ Last(dataRoutes[i]) # Empty
           /\ Name(i) \in String /\ Len(Name(i)) = Size(i) - 1
           /\ \A k \in 1..(Size(i) - 1) : Name(i)[k] = Row(i)[k + 1]
<1> DEFINE e == Row(i)
<1>1. dataRoutes[i] = e /\ IsPath(e)
  BY TableFacts, Rows DEF Row
<1>2. e \in String /\ Len(e) > 0 /\ Size(i) = Len(e)
  BY <1>1, PathFacts DEF Size
<1>3. e[1] = Empty
  BY Rows
<1> HIDE DEF e
<1>4. Last(e) # Empty
  BY <1>2, LastIsNotEmpty DEF Last, e
<1>5. Head(e) = Empty
  BY <1>2, <1>3, TailFacts
<1>6. Joined(e) = Tail(e)
  BY <1>5 DEF Joined
<1>7. Names(e) = Tail(e)
  BY <1>1, <1>4, <1>6, PathNames
<1> QED
  BY <1>1, <1>2, <1>4, <1>7, TailFacts DEF Name, e

\* No entry of hegel's table lies on the way to another.
LEMMA HegelHasNoConflict ==
    ASSUME dataRoutes \in Tables, dataRoutes = hegelRoutes
    PROVE  ~Conflict
<1>1. DOMAIN dataRoutes = 1..17
  BY Rows
<1>2. ASSUME NEW i \in 1..17, NEW j \in 1..17, i # j, IsPrefix(Name(i), Name(j))
      PROVE  FALSE
  <2>1. Size(i) \in Nat /\ Size(j) \in Nat
    BY Lengths
  <2>2. Len(Name(i)) <= Len(Name(j)) /\ \A k \in 1..Len(Name(i)) : Name(i)[k] = Name(j)[k]
    BY <1>2, HegelNames, PrefixMeans
  <2>3. Size(i) <= Size(j)
    <3> DEFINE m == Len(Name(i))
               n == Len(Name(j))
    <3>1. m <= n /\ m = Size(i) - 1 /\ n = Size(j) - 1
      BY <2>2, HegelNames
    <3> HIDE DEF m, n
    <3> QED
      BY <2>1, <3>1
  <2>4. PICK k \in 2..Size(i) : Row(i)[k] # Row(j)[k]
    BY <1>2, <2>3, Distinct
  <2> DEFINE l == k - 1
  <2>5. l \in 1..(Size(i) - 1) /\ l \in 1..(Size(j) - 1) /\ k = l + 1
    BY <2>1, <2>3
  <2> HIDE DEF l
  <2>6. Name(i)[l] = Name(j)[l]
    BY <2>2, <2>5, HegelNames
  <2>7. Name(i)[l] = Row(i)[l + 1] /\ Name(j)[l] = Row(j)[l + 1]
    BY <2>5, HegelNames
  <2> QED
    BY <2>4, <2>5, <2>6, <2>7
<1> QED
  BY <1>1, <1>2, HegelNames DEF Conflict, Name

\* The table hegel has is one of them (routes.go:9-115): hegel starts.
THEOREM HegelDoesStart == Spec => []HegelStarts
<1>1. Inv => HegelStarts
  BY HegelHasNoConflict DEF Inv, HegelStarts
<1> QED
  BY <1>1, Invariant, PTL

=============================================================================
