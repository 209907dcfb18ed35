--------------------------- MODULE ByteSeqProofs ---------------------------
(***************************************************************************)
(* Lemmas about cutting sequences and putting them together again.         *)
(***************************************************************************)
EXTENDS ByteSeqs, SequencesExt, SequenceTheorems, TLAPS

LEMMA DropProps ==
  ASSUME NEW S, NEW s \in Seq(S), NEW n \in 0 .. Len(s)
  PROVE  /\ Drop(s, n) \in Seq(S)
         /\ Len(Drop(s, n)) = Len(s) - n
         /\ \A i \in 1 .. Len(s) - n : Drop(s, n)[i] = s[n + i]
<1>1. \A i \in n + 1 .. Len(s) : s[i] \in S
  BY ElementOfSeq
<1>2. n + 1 \in Int /\ Len(s) \in Int
  BY LenProperties
<1>3. QED
  BY <1>1, <1>2, SubSeqProperties, LenProperties DEF Drop

LEMMA TakeProps ==
  ASSUME NEW S, NEW s \in Seq(S), NEW n \in 0 .. Len(s)
  PROVE  /\ Take(s, n) \in Seq(S)
         /\ Len(Take(s, n)) = n
         /\ \A i \in 1 .. n : Take(s, n)[i] = s[i]
<1>1. \A i \in 1 .. n : s[i] \in S
  BY ElementOfSeq, LenProperties
<1>2. n \in Nat
  BY LenProperties
<1>3. QED
  BY <1>1, <1>2, SubSeqProperties DEF Take

LEMMA SliceProps ==
  ASSUME NEW S, NEW s \in Seq(S), NEW a \in Nat, NEW k \in Nat,
         a + k <= Len(s)
  PROVE  /\ SubSeq(s, a + 1, a + k) \in Seq(S)
         /\ SubSeq(s, a + 1, a + k) \o Drop(s, a + k) = Drop(s, a)
<1>1. Len(s) \in Nat /\ a + 1 \in Int /\ a + k \in Int
  BY LenProperties
<1>2. \A i \in a + 1 .. a + k : s[i] \in S
  BY <1>1, ElementOfSeq
<1>3. SubSeq(s, a + 1, a + k) \in Seq(S)
  BY <1>1, <1>2, SubSeqProperties
<1>4. a + 1 \in 1 .. Len(s) + 1 /\ a + k \in a .. Len(s)
  BY <1>1
<1>5. SubSeq(s, a + 1, a + k) \o SubSeq(s, a + k + 1, Len(s))
        = SubSeq(s, a + 1, Len(s))
  <2>. DEFINE m == a + 1
              j == a + k
  <2>1. m \in 1 .. Len(s) + 1 /\ j \in m - 1 .. Len(s) /\ Len(s) \in j .. Len(s)
    BY <1>1
  <2>2. SubSeq(s, m, j) \o SubSeq(s, j + 1, Len(s)) = SubSeq(s, m, Len(s))
    <3>. HIDE DEF m, j
    <3>. QED  BY <2>1, ConcatAdjacentSubSeq
  <2>3. QED
    BY <2>2
<1>6. QED
  BY <1>3, <1>5 DEF Drop

LEMMA DropNothing ==
  ASSUME NEW S, NEW s \in Seq(S)
  PROVE  Drop(s, 0) = s
BY SubSeqFull, LenProperties DEF Drop

LEMMA DropEverything ==
  ASSUME NEW S, NEW s \in Seq(S)
  PROVE  Drop(s, Len(s)) = <<>>
BY SubSeqEmpty, LenProperties DEF Drop

LEMMA ConcatHasPrefix ==
  ASSUME NEW S, NEW s \in Seq(S), NEW t \in Seq(S)
  PROVE  IsPrefix(s, s \o t)
<1>1. Len(s) \in Nat /\ Len(t) \in Nat
  BY LenProperties
<1>2. s \o t \in Seq(S) /\ Len(s \o t) = Len(s) + Len(t)
  BY ConcatProperties
<1>3. /\ SubSeq(s \o t, 1, Len(s)) \in Seq(S)
      /\ Len(SubSeq(s \o t, 1, Len(s))) = Len(s)
      /\ \A i \in 1 .. Len(s) : SubSeq(s \o t, 1, Len(s))[i] = (s \o t)[i]
  BY <1>1, <1>2, TakeProps DEF Take
<1>4. \A i \in 1 .. Len(s) : (s \o t)[i] = s[i]
  BY <1>1, ConcatProperties
<1>5. SubSeq(s \o t, 1, Len(s)) = s
  BY <1>3, <1>4, SeqEqual
<1>6. SubSeq(s, 1, Len(s)) = s
  BY SubSeqFull
<1>7. QED
  BY <1>1, <1>2, <1>5, <1>6 DEF IsPrefix

LEMMA ElementsOfSeq ==
  ASSUME NEW S, NEW s \in Seq(S)
  PROVE  ToSet(s) \in SUBSET S
BY ElementOfSeq, LenProperties DEF ToSet

LEMMA TakeDrop ==
  ASSUME NEW S, NEW s \in Seq(S), NEW n \in 0 .. Len(s)
  PROVE  Take(s, n) \o Drop(s, n) = s
<1>1. n \in Nat /\ 0 + n = n /\ 0 + 1 = 1 /\ 0 + n <= Len(s)
  BY LenProperties
<1>2. SubSeq(s, 0 + 1, 0 + n) \o Drop(s, 0 + n) = Drop(s, 0)
  BY <1>1, SliceProps
<1>3. QED
  BY <1>1, <1>2, DropNothing DEF Take

LEMMA JoinAssoc ==
  \A S : \A a, b, c \in Seq(S) : (a \o b) \o c = a \o (b \o c)
BY ConcatAssociative

LEMMA JoinCut ==
  ASSUME NEW S, NEW d \in Seq(S), NEW s \in Seq(S), NEW n \in 0 .. Len(s)
  PROVE  (d \o Take(s, n)) \o Drop(s, n) = d \o s
<1>1. Take(s, n) \in Seq(S) /\ Drop(s, n) \in Seq(S)
  BY TakeProps, DropProps
<1>2. (d \o Take(s, n)) \o Drop(s, n) = d \o (Take(s, n) \o Drop(s, n))
  BY <1>1, JoinAssoc
<1>3. Take(s, n) \o Drop(s, n) = s
  BY TakeDrop
<1>4. QED
  BY <1>2, <1>3, Zenon

\* A prefix is what is in front of the rest.
LEMMA PrefixRest ==
  ASSUME NEW S, NEW s \in Seq(S), NEW t \in Seq(S), IsPrefix(s, t)
  PROVE  \E r \in Seq(S) : t = s \o r
<1>1. Len(s) \in 0 .. Len(t) /\ SubSeq(s, 1, Len(s)) = SubSeq(t, 1, Len(s))
  BY LenProperties DEF IsPrefix
<1>2. Take(t, Len(s)) = s
  BY <1>1, SubSeqFull DEF Take
<1>3. Take(t, Len(s)) \o Drop(t, Len(s)) = t
  BY <1>1, TakeDrop
<1>4. Drop(t, Len(s)) \in Seq(S)
  BY <1>1, DropProps
<1>5. t = s \o Drop(t, Len(s))
  BY <1>2, <1>3
<1>6. QED
  BY <1>4, <1>5

LEMMA PrefixTransitive ==
  ASSUME NEW S, NEW a \in Seq(S), NEW b \in Seq(S), NEW c \in Seq(S),
         IsPrefix(a, b), IsPrefix(b, c)
  PROVE  IsPrefix(a, c)
<1>1. PICK r \in Seq(S) : b = a \o r
  BY PrefixRest
<1>2. PICK q \in Seq(S) : c = b \o q
  BY PrefixRest
<1>3. (a \o r) \o q = a \o (r \o q)
  BY JoinAssoc
<1>4. c = a \o (r \o q)
  BY <1>1, <1>2, <1>3
<1>5. r \o q \in Seq(S)
  BY ConcatProperties
<1>6. QED
  BY <1>4, <1>5, ConcatHasPrefix

LEMMA LongerByConcat ==
  ASSUME NEW S, NEW s \in Seq(S), NEW t \in Seq(S)
  PROVE  s \o t = s \/ IsStrictPrefix(s, s \o t)
BY ConcatHasPrefix DEF IsStrictPrefix

LEMMA OneAtTheEnd ==
  ASSUME NEW S, NEW a \in Seq(S), NEW x \in S
  PROVE  <<x>> \in Seq(S) /\ Append(a, x) = a \o <<x>> /\ Append(a, x) \in Seq(S)
BY AppendIsConcat, AppendProperties

LEMMA FirstOff ==
  ASSUME NEW S, NEW b \in Seq(S), b # <<>>
  PROVE  Head(b) \in S /\ Tail(b) \in Seq(S) /\ <<Head(b)>> \o Tail(b) = b
<1>1. PICK x \in S, t \in Seq(S) : x = Head(b) /\ t = Tail(b)
  BY HeadTailProperties
<1>2. /\ Len(b) \in Nat /\ Len(b) # 0 /\ Len(t) = Len(b) - 1 /\ x = b[1]
      /\ \A i \in 1 .. Len(t) : t[i] = b[i + 1]
  BY <1>1, HeadTailProperties, EmptySeq, LenProperties
<1>3. PICK o : o = <<x>>
  OBVIOUS
<1>4. o \in Seq(S) /\ Len(o) = 1 /\ o[1] = x
  BY <1>1, <1>3
<1>5. PICK j : j = o \o t
  OBVIOUS
<1>6. /\ j \in Seq(S) /\ Len(j) = 1 + Len(t)
      /\ \A i \in 1 .. Len(j) : j[i] = IF i <= 1 THEN o[i] ELSE t[i - 1]
  <2>1. /\ o \o t \in Seq(S) /\ Len(o \o t) = Len(o) + Len(t)
        /\ \A i \in 1 .. Len(o) + Len(t) :
             (o \o t)[i] = IF i <= Len(o) THEN o[i] ELSE t[i - Len(o)]
    BY <1>4, ConcatProperties
  <2>2. QED
    BY <1>4, <1>5, <2>1
<1>7. Len(j) = Len(b)
  BY <1>2, <1>6
<1>8. ASSUME NEW i \in 1 .. Len(b) PROVE j[i] = b[i]
  <2>1. CASE i = 1
    BY <1>2, <1>4, <1>6, <1>7, <2>1
  <2>2. CASE i # 1
    <3>1. i - 1 \in 1 .. Len(t) /\ ~(i <= 1) /\ (i - 1) + 1 = i
      BY <1>2, <2>2
    <3>2. j[i] = t[i - 1]
      BY <1>6, <1>7, <3>1
    <3>3. QED
      BY <1>2, <3>1, <3>2
  <2>3. QED
    BY <2>1, <2>2
<1>9. j = b
  BY <1>6, <1>7, <1>8, SeqEqual
<1>10. QED
  BY <1>1, <1>3, <1>5, <1>9

LEMMA OneMore ==
  ASSUME NEW S, NEW s \in Seq(S), NEW n \in 0 .. Len(s), n # Len(s)
  PROVE  s[n + 1] \in S /\ Take(s, n + 1) = Append(Take(s, n), s[n + 1])
<1>1. PICK m : m = n + 1
  OBVIOUS
<1>2. Len(s) \in Nat /\ m \in 1 .. Len(s) /\ m - 1 = n /\ 1 \in 1 .. Len(s) /\ m \in 0 .. Len(s)
  BY <1>1, LenProperties
<1>3. PICK x \in S : x = s[m]
  BY <1>2, ElementOfSeq
<1>4. PICK t \in Seq(S) : t = Take(s, n) /\ Len(t) = n /\ \A i \in 1 .. n : t[i] = s[i]
  BY TakeProps
<1>5. PICK u \in Seq(S) : u = Take(s, m) /\ Len(u) = m /\ \A i \in 1 .. m : u[i] = s[i]
  <2>1. PICK k \in 0 .. Len(s) : k = m
    BY <1>2
  <2>2. /\ Take(s, k) \in Seq(S) /\ Len(Take(s, k)) = k
        /\ \A i \in 1 .. k : Take(s, k)[i] = s[i]
    BY TakeProps
  <2>3. QED
    BY <2>1, <2>2
<1>6. PICK v \in Seq(S) : v = Append(t, x) /\ Len(v) = n + 1 /\ v[n + 1] = x
                          /\ \A i \in 1 .. n : v[i] = t[i]
  <2>1. /\ Append(t, x) \in Seq(S) /\ Len(Append(t, x)) = Len(t) + 1
        /\ \A i \in 1 .. Len(t) : Append(t, x)[i] = t[i]
        /\ Append(t, x)[Len(t) + 1] = x
    BY AppendProperties
  <2>2. QED
    BY <1>4, <2>1
<1>7. \A i \in 1 .. Len(u) : u[i] = v[i]
  BY <1>1, <1>2, <1>3, <1>4, <1>5, <1>6
<1>8. u = v
  BY <1>1, <1>5, <1>6, <1>7, SeqEqual
<1>9. QED
  BY <1>1, <1>3, <1>4, <1>5, <1>6, <1>8
=============================================================================
