------------------------- MODULE SigHandlersProofs -------------------------
(***************************************************************************)
(* What holds of sig::nal (SigHandlers) for any signals, handlers, depth   *)
(* of the stack and number of calls, wherever the signals come in the      *)
(* middle of calls: no handler waits on a list that nothing walks and a    *)
(* nested mask holds until it is taken back, but where the two calls that  *)
(* undo each other have met; and a walk calls the handlers that stay on    *)
(* its list once each and in its order.                                    *)
(***************************************************************************)
EXTENDS SigHandlers, SequenceTheorems, TLAPS

(***************************************************************************)
(* The stack of contexts: replacing the last, adding one, removing one.    *)
(***************************************************************************)

LEMMA NotLast ==
  ASSUME NEW n \in Nat, NEW i \in 1..n, i # n
  PROVE  i \in 1..(n - 1)
OBVIOUS

LEMMA LastReplaced ==
  ASSUME NEW S, NEW q \in Seq(S), q # <<>>, NEW c \in S
  PROVE  /\ Append(Front(q), c) \in Seq(S)
         /\ Append(Front(q), c) # <<>>
         /\ Len(Append(Front(q), c)) = Len(q)
         /\ Append(Front(q), c)[Len(q)] = c
         /\ \A i \in 1..(Len(q) - 1) : Append(Front(q), c)[i] = q[i]
<1>1. Len(q) \in Nat /\ Len(q) # 0 /\ DOMAIN q = 1..Len(q)
  BY EmptySeq, LenProperties
<1>2. \A i \in 1..(Len(q) - 1) : q[i] \in S
  BY <1>1, ElementOfSeq
<1>3. /\ Front(q) \in Seq(S)
      /\ Len(Front(q)) = Len(q) - 1
      /\ \A i \in 1..(Len(q) - 1) : Front(q)[i] = q[i]
  BY <1>1, <1>2, SubSeqProperties DEF Front
<1>4. PICK f \in Seq(S) : /\ f = Front(q)
                          /\ Len(f) = Len(q) - 1
                          /\ \A i \in 1..(Len(q) - 1) : f[i] = q[i]
  BY <1>3
<1>5. /\ Append(f, c) \in Seq(S)
      /\ Append(f, c) # <<>>
      /\ Len(Append(f, c)) = Len(f) + 1
      /\ \A i \in 1..Len(f) : Append(f, c)[i] = f[i]
      /\ Append(f, c)[Len(f) + 1] = c
  BY AppendProperties
<1>6. QED
  BY <1>1, <1>4, <1>5

LEMMA LastAdded ==
  ASSUME NEW S, NEW q \in Seq(S), NEW c \in S
  PROVE  /\ Append(q, c) \in Seq(S)
         /\ Append(q, c) # <<>>
         /\ Len(Append(q, c)) = Len(q) + 1
         /\ Append(q, c)[Len(q) + 1] = c
         /\ \A i \in 1..Len(q) : Append(q, c)[i] = q[i]
BY AppendProperties, LenProperties

LEMMA LastRemoved ==
  ASSUME NEW S, NEW q \in Seq(S), Len(q) > 1
  PROVE  /\ Front(q) \in Seq(S)
         /\ Front(q) # <<>>
         /\ Len(Front(q)) = Len(q) - 1
         /\ \A i \in 1..(Len(q) - 1) : Front(q)[i] = q[i]
<1>1. Len(q) \in Nat
  BY LenProperties
<1>2. \A i \in 1..(Len(q) - 1) : q[i] \in S
  BY <1>1, ElementOfSeq
<1>3. /\ Front(q) \in Seq(S)
      /\ Len(Front(q)) = Len(q) - 1
      /\ \A i \in 1..(Len(q) - 1) : Front(q)[i] = q[i]
  BY <1>1, <1>2, SubSeqProperties DEF Front
<1>4. QED
  BY <1>1, <1>3, LenProperties

(***************************************************************************)
(* The lists of nodes: find, push_back and erase.                          *)
(***************************************************************************)

LEMMA EndNoNode == End \notin Nodes
BY SigConstants DEF End, Nodes

LEMMA NodesAre ==
  ASSUME NEW q \in Seq(Nodes)
  PROVE  /\ ToSet(q) \subseteq Nodes
         /\ Len(q) \in Nat /\ DOMAIN q = 1..Len(q)
         /\ q # <<>> => Head(q) \in ToSet(q)
<1>1. Len(q) \in Nat /\ DOMAIN q = 1..Len(q) /\ \A i \in 1..Len(q) : q[i] \in Nodes
  BY LenProperties, ElementOfSeq
<1>2. ToSet(q) \subseteq Nodes
  BY <1>1 DEF ToSet
<1>3. q # <<>> => Head(q) \in ToSet(q)
  BY <1>1, EmptySeq DEF ToSet
<1>4. QED
  BY <1>1, <1>2, <1>3

LEMMA NodeFound ==
  ASSUME NEW S, NEW q \in Seq(S), NEW x \in ToSet(q)
  PROVE  /\ PlaceOf(q, x) \in 1..Len(q)
         /\ q[PlaceOf(q, x)] = x
BY LenProperties DEF PlaceOf, ToSet

\* The nodes of a list without the one at n.
LEMMA NodesErased ==
  ASSUME NEW S, NEW q \in Seq(S), NEW n \in 1..Len(q)
  PROVE  /\ Len(q) \in Nat /\ DOMAIN q = 1..Len(q)
         /\ RemoveAt(q, n) \in Seq(S) /\ DOMAIN RemoveAt(q, n) = 1..(Len(q) - 1)
         /\ \A i \in 1..(Len(q) - 1) :
              RemoveAt(q, n)[i] = IF i < n THEN q[i] ELSE q[i + 1]
<1>1. n \in 1..Len(q) /\ n \in Int
  BY LenProperties
<1>2. Len(q) \in Nat /\ DOMAIN q = 1..Len(q) /\ \A i \in 1..Len(q) : q[i] \in S
  BY LenProperties, ElementOfSeq
<1>3. PICK a : a = SubSeq(q, 1, n - 1)
  OBVIOUS
<1>4. PICK b : b = SubSeq(q, n + 1, Len(q))
  OBVIOUS
<1>5. /\ a \in Seq(S) /\ Len(a) = n - 1
      /\ \A i \in 1..(n - 1) : a[i] = q[i]
  BY <1>1, <1>2, <1>3, SubSeqProperties
<1>6. /\ b \in Seq(S) /\ Len(b) = Len(q) - n
      /\ \A i \in 1..(Len(q) - n) : b[i] = q[n + i]
  <2>1. \A i \in n + 1 .. Len(q) : q[i] \in S
    BY <1>1, <1>2
  <2>2. n + 1 \in Int /\ Len(q) \in Int
    BY <1>1, <1>2
  <2>3. PICK m, l : m = n + 1 /\ l = Len(q)
    OBVIOUS
  <2>4. /\ b \in Seq(S) /\ Len(b) = IF m <= l THEN l - m + 1 ELSE 0
        /\ \A i \in 1..(l - m + 1) : b[i] = q[m + i - 1]
    BY <1>4, <2>1, <2>2, <2>3, SubSeqProperties
  <2>5. n \in Int /\ Len(q) \in Int /\ 1 <= n /\ n <= Len(q)
    BY <1>1, <1>2
  <2>6. n <= Len(q) - 1 => m <= l /\ l - m + 1 = Len(q) - n
    BY ONLY <2>3, <2>5
  <2>7. n = Len(q) => ~(m <= l) /\ Len(q) - n = 0 /\ l - m + 1 = 0
    BY ONLY <2>3, <2>5
  <2>8. Len(b) = Len(q) - n /\ l - m + 1 = Len(q) - n
    BY ONLY <2>4, <2>5, <2>6, <2>7
  <2>9. \A i \in 1..(Len(q) - n) : m + i - 1 = n + i
    BY ONLY <2>3, <2>5
  <2>10. QED
    BY <2>4, <2>8, <2>9
<1>7. RemoveAt(q, n) = a \o b
  BY <1>3, <1>4 DEF RemoveAt
<1>8. PICK r : r = a \o b
  OBVIOUS
<1>9. /\ r \in Seq(S) /\ Len(r) = Len(a) + Len(b)
      /\ \A i \in 1..(Len(a) + Len(b)) : r[i] = IF i <= Len(a) THEN a[i] ELSE b[i - Len(a)]
  BY <1>5, <1>6, <1>8, ConcatProperties
<1>10. Len(r) = Len(q) - 1 /\ DOMAIN r = 1..(Len(q) - 1)
  BY <1>1, <1>2, <1>5, <1>6, <1>9, LenProperties
<1>11. ASSUME NEW i \in 1..(Len(q) - 1)
       PROVE  r[i] = IF i < n THEN q[i] ELSE q[i + 1]
  <2>1. CASE i < n
    <3>1. i \in 1..(n - 1) /\ i <= Len(a) /\ i \in 1..(Len(a) + Len(b))
      BY <1>1, <1>2, <1>5, <1>6, <2>1
    <3>2. QED
      BY <1>5, <1>9, <2>1, <3>1
  <2>2. CASE ~(i < n)
    <3>1. /\ ~(i <= Len(a)) /\ i \in 1..(Len(a) + Len(b))
          /\ i - Len(a) \in 1..(Len(q) - n) /\ n + (i - Len(a)) = i + 1
      BY <1>1, <1>2, <1>5, <1>6, <2>2
    <3>2. QED
      BY <1>6, <1>9, <2>2, <3>1
  <2>3. QED
    BY <2>1, <2>2
<1>12. QED
  BY <1>1, <1>2, <1>7, <1>8, <1>9, <1>10, <1>11

LEMMA ListErased ==
  ASSUME NEW S, NEW q \in Seq(S), NEW n \in 1..Len(q)
  PROVE  /\ RemoveAt(q, n) \in Seq(S)
         /\ ToSet(q) \ {q[n]} \subseteq ToSet(RemoveAt(q, n))
         /\ q # <<>>
<1>1. PICK r : r = RemoveAt(q, n)
  OBVIOUS
<1>2. /\ r \in Seq(S) /\ Len(q) \in Nat /\ DOMAIN q = 1..Len(q)
      /\ DOMAIN r = 1..(Len(q) - 1)
      /\ \A i \in 1..(Len(q) - 1) : r[i] = IF i < n THEN q[i] ELSE q[i + 1]
  BY <1>1, NodesErased
<1>3. ASSUME NEW j \in 1..Len(q), j # n
      PROVE  q[j] \in ToSet(r)
  <2>1. PICK i \in 1..(Len(q) - 1) :
          i = (IF j < n THEN j ELSE j - 1) /\ j = (IF i < n THEN i ELSE i + 1)
    BY <1>2, <1>3
  <2>2. r[i] = q[j]
    BY <1>2, <2>1
  <2>3. QED
    BY <1>2, <2>2 DEF ToSet
<1>4. ToSet(q) \ {q[n]} \subseteq ToSet(r)
  BY <1>2, <1>3 DEF ToSet
<1>5. q # <<>>
  BY <1>2, EmptySeq
<1>6. QED
  BY <1>1, <1>2, <1>4, <1>5

LEMMA NextNode ==
  ASSUME NEW S, NEW q \in Seq(S), NEW h \in ToSet(q)
  PROVE  Successor(q, h) = End \/ Successor(q, h) \in ToSet(q)
<1>1. PICK n \in 1..Len(q) : n = PlaceOf(q, h)
  BY NodeFound
<1>2. Len(q) \in Nat
  BY LenProperties
<1>3. Successor(q, h) = IF n = Len(q) THEN End ELSE q[n + 1]
  BY <1>1 DEF Successor
<1>4. CASE n = Len(q)
  BY <1>3, <1>4
<1>5. CASE n # Len(q)
  <2>1. n + 1 \in 1..Len(q)
    BY <1>2, <1>5
  <2>2. q[n + 1] \in ToSet(q)
    BY <2>1, LenProperties, Zenon DEF ToSet
  <2>3. QED
    BY <1>3, <1>5, <2>2
<1>6. QED
  BY <1>4, <1>5

NoRepeats(list) == \A i, j \in DOMAIN list : list[i] = list[j] => i = j

LEMMA SetOfAdded ==
  ASSUME NEW S, NEW q \in Seq(S), NEW x \in S
  PROVE  /\ ToSet(Append(q, x)) = ToSet(q) \cup {x}
         /\ DOMAIN Append(q, x) = 1..(Len(q) + 1) /\ DOMAIN q = 1..Len(q)
         /\ Len(q) \in Nat
<1>1. /\ DOMAIN Append(q, x) = 1..(Len(q) + 1) /\ DOMAIN q = 1..Len(q)
      /\ Len(q) \in Nat
  BY LastAdded, LenProperties
<1>2. ASSUME NEW i \in 1..(Len(q) + 1)
      PROVE  Append(q, x)[i] = IF i = Len(q) + 1 THEN x ELSE q[i]
  BY <1>1, LastAdded
<1>3. ToSet(Append(q, x)) \subseteq ToSet(q) \cup {x}
  <2>1. SUFFICES ASSUME NEW i \in 1..(Len(q) + 1)
                 PROVE  Append(q, x)[i] \in ToSet(q) \cup {x}
    BY <1>1 DEF ToSet
  <2>2. CASE i = Len(q) + 1
    BY <1>2, <2>2
  <2>3. CASE i # Len(q) + 1
    <3>1. i \in DOMAIN q
      BY <1>1, <2>3
    <3>2. QED
      BY <1>2, <2>3, <3>1 DEF ToSet
  <2>4. QED
    BY <2>2, <2>3
<1>4. ToSet(q) \subseteq ToSet(Append(q, x))
  <2>1. SUFFICES ASSUME NEW i \in 1..Len(q) PROVE q[i] \in ToSet(Append(q, x))
    BY <1>1 DEF ToSet
  <2>2. i \in 1..(Len(q) + 1) /\ i # Len(q) + 1
    BY <1>1
  <2>3. QED
    BY <1>1, <1>2, <2>2 DEF ToSet
<1>5. x \in ToSet(Append(q, x))
  <2>1. Len(q) + 1 \in 1..(Len(q) + 1)
    BY <1>1
  <2>2. QED
    BY <1>1, <1>2, <2>1 DEF ToSet
<1>6. QED
  BY <1>1, <1>3, <1>4, <1>5

\* push_back leaves the order of the others alone.
LEMMA OrderOfAdded ==
  ASSUME NEW S, NEW q \in Seq(S), NEW x \in S, x \notin ToSet(q), NoRepeats(q)
  PROVE  /\ NoRepeats(Append(q, x))
         /\ \A g, h \in ToSet(q) : Before(Append(q, x), g, h) <=> Before(q, g, h)
<1>1. PICK r : r = Append(q, x)
  OBVIOUS
<1>2. /\ DOMAIN r = 1..(Len(q) + 1) /\ DOMAIN q = 1..Len(q) /\ Len(q) \in Nat
      /\ r[Len(q) + 1] = x /\ \A i \in 1..Len(q) : r[i] = q[i]
  BY <1>1, SetOfAdded, LastAdded
<1>3. \A i \in 1..(Len(q) + 1) : i = Len(q) + 1 \/ i \in 1..Len(q)
  BY <1>2
<1>4. \A i \in 1..Len(q) : q[i] \in ToSet(q) /\ q[i] # x
  BY <1>2 DEF ToSet
<1>5. NoRepeats(r)
  BY <1>2, <1>3, <1>4 DEF NoRepeats
<1>6. ASSUME NEW g \in ToSet(q), NEW h \in ToSet(q)
      PROVE  Before(r, g, h) <=> Before(q, g, h)
  <2>1. ASSUME Before(r, g, h) PROVE Before(q, g, h)
    <3>1. PICK i \in 1..(Len(q) + 1), j \in 1..(Len(q) + 1) :
            i < j /\ r[i] = g /\ r[j] = h
      BY <1>2, <2>1 DEF Before
    <3>2. i \in 1..Len(q) /\ j \in 1..Len(q)
      BY <1>2, <1>3, <3>1
    <3>3. QED
      BY <1>2, <3>1, <3>2 DEF Before
  <2>2. ASSUME Before(q, g, h) PROVE Before(r, g, h)
    <3>1. PICK i \in 1..Len(q), j \in 1..Len(q) : i < j /\ q[i] = g /\ q[j] = h
      BY <1>2, <2>2 DEF Before
    <3>2. i \in DOMAIN r /\ j \in DOMAIN r
      BY <1>2
    <3>3. QED
      BY <1>2, <3>1, <3>2 DEF Before
  <2>3. QED
    BY <2>1, <2>2
<1>7. QED
  BY <1>1, <1>5, <1>6

\* erase leaves the order of the others alone.
LEMMA OrderOfErased ==
  ASSUME NEW S, NEW q \in Seq(S), NEW n \in 1..Len(q), NEW x, x = q[n], NoRepeats(q)
  PROVE  /\ NoRepeats(RemoveAt(q, n))
         /\ \A g, h : g # x /\ h # x =>
              (Before(RemoveAt(q, n), g, h) <=> Before(q, g, h))
<1>1. PICK r : r = RemoveAt(q, n)
  OBVIOUS
<1>2. q[n] = x
  OBVIOUS
<1>3. /\ Len(q) \in Nat /\ DOMAIN q = 1..Len(q) /\ DOMAIN r = 1..(Len(q) - 1)
      /\ \A i \in 1..(Len(q) - 1) : r[i] = IF i < n THEN q[i] ELSE q[i + 1]
  BY <1>1, NodesErased
<1>4. NoRepeats(r)
  <2>1. SUFFICES ASSUME NEW i \in 1..(Len(q) - 1), NEW j \in 1..(Len(q) - 1), r[i] = r[j]
                 PROVE  i = j
    BY <1>3 DEF NoRepeats
  <2>2. PICK k \in 1..Len(q) : k = (IF i < n THEN i ELSE i + 1) /\ r[i] = q[k]
    BY <1>3
  <2>3. PICK l \in 1..Len(q) : l = (IF j < n THEN j ELSE j + 1) /\ r[j] = q[l]
    BY <1>3
  <2>4. k = l
    BY <1>3, <2>1, <2>2, <2>3 DEF NoRepeats
  <2>5. QED
    BY <1>2, <2>2, <2>3, <2>4
<1>5. ASSUME NEW g, NEW h, g # x, h # x, Before(r, g, h)
      PROVE  Before(q, g, h)
  <2>1. PICK i \in 1..(Len(q) - 1), j \in 1..(Len(q) - 1) :
          i < j /\ r[i] = g /\ r[j] = h
    BY <1>3, <1>5 DEF Before
  <2>2. PICK k \in 1..Len(q) : k = (IF i < n THEN i ELSE i + 1) /\ r[i] = q[k]
    BY <1>3
  <2>3. PICK l \in 1..Len(q) : l = (IF j < n THEN j ELSE j + 1) /\ r[j] = q[l]
    BY <1>3
  <2>4. k < l
    BY <1>2, <2>1, <2>2, <2>3
  <2>5. QED
    BY <1>3, <2>1, <2>2, <2>3, <2>4 DEF Before
<1>6. ASSUME NEW g, NEW h, g # x, h # x, Before(q, g, h)
      PROVE  Before(r, g, h)
  <2>1. PICK k \in 1..Len(q), l \in 1..Len(q) : k < l /\ q[k] = g /\ q[l] = h
    BY <1>3, <1>6 DEF Before
  <2>2. k # n /\ l # n
    BY <1>2, <1>6, <2>1
  <2>3. PICK i \in 1..(Len(q) - 1) :
          i = (IF k < n THEN k ELSE k - 1) /\ k = (IF i < n THEN i ELSE i + 1)
    BY <1>2, <1>3, <2>2
  <2>4. PICK j \in 1..(Len(q) - 1) :
          j = (IF l < n THEN l ELSE l - 1) /\ l = (IF j < n THEN j ELSE j + 1)
    BY <1>2, <1>3, <2>2
  <2>5. r[i] = g /\ r[j] = h
    BY <1>3, <2>1, <2>3, <2>4
  <2>6. i < j
    BY <1>2, <2>1, <2>2, <2>3, <2>4
  <2>7. QED
    BY <1>3, <2>5, <2>6 DEF Before
<1>7. QED
  BY <1>1, <1>4, <1>5, <1>6

\* Before the next node are the node itself and those before it.
LEMMA OrderOfNext ==
  ASSUME NEW S, NEW q \in Seq(S), NEW h \in ToSet(q), NoRepeats(q), End \notin S,
         NEW g \in ToSet(q)
  PROVE  IF Successor(q, h) = End THEN Before(q, g, h) \/ g = h
         ELSE Before(q, g, Successor(q, h)) <=> Before(q, g, h) \/ g = h
<1>1. PICK n \in 1..Len(q) : n = PlaceOf(q, h) /\ q[n] = h
  BY NodeFound
<1>2. Len(q) \in Nat /\ DOMAIN q = 1..Len(q) /\ \A i \in 1..Len(q) : q[i] \in S
  BY LenProperties, ElementOfSeq
<1>3. PICK m \in 1..Len(q) : q[m] = g
  BY <1>2 DEF ToSet
<1>4. Before(q, g, h) <=> m < n
  BY <1>1, <1>2, <1>3 DEF Before, NoRepeats
<1>5. g = h <=> m = n
  BY <1>1, <1>2, <1>3 DEF NoRepeats
<1>6. Successor(q, h) = IF n = Len(q) THEN End ELSE q[n + 1]
  BY <1>1 DEF Successor
<1>7. CASE n = Len(q)
  <2>1. m < n \/ m = n
    BY <1>1, <1>2, <1>3, <1>7
  <2>2. QED
    BY <1>4, <1>5, <1>6, <1>7, <2>1
<1>8. CASE n # Len(q)
  <2>1. n + 1 \in 1..Len(q)
    BY <1>1, <1>2, <1>8
  <2>2. Successor(q, h) = q[n + 1] /\ q[n + 1] # End
    BY <1>2, <1>6, <1>8, <2>1
  <2>3. Before(q, g, q[n + 1]) <=> m < n + 1
    BY <1>2, <1>3, <2>1 DEF Before, NoRepeats
  <2>4. m < n + 1 <=> m < n \/ m = n
    BY <1>2
  <2>5. QED
    BY <1>4, <1>5, <2>2, <2>3, <2>4
<1>9. QED
  BY <1>7, <1>8

-----------------------------------------------------------------------------
(***************************************************************************)
(* The inductive invariant.  The program is the bottom of the stack and    *)
(* nothing else; a walk stands at the end or at a node of its list, and at *)
(* a node while the handler there is running; every handler object knows   *)
(* its signal.  No list has a node twice, and every walk has called those  *)
(* of the nodes that stayed which it has passed, in the order of its list. *)
(*                                                                         *)
(* Of the calls: where two meet that undo each other, undone and lost say  *)
(* so (CallsMet), and where they do not, what a call has read still holds  *)
(* when it acts on it (CallsFit): sighandler is there when set adds to the *)
(* list, the list is empty when unset(signo) resets the disposition, and   *)
(* no mask was asked for that the sigaction a call writes back is without. *)
(* What mask(signo, ...) was asked to hold off is in the sa_mask the kernel*)
(* uses, and what a handler holds off is in the mask of the process and in *)
(* every mask restored above it.                                           *)
(***************************************************************************)

ProgramBelow == \A i \in DOMAIN stack : stack[i].sig = NoSignal <=> i = 1

WalksOnNodes ==
  \A i \in DOMAIN stack :
    /\ stack[i].calling => stack[i].sig # NoSignal /\ stack[i].at # End
    /\ stack[i].sig # NoSignal /\ stack[i].at # End =>
         stack[i].at \in ToSet(smap[stack[i].sig])

AskedIsMasked ==
  \A s \in Signals \ lost :
    asked[s] \subseteq IF disp[s] = "sig" THEN samask[s] ELSE {}

\* The call o in a state: the dispositions d, lists m, masks asked for a, and
\* the signals undone u and lost l.
Fits(o, d, m, a, u, l) ==
  /\ o.kind = "set" /\ o.step = "push" /\ o.sig \notin u => d[o.sig] = "sig"
  /\ o.kind = "unset all" /\ o.step \in {"read", "write"} /\ o.sig \notin u
       => m[o.sig] = <<>>
  /\ o.kind \in {"set", "mask", "unmask"} /\ o.step = "write" /\ o.sig \notin l
       => a[o.sig] \subseteq IF o.sa.handler = "sig" THEN o.sa.mask ELSE {}
  /\ o.kind = "set" /\ o.step = "write" => o.sa.handler = "dfl"

CallsFit ==
  \A i \in DOMAIN stack : Fits(stack[i].op, disp, smap, asked, undone, lost)

\* The call o above the call p.
Noted(p, o, u, l) ==
  p.sig = o.sig => /\ Undoes(p, o.kind) => o.sig \in u
                   /\ Loses(p, o.kind) => o.sig \in l

CallsMet ==
  \A i, j \in DOMAIN stack :
    i < j => Noted(stack[i].op, stack[j].op, undone, lost)

OwnersKnown == \A h \in Handlers : stage[h] # "none" => own[h] \in Signals

HeldIsBlocked ==
  \A i \in DOMAIN stack :
    stack[i].sig \notin lost => stack[i].held \subseteq blocked

HeldIsSaved ==
  \A i, j \in DOMAIN stack :
    i < j /\ stack[i].sig \notin lost => stack[i].held \subseteq stack[j].saved

\* The walk of c over list has passed h, or is at it.
Passed(c, list, h) ==
  c.at = End \/ Before(list, h, c.at) \/ (h = c.at /\ c.calling)

\* The handlers that stayed and have been called are those the walk has
\* passed, and they were called in the order of the list.
WalkOf(c, list) ==
  /\ c.stayed \subseteq ToSet(list)
  /\ \A h \in c.stayed : h \in ToSet(c.called) <=> Passed(c, list, h)
  /\ \A i, j \in DOMAIN c.called :
       i < j /\ c.called[i] \in c.stayed /\ c.called[j] \in c.stayed =>
         c.called[i] # c.called[j] /\ Before(list, c.called[i], c.called[j])

ListsDistinct == \A s \in Signals : NoRepeats(smap[s])

WalksOrderly ==
  \A i \in DOMAIN stack :
    stack[i].sig # NoSignal => WalkOf(stack[i], smap[stack[i].sig])

SigIInv ==
  /\ SigTypeOK
  /\ ProgramBelow
  /\ HandlersAreInstalled
  /\ WalksOnNodes
  /\ OwnersKnown
  /\ AskedIsMasked
  /\ HeldIsBlocked
  /\ HeldIsSaved
  /\ NestedMaskHolds
  /\ ListsDistinct
  /\ WalksOrderly
  /\ CallsFit
  /\ CallsMet

\* What the walk has passed stays what it has called while the list changes
\* around it.
LEMMA WalkUnmoved ==
  ASSUME NEW c, NEW d, NEW list, NEW changed, WalkOf(c, list),
         d.at = c.at, d.calling = c.calling, d.called = c.called,
         d.stayed \subseteq c.stayed, d.stayed \subseteq ToSet(changed),
         \A g \in d.stayed : \A h :
           h \in d.stayed \/ (h = c.at /\ h # End) =>
             (Before(changed, g, h) <=> Before(list, g, h))
  PROVE  WalkOf(d, changed)
<1>1. ASSUME NEW h \in d.stayed
      PROVE  h \in ToSet(d.called) <=> Passed(d, changed, h)
  <2>1. h \in ToSet(c.called) <=> Passed(c, list, h)
    BY DEF WalkOf
  <2>2. c.at # End => (Before(changed, h, c.at) <=> Before(list, h, c.at))
    OBVIOUS
  <2>3. QED
    BY <2>1, <2>2 DEF Passed
<1>2. ASSUME NEW i \in DOMAIN d.called, NEW j \in DOMAIN d.called,
             i < j, d.called[i] \in d.stayed, d.called[j] \in d.stayed
      PROVE  d.called[i] # d.called[j] /\ Before(changed, d.called[i], d.called[j])
  <2>1. d.called[i] # d.called[j] /\ Before(list, d.called[i], d.called[j])
    BY <1>2 DEF WalkOf
  <2>2. QED
    BY <1>2, <2>1
<1>3. QED
  BY <1>1, <1>2 DEF WalkOf

LEMMA WalkStarts ==
  ASSUME NEW S, NEW q \in Seq(S), End \notin S, NoRepeats(q),
         NEW c, c.stayed = ToSet(q), c.called = <<>>, c.calling = FALSE,
         c.at = IF q = <<>> THEN End ELSE Head(q)
  PROVE  WalkOf(c, q)
<1>1. Len(q) \in Nat /\ DOMAIN q = 1..Len(q) /\ \A i \in 1..Len(q) : q[i] \in S
  BY LenProperties, ElementOfSeq
<1>2. ToSet(<<>>) = {} /\ DOMAIN <<>> = {}
  BY DEF ToSet
<1>3. ASSUME NEW h \in ToSet(q) PROVE ~Passed(c, q, h)
  <2>1. q # <<>> /\ Len(q) # 0
    BY <1>1, EmptySeq DEF ToSet
  <2>2. c.at = q[1] /\ 1 \in 1..Len(q) /\ c.at # End
    BY <1>1, <2>1
  <2>3. ~Before(q, h, q[1])
    BY <1>1, <2>2 DEF Before, NoRepeats
  <2>4. QED
    BY <2>2, <2>3 DEF Passed
<1>4. QED
  BY <1>2, <1>3 DEF WalkOf

LEMMA NeverBeforeItself ==
  ASSUME NEW S, NEW q \in Seq(S), NoRepeats(q), NEW h
  PROVE  ~Before(q, h, h)
BY LenProperties DEF Before, NoRepeats

LEMMA WalkCalls ==
  ASSUME NEW S, NEW q \in Seq(S), NoRepeats(q), NEW c, NEW d, WalkOf(c, q),
         c.called \in Seq(S), c.at \in S, c.at # End, c.calling = FALSE,
         d.calling = TRUE, d.called = Append(c.called, c.at),
         d.at = c.at, d.stayed = c.stayed
  PROVE  WalkOf(d, q)
<1>1. /\ ToSet(d.called) = ToSet(c.called) \cup {c.at}
      /\ DOMAIN d.called = 1..(Len(c.called) + 1)
      /\ DOMAIN c.called = 1..Len(c.called) /\ Len(c.called) \in Nat
  BY SetOfAdded
<1>2. /\ \A i \in 1..Len(c.called) : d.called[i] = c.called[i]
      /\ d.called[Len(c.called) + 1] = c.at
  BY <1>1, LastAdded
<1>3. ASSUME NEW h \in d.stayed
      PROVE  h \in ToSet(d.called) <=> Passed(d, q, h)
  <2>1. h \in ToSet(c.called) <=> Before(q, h, c.at)
    BY DEF WalkOf, Passed
  <2>2. Passed(d, q, h) <=> Before(q, h, c.at) \/ h = c.at
    BY DEF Passed
  <2>3. QED
    BY <1>1, <2>1, <2>2
<1>4. ASSUME NEW i \in DOMAIN d.called, NEW j \in DOMAIN d.called,
             i < j, d.called[i] \in d.stayed, d.called[j] \in d.stayed
      PROVE  d.called[i] # d.called[j] /\ Before(q, d.called[i], d.called[j])
  <2>1. i \in DOMAIN c.called /\ d.called[i] = c.called[i]
    BY <1>1, <1>2, <1>4
  <2>2. CASE j = Len(c.called) + 1
    <3>1. c.called[i] \in ToSet(c.called) /\ c.called[i] \in c.stayed
      BY <1>4, <2>1 DEF ToSet
    <3>2. Before(q, c.called[i], c.at)
      BY <3>1 DEF WalkOf, Passed
    <3>3. c.called[i] # c.at
      BY <3>2, NeverBeforeItself
    <3>4. QED
      BY <1>2, <2>1, <2>2, <3>2, <3>3
  <2>3. CASE j # Len(c.called) + 1
    <3>1. j \in DOMAIN c.called /\ d.called[j] = c.called[j]
      BY <1>1, <1>2, <2>3
    <3>2. QED
      BY <1>4, <2>1, <3>1 DEF WalkOf
  <2>4. QED
    BY <2>2, <2>3
<1>5. QED
  BY <1>3, <1>4 DEF WalkOf

LEMMA WalkMoves ==
  ASSUME NEW S, NEW q \in Seq(S), End \notin S, NoRepeats(q), NEW c, NEW d,
         WalkOf(c, q), c.at \in ToSet(q), c.at # End, c.calling = TRUE,
         d.calling = FALSE, d.at = Successor(q, c.at),
         d.called = c.called, d.stayed = c.stayed
  PROVE  WalkOf(d, q)
<1>1. ASSUME NEW h \in d.stayed
      PROVE  h \in ToSet(d.called) <=> Passed(d, q, h)
  <2>1. h \in ToSet(c.called) <=> Before(q, h, c.at) \/ h = c.at
    BY DEF WalkOf, Passed
  <2>2. h \in ToSet(q)
    BY DEF WalkOf
  <2>3. IF Successor(q, c.at) = End THEN Before(q, h, c.at) \/ h = c.at
        ELSE Before(q, h, Successor(q, c.at)) <=> Before(q, h, c.at) \/ h = c.at
    BY <2>2, OrderOfNext
  <2>4. QED
    BY <2>1, <2>3 DEF Passed
<1>2. ASSUME NEW i \in DOMAIN d.called, NEW j \in DOMAIN d.called,
             i < j, d.called[i] \in d.stayed, d.called[j] \in d.stayed
      PROVE  d.called[i] # d.called[j] /\ Before(q, d.called[i], d.called[j])
  BY <1>2 DEF WalkOf
<1>3. QED
  BY <1>1, <1>2 DEF WalkOf
-----------------------------------------------------------------------------
(***************************************************************************)
(* Most steps leave every context the signal it handles, who started it    *)
(* and the mask it will restore, and take nothing into what it holds off.  *)
(***************************************************************************)

SameFrames ==
  /\ Len(stack') = Len(stack)
  /\ \A i \in 1..Len(stack) :
       /\ stack'[i].sig = stack[i].sig
       /\ stack'[i].hard = stack[i].hard
       /\ stack'[i].saved = stack[i].saved
       /\ stack'[i].held \subseteq stack[i].held

SameWalks ==
  \A i \in 1..Len(stack) :
    /\ stack'[i].at = stack[i].at /\ stack'[i].calling = stack[i].calling
    /\ stack'[i].called = stack[i].called

SameOps == \A i \in 1..(Len(stack) - 1) : stack'[i].op = stack[i].op

SameStayed == \A i \in 1..Len(stack) : stack'[i].stayed = stack[i].stayed

\* The walk of c over list has become that of d over changed: handlers have
\* left, but those that stay and the one it is at have kept their order.
StillWalks(c, d, list, changed) ==
  /\ d.stayed \subseteq c.stayed /\ d.stayed \subseteq ToSet(changed)
  /\ \A g \in d.stayed : \A h :
       h \in d.stayed \/ (h = c.at /\ h # End) =>
         (Before(changed, g, h) <=> Before(list, g, h))

LEMMA Depth ==
  ASSUME SigTypeOK
  PROVE  /\ Len(stack) \in Nat /\ Len(stack) > 0
         /\ DOMAIN stack = 1..Len(stack)
         /\ \A i \in 1..Len(stack) : stack[i] \in Contexts
         /\ Top = stack[Len(stack)] /\ Top \in Contexts
<1>1. stack \in Seq(Contexts) /\ stack # <<>>
  BY DEF SigTypeOK
<1>2. Len(stack) \in Nat /\ DOMAIN stack = 1..Len(stack) /\ Len(stack) # 0
  BY <1>1, LenProperties, EmptySeq
<1>3. \A i \in 1..Len(stack) : stack[i] \in Contexts
  BY <1>1, ElementOfSeq
<1>4. Len(stack) > 0 /\ Len(stack) \in 1..Len(stack)
  BY <1>2
<1>5. QED
  BY <1>2, <1>3, <1>4 DEF Top, Last

LEMMA FramesKept ==
  ASSUME SigTypeOK, stack' \in Seq(Contexts), SameFrames, lost \subseteq lost'
  PROVE  /\ stack' # <<>>
         /\ ProgramBelow => ProgramBelow'
         /\ HeldIsSaved => HeldIsSaved'
         /\ NestedMaskHolds => NestedMaskHolds'
         /\ (HeldIsBlocked /\ blocked \subseteq blocked') => HeldIsBlocked'
<1>1. Len(stack) \in Nat /\ Len(stack) > 0 /\ DOMAIN stack = 1..Len(stack)
  BY Depth
<1>2. DOMAIN stack' = 1..Len(stack) /\ Len(stack') = Len(stack)
  BY LenProperties DEF SameFrames
<1>3. stack' # <<>>
  BY <1>1, <1>2, LenProperties
<1>4. ProgramBelow => ProgramBelow'
  BY <1>1, <1>2 DEF SameFrames, ProgramBelow
<1>5. HeldIsSaved => HeldIsSaved'
  BY <1>1, <1>2 DEF SameFrames, HeldIsSaved
<1>6. NestedMaskHolds => NestedMaskHolds'
  BY <1>1, <1>2 DEF SameFrames, NestedMaskHolds
<1>7. (HeldIsBlocked /\ blocked \subseteq blocked') => HeldIsBlocked'
  BY <1>1, <1>2 DEF SameFrames, HeldIsBlocked
<1>8. QED
  BY <1>3, <1>4, <1>5, <1>6, <1>7

LEMMA WalksKept ==
  ASSUME SigTypeOK, stack' \in Seq(Contexts), SameFrames, SameWalks,
         WalksOnNodes,
         \A i \in 1..Len(stack) :
           stack[i].sig # NoSignal /\ stack[i].at # End =>
             (stack[i].at \in ToSet(smap[stack[i].sig])
                => stack[i].at \in ToSet(smap'[stack[i].sig]))
  PROVE  WalksOnNodes'
<1>1. Len(stack) \in Nat /\ DOMAIN stack = 1..Len(stack)
  BY Depth
<1>2. DOMAIN stack' = 1..Len(stack) /\ Len(stack') = Len(stack)
  BY LenProperties DEF SameFrames
<1>3. QED
  BY <1>1, <1>2 DEF SameFrames, SameWalks, WalksOnNodes

LEMMA OrderKept ==
  ASSUME SigTypeOK, stack' \in Seq(Contexts), SameFrames, SameWalks, WalksOrderly,
         \A i \in 1..Len(stack) : stack[i].sig # NoSignal =>
           StillWalks(stack[i], stack'[i],
                      smap[stack[i].sig], smap'[stack[i].sig])
  PROVE  WalksOrderly'
<1>1. DOMAIN stack = 1..Len(stack) /\ DOMAIN stack' = 1..Len(stack)
  BY Depth, LenProperties DEF SameFrames
<1>2. SUFFICES ASSUME NEW i \in 1..Len(stack), stack[i].sig # NoSignal
               PROVE  WalkOf(stack'[i], smap'[stack[i].sig])
  BY <1>1 DEF WalksOrderly, SameFrames
<1>3. PICK c, d : c = stack[i] /\ d = stack'[i]
  OBVIOUS
<1>4. PICK list, changed : list = smap[c.sig] /\ changed = smap'[c.sig]
  OBVIOUS
<1>5. WalkOf(c, list)
  BY <1>1, <1>2, <1>3, <1>4 DEF WalksOrderly
<1>6. d.at = c.at /\ d.calling = c.calling /\ d.called = c.called
  BY <1>3 DEF SameWalks
<1>7. StillWalks(c, d, list, changed)
  BY <1>2, <1>3, <1>4
<1>8. WalkOf(d, changed)
  BY <1>5, <1>6, <1>7, WalkUnmoved DEF StillWalks
<1>9. QED
  BY <1>3, <1>4, <1>8

LEMMA OrderUnmoved ==
  ASSUME SigTypeOK, stack' \in Seq(Contexts), SameFrames, SameWalks, SameStayed,
         WalksOrderly, smap' = smap
  PROVE  WalksOrderly'
<1>1. ASSUME NEW i \in 1..Len(stack), stack[i].sig # NoSignal
      PROVE  StillWalks(stack[i], stack'[i],
                        smap[stack[i].sig], smap'[stack[i].sig])
  <2>1. WalkOf(stack[i], smap[stack[i].sig])
    BY <1>1, Depth DEF WalksOrderly
  <2>2. stack'[i].stayed = stack[i].stayed
    BY DEF SameStayed
  <2>3. QED
    BY <2>1, <2>2 DEF WalkOf, StillWalks
<1>2. QED
  BY <1>1, OrderKept

LEMMA ContextFields ==
  ASSUME NEW c \in Contexts
  PROVE  /\ c.sig \in Signals \cup {NoSignal} /\ c.op \in Ops
         /\ c.hard \in BOOLEAN /\ c.calling \in BOOLEAN
         /\ c.at \in Nodes \cup {End} /\ c.called \in Seq(Nodes)
         /\ c.saved \subseteq Signals /\ c.held \subseteq Signals
         /\ c.stayed \subseteq Nodes
BY DEF Contexts

LEMMA TopChanged ==
  ASSUME SigTypeOK, NEW c \in Contexts, SetTop(c),
         c.sig = Top.sig, c.hard = Top.hard, c.saved = Top.saved,
         c.held = Top.held
  PROVE  /\ stack' \in Seq(Contexts) /\ SameFrames
         /\ \A i \in 1..(Len(stack) - 1) : stack'[i] = stack[i]
         /\ stack'[Len(stack)] = c
<1>1. stack \in Seq(Contexts) /\ stack # <<>>
  BY DEF SigTypeOK
<1>2. stack' = Append(Front(stack), c)
  BY DEF SetTop
<1>3. /\ stack' \in Seq(Contexts) /\ Len(stack') = Len(stack)
      /\ stack'[Len(stack)] = c
      /\ \A i \in 1..(Len(stack) - 1) : stack'[i] = stack[i]
  BY <1>1, <1>2, LastReplaced
<1>4. SameFrames
  <2>1. SUFFICES ASSUME NEW i \in 1..Len(stack)
                 PROVE  /\ stack'[i].sig = stack[i].sig
                        /\ stack'[i].hard = stack[i].hard
                        /\ stack'[i].saved = stack[i].saved
                        /\ stack'[i].held \subseteq stack[i].held
    BY <1>3 DEF SameFrames
  <2>2. CASE i = Len(stack)
    BY <1>3, <2>2, Depth
  <2>3. CASE i # Len(stack)
    <3>1. i \in 1..(Len(stack) - 1)
      BY <2>3, Depth, NotLast
    <3>2. QED
      BY <1>3, <3>1
  <2>4. QED
    BY <2>2, <2>3
<1>5. QED
  BY <1>3, <1>4

\* The running context goes on with the call o.
LEMMA OpChanged ==
  ASSUME SigTypeOK, NEW o \in Ops, Goes(o)
  PROVE  /\ stack' \in Seq(Contexts) /\ SameFrames /\ SameWalks /\ SameStayed
         /\ SameOps /\ stack'[Len(stack)].op = o
<1>. DEFINE c == [Top EXCEPT !.op = o]
<1>1. Top \in Contexts
  BY Depth
<1>2. /\ c \in Contexts /\ c.sig = Top.sig /\ c.hard = Top.hard
      /\ c.saved = Top.saved /\ c.held = Top.held /\ c.at = Top.at
      /\ c.calling = Top.calling /\ c.called = Top.called /\ c.stayed = Top.stayed
      /\ c.op = o
  BY <1>1 DEF Contexts
<1>. HIDE DEF c
<1>3. SetTop(c)
  BY DEF c, Goes
<1>4. /\ stack' \in Seq(Contexts) /\ SameFrames
      /\ \A i \in 1..(Len(stack) - 1) : stack'[i] = stack[i]
      /\ stack'[Len(stack)] = c
  BY <1>2, <1>3, TopChanged
<1>5. SameWalks /\ SameStayed
  <2>1. SUFFICES ASSUME NEW i \in 1..Len(stack)
                 PROVE  /\ stack'[i].at = stack[i].at
                        /\ stack'[i].calling = stack[i].calling
                        /\ stack'[i].called = stack[i].called
                        /\ stack'[i].stayed = stack[i].stayed
    BY DEF SameWalks, SameStayed
  <2>2. CASE i = Len(stack)
    BY <1>2, <1>4, <2>2, Depth
  <2>3. CASE i # Len(stack)
    <3>1. i \in 1..(Len(stack) - 1)
      BY <2>3, Depth, NotLast
    <3>2. QED
      BY <1>4, <3>1
  <2>4. QED
    BY <2>2, <2>3
<1>6. SameOps /\ stack'[Len(stack)].op = o
  BY <1>2, <1>4 DEF SameOps
<1>7. QED
  BY <1>4, <1>5, <1>6

-----------------------------------------------------------------------------
(***************************************************************************)
(* The calls.                                                              *)
(***************************************************************************)

Stages == {"none", "base", "whole", "dying", "gone"}

LEMMA OpFields ==
  ASSUME NEW o \in Ops
  PROVE  /\ o.kind \in {"set", "unset"} => o.sig \in Signals /\ o.arg \in Handlers
         /\ o.kind = "unset all" => o.sig \in Signals
         /\ o.kind \in {"mask", "unmask"} => o.sig \in Signals /\ o.arg \in Signals
         /\ o.sa \in SigActions
         /\ o.step = "read" =>
              o.sig \in Signals /\ o.kind \in {"set", "unset all", "mask", "unmask"}
<1>1. CASE o = NoOp
  BY <1>1 DEF NoOp, Unread, SigActions
<1>2. CASE o \in [kind : {"set"}, sig : Signals, arg : Handlers, sa : SigActions,
                  step : {"list", "read", "write", "push"}]
  BY <1>2
<1>3. CASE o \in [kind : {"unset"}, sig : Signals, arg : Handlers, sa : SigActions,
                  step : {"list"}]
  BY <1>3
<1>4. CASE o \in [kind : {"unset all"}, sig : Signals, arg : {NoSignal},
                  sa : SigActions, step : {"list", "read", "write"}]
  BY <1>4
<1>5. CASE o \in [kind : {"mask", "unmask"}, sig : Signals, arg : Signals,
                  sa : SigActions, step : {"read", "write"}]
  BY <1>5
<1>6. QED
  BY <1>1, <1>2, <1>3, <1>4, <1>5 DEF Ops

LEMMA NoCall == NoOp \in Ops
BY DEF Ops

LEMMA ACall ==
  ASSUME NEW s \in Signals, NEW h \in Handlers, NEW b \in Signals
  PROVE  /\ Op("set", s, h) \in Ops /\ Op("unset", s, h) \in Ops
         /\ Op("unset all", s, NoSignal) \in Ops
         /\ Op("mask", s, b) \in Ops /\ Op("unmask", s, b) \in Ops
<1>1. Unread \in SigActions
  BY DEF Unread, SigActions
<1>2. QED
  BY <1>1 DEF Ops, Op

LEMMA OpRecord ==
  ASSUME NEW o \in Ops
  PROVE  o \in [kind : {o.kind}, sig : {o.sig}, arg : {o.arg}, sa : {o.sa},
                step : {o.step}]
BY DEF Ops, NoOp

\* A call goes on: it writes or pushes next, and has read sa.
LEMMA OpMoves ==
  ASSUME NEW o \in Ops, NEW step, NEW sa \in SigActions,
         \/ o.kind = "set" /\ step \in {"read", "write", "push"}
         \/ o.kind = "unset all" /\ step \in {"read", "write"}
         \/ o.kind \in {"mask", "unmask"} /\ step = "write",
         NEW p, p = [o EXCEPT !.step = step, !.sa = sa]
  PROVE  /\ p \in Ops /\ p.kind = o.kind /\ p.sig = o.sig /\ p.arg = o.arg
         /\ p.step = step /\ p.sa = sa
<1>1. CASE o = NoOp
  BY <1>1 DEF NoOp
<1>2. CASE o \in [kind : {"set"}, sig : Signals, arg : Handlers, sa : SigActions,
                  step : {"list", "read", "write", "push"}]
  BY <1>2 DEF Ops
<1>3. CASE o \in [kind : {"unset"}, sig : Signals, arg : Handlers, sa : SigActions,
                  step : {"list"}]
  BY <1>3
<1>4. CASE o \in [kind : {"unset all"}, sig : Signals, arg : {NoSignal},
                  sa : SigActions, step : {"list", "read", "write"}]
  BY <1>4 DEF Ops
<1>5. CASE o \in [kind : {"mask", "unmask"}, sig : Signals, arg : Signals,
                  sa : SigActions, step : {"read", "write"}]
  BY <1>5 DEF Ops
<1>6. QED
  BY <1>1, <1>2, <1>3, <1>4, <1>5 DEF Ops

LEMMA OpSteps ==
  ASSUME NEW o \in Ops, NEW step,
         \/ o.kind = "set" /\ step \in {"read", "write", "push"}
         \/ o.kind = "unset all" /\ step \in {"read", "write"}
         \/ o.kind \in {"mask", "unmask"} /\ step = "write",
         NEW p, p = [o EXCEPT !.step = step]
  PROVE  /\ p \in Ops /\ p.kind = o.kind /\ p.sig = o.sig /\ p.arg = o.arg
         /\ p.step = step /\ p.sa = o.sa
<1>1. CASE o = NoOp
  BY <1>1 DEF NoOp
<1>2. CASE o \in [kind : {"set"}, sig : Signals, arg : Handlers, sa : SigActions,
                  step : {"list", "read", "write", "push"}]
  BY <1>2 DEF Ops
<1>3. CASE o \in [kind : {"unset"}, sig : Signals, arg : Handlers, sa : SigActions,
                  step : {"list"}]
  BY <1>3
<1>4. CASE o \in [kind : {"unset all"}, sig : Signals, arg : {NoSignal},
                  sa : SigActions, step : {"list", "read", "write"}]
  BY <1>4 DEF Ops
<1>5. CASE o \in [kind : {"mask", "unmask"}, sig : Signals, arg : Signals,
                  sa : SigActions, step : {"read", "write"}]
  BY <1>5 DEF Ops
<1>6. QED
  BY <1>1, <1>2, <1>3, <1>4, <1>5 DEF Ops

\* What an interrupted call p relies on is not changed by the call t above it
\* unless the two have met.
LEMMA StillFits ==
  ASSUME NEW p \in Ops, NEW t \in Ops,
         Fits(p, disp, smap, asked, undone, lost), Noted(p, t, undone, lost),
         undone \subseteq undone', lost \subseteq lost',
         \A s \in Signals : disp[s] = "sig" => disp'[s] = "sig"
                                              \/ (t.kind = "unset all" /\ t.sig = s),
         \A s \in Signals : smap[s] = <<>> => smap'[s] = <<>>
                                              \/ (t.kind = "set" /\ t.sig = s),
         \A s \in Signals : asked'[s] \subseteq asked[s]
                            \/ (t.kind = "mask" /\ t.sig = s)
  PROVE  Fits(p, disp', smap', asked', undone', lost')
<1>1. ASSUME p.kind = "set", p.step = "push", p.sig \notin undone'
      PROVE  disp'[p.sig] = "sig"
  <2>1. p.sig \in Signals /\ disp[p.sig] = "sig" /\ p.sig \notin undone
    BY <1>1, OpFields DEF Fits
  <2>2. ~(t.kind = "unset all" /\ t.sig = p.sig)
    BY <1>1, <2>1 DEF Noted, Undoes
  <2>3. QED
    BY <2>1, <2>2
<1>2. ASSUME p.kind = "unset all", p.step \in {"read", "write"},
             p.sig \notin undone'
      PROVE  smap'[p.sig] = <<>>
  <2>1. p.sig \in Signals /\ smap[p.sig] = <<>> /\ p.sig \notin undone
    BY <1>2, OpFields DEF Fits
  <2>2. ~(t.kind = "set" /\ t.sig = p.sig)
    BY <1>2, <2>1 DEF Noted, Undoes
  <2>3. QED
    BY <2>1, <2>2
<1>3. ASSUME p.kind \in {"set", "mask", "unmask"}, p.step = "write",
             p.sig \notin lost'
      PROVE  asked'[p.sig] \subseteq IF p.sa.handler = "sig" THEN p.sa.mask ELSE {}
  <2>1. /\ p.sig \in Signals /\ p.sig \notin lost
        /\ asked[p.sig] \subseteq IF p.sa.handler = "sig" THEN p.sa.mask ELSE {}
    BY <1>3, OpFields DEF Fits
  <2>2. ~(t.kind = "mask" /\ t.sig = p.sig)
    BY <1>3, <2>1 DEF Noted, Loses
  <2>3. asked'[p.sig] \subseteq asked[p.sig]
    BY <2>1, <2>2
  <2>4. QED
    BY <2>1, <2>3
<1>4. p.kind = "set" /\ p.step = "write" => p.sa.handler = "dfl"
  BY DEF Fits
<1>5. QED
  BY <1>1, <1>2, <1>3, <1>4 DEF Fits

LEMMA LastAbove ==
  ASSUME NEW n \in Nat, n > 0
  PROVE  /\ n \in 1..n
         /\ \A i \in 1..n : i # n => i \in 1..(n - 1) /\ i < n
         /\ \A i \in 1..(n - 1) : i \in 1..n /\ i < n
         /\ \A i, j \in 1..n : i < j => i \in 1..(n - 1) /\ i # n
OBVIOUS

LEMMA CallsKept ==
  ASSUME SigTypeOK, CallsFit, CallsMet, stack' \in Seq(Contexts), SameFrames, SameOps,
         undone \subseteq undone', lost \subseteq lost',
         \A s \in Signals : disp[s] = "sig" => disp'[s] = "sig"
                            \/ (Top.op.kind = "unset all" /\ Top.op.sig = s),
         \A s \in Signals : smap[s] = <<>> => smap'[s] = <<>>
                            \/ (Top.op.kind = "set" /\ Top.op.sig = s),
         \A s \in Signals : asked'[s] \subseteq asked[s]
                            \/ (Top.op.kind = "mask" /\ Top.op.sig = s),
         Fits(stack'[Len(stack)].op, disp', smap', asked', undone', lost'),
         \A i \in Below : Noted(stack[i].op, stack'[Len(stack)].op, undone', lost')
  PROVE  CallsFit' /\ CallsMet'
<1>1. /\ Len(stack) \in Nat /\ Len(stack) > 0 /\ DOMAIN stack = 1..Len(stack)
      /\ \A i \in 1..Len(stack) : stack[i] \in Contexts
      /\ Top = stack[Len(stack)] /\ Top \in Contexts
  BY Depth
<1>2. DOMAIN stack' = 1..Len(stack) /\ Len(stack') = Len(stack)
  BY LenProperties DEF SameFrames
<1>3. CallsFit'
  <2>1. SUFFICES ASSUME NEW i \in 1..Len(stack)
                 PROVE  Fits(stack'[i].op, disp', smap', asked', undone', lost')
    BY <1>2 DEF CallsFit
  <2>2. CASE i = Len(stack)
    BY <2>2
  <2>3. CASE i # Len(stack)
    <3>1. i \in 1..(Len(stack) - 1) /\ i < Len(stack)
          /\ i \in DOMAIN stack /\ Len(stack) \in DOMAIN stack
      BY <1>1, <2>3, LastAbove
    <3>2. PICK p \in Ops, t \in Ops : p = stack[i].op /\ t = Top.op
      BY <1>1, ContextFields
    <3>3. Fits(p, disp, smap, asked, undone, lost) /\ Noted(p, t, undone, lost)
      BY <1>1, <3>1, <3>2 DEF CallsFit, CallsMet
    <3>4. Fits(p, disp', smap', asked', undone', lost')
      BY <3>2, <3>3, StillFits
    <3>5. QED
      BY <3>1, <3>2, <3>4 DEF SameOps
  <2>4. QED
    BY <2>2, <2>3
<1>4. CallsMet'
  <2>1. SUFFICES ASSUME NEW i \in 1..Len(stack), NEW j \in 1..Len(stack), i < j
                 PROVE  Noted(stack'[i].op, stack'[j].op, undone', lost')
    BY <1>2 DEF CallsMet
  <2>2. i \in 1..(Len(stack) - 1) /\ i \in DOMAIN stack /\ j \in DOMAIN stack
    BY <1>1, <2>1, LastAbove
  <2>3. stack'[i].op = stack[i].op
    BY <2>2 DEF SameOps
  <2>4. CASE j = Len(stack)
    BY <2>2, <2>3, <2>4 DEF Below
  <2>5. CASE j # Len(stack)
    <3>1. j \in 1..(Len(stack) - 1)
      BY <1>1, <2>5, LastAbove
    <3>2. stack'[j].op = stack[j].op
      BY <3>1 DEF SameOps
    <3>3. Noted(stack[i].op, stack[j].op, undone, lost)
      BY <2>1, <2>2 DEF CallsMet
    <3>4. QED
      BY <2>3, <3>2, <3>3 DEF Noted
  <2>6. QED
    BY <2>4, <2>5
<1>5. QED
  BY <1>3, <1>4

LEMMA NothingToFit ==
  ASSUME NEW d, NEW m, NEW a, NEW u, NEW l
  PROVE  Fits(NoOp, d, m, a, u, l)
BY DEF Fits, NoOp

\* The running call has made a step on the lists and the sigactions.
LEMMA CallMoved ==
  ASSUME SigIInv, made' \in Nat, NEW o \in Ops, stack' \in Seq(Contexts),
         SameFrames, SameOps, stack'[Len(stack)].op = o,
         o = NoOp \/ (o.kind = Top.op.kind /\ o.sig = Top.op.sig),
         Fits(o, disp', smap', asked', undone, lost),
         \A s \in Signals : disp[s] = "sig" => disp'[s] = "sig"
                            \/ (Top.op.kind = "unset all" /\ Top.op.sig = s),
         \A s \in Signals : smap[s] = <<>> => smap'[s] = <<>>
                            \/ (Top.op.kind = "set" /\ Top.op.sig = s),
         \A s \in Signals : asked'[s] \subseteq asked[s]
                            \/ (Top.op.kind = "mask" /\ Top.op.sig = s),
         disp' \in [Signals -> {"dfl", "sig"}],
         samask' \in [Signals -> SUBSET Signals],
         smap' \in [Signals -> Seq(Nodes)],
         asked' \in [Signals -> SUBSET Signals],
         stage' \in [Handlers -> Stages],
         WalksOnNodes', ListsDistinct', WalksOrderly',
         OwnersKnown', HandlersAreInstalled', AskedIsMasked',
         UNCHANGED <<own, blocked, meetVars, undefined>>
  PROVE  SigIInv'
<1>1. undone' = undone /\ lost' = lost
  BY DEF meetVars
<1>2. /\ stack' # <<>> /\ ProgramBelow' /\ HeldIsSaved' /\ NestedMaskHolds'
      /\ HeldIsBlocked'
  BY <1>1, FramesKept DEF SigIInv
<1>3. SigTypeOK'
  BY <1>1, <1>2 DEF SigIInv, SigTypeOK, Stages
<1>4. \A i \in Below : Noted(stack[i].op, o, undone, lost)
  <2>1. TAKE i \in Below
  <2>2. CASE o = NoOp
    <3>1. o.kind = "none"
      BY ONLY <2>2 DEF NoOp
    <3>2. QED
      BY ONLY <3>1, SMT DEF Noted, Undoes, Loses
  <2>3. CASE o.kind = Top.op.kind /\ o.sig = Top.op.sig
    <3>1. i \in DOMAIN stack /\ Len(stack) \in DOMAIN stack /\ i < Len(stack)
          /\ Top = stack[Len(stack)]
      BY Depth, LastAbove DEF SigIInv, Below
    <3>2. Noted(stack[i].op, Top.op, undone, lost)
      BY <3>1 DEF SigIInv, CallsMet
    <3>3. QED
      BY <2>3, <3>2 DEF Noted
  <2>4. QED
    BY <2>2, <2>3
<1>5. CallsFit' /\ CallsMet'
  BY <1>1, <1>4, CallsKept DEF SigIInv
<1>6. QED
  BY <1>2, <1>3, <1>5 DEF SigIInv

\* A call begins above others.
LEMMA CallBegun ==
  ASSUME SigIInv, made' \in Nat, NEW o \in Ops, Goes(o),
         o.step = "list" \/ (o.kind \in {"mask", "unmask"} /\ o.step = "read"),
         \A i \in Below : Noted(stack[i].op, o, undone', lost'),
         undone \subseteq undone', lost \subseteq lost',
         undone' \subseteq Signals, lost' \subseteq Signals,
         stage' \in [Handlers -> Stages],
         own' \in [Handlers -> Signals \cup {NoSignal}],
         OwnersKnown',
         UNCHANGED <<installVars, smap, blocked, undefined>>
  PROVE  SigIInv'
<1>1. /\ stack' \in Seq(Contexts) /\ SameFrames /\ SameWalks /\ SameStayed
      /\ SameOps /\ stack'[Len(stack)].op = o
  BY OpChanged DEF SigIInv
<1>2. UNCHANGED <<disp, samask, asked>>
  BY DEF installVars
<1>3. /\ stack' # <<>> /\ ProgramBelow' /\ HeldIsSaved' /\ NestedMaskHolds'
      /\ HeldIsBlocked'
  BY <1>1, FramesKept DEF SigIInv
<1>4. WalksOnNodes'
  BY <1>1, WalksKept DEF SigIInv
<1>5. HandlersAreInstalled' /\ AskedIsMasked'
  BY <1>2 DEF SigIInv, HandlersAreInstalled, AskedIsMasked
<1>6. SigTypeOK'
  BY <1>1, <1>2, <1>3 DEF SigIInv, SigTypeOK, Stages
<1>7. ListsDistinct' /\ WalksOrderly'
  BY <1>1, OrderUnmoved DEF SigIInv, ListsDistinct
<1>8. Fits(o, disp', smap', asked', undone', lost')
  BY DEF Fits
<1>9. CallsFit' /\ CallsMet'
  BY <1>1, <1>2, <1>8, CallsKept DEF SigIInv
<1>10. QED
  BY <1>3, <1>4, <1>5, <1>6, <1>7, <1>9 DEF SigIInv

LEMMA CallBegins ==
  ASSUME SigIInv, made' \in Nat, NEW o \in Ops, Begin(o), o.sig \in Signals,
         o.step = "list" \/ (o.kind \in {"mask", "unmask"} /\ o.step = "read")
  PROVE  SigIInv'
<1>1. /\ Goes(o) /\ Note(o)
      /\ UNCHANGED <<installVars, smap, objectVars, blocked, undefined>>
  BY DEF Begin
<1>2. \A i \in Below : Noted(stack[i].op, o, undone', lost')
  BY <1>1 DEF Note, Noted
<1>3. /\ undone \subseteq undone' /\ lost \subseteq lost'
      /\ undone' \subseteq Signals /\ lost' \subseteq Signals
  BY <1>1 DEF Note, SigIInv, SigTypeOK
<1>4. stage' \in [Handlers -> Stages] /\ own' \in [Handlers -> Signals \cup {NoSignal}]
  BY <1>1 DEF SigIInv, SigTypeOK, Stages, objectVars
<1>5. OwnersKnown'
  BY <1>1 DEF SigIInv, OwnersKnown, objectVars
<1>6. QED
  BY <1>1, <1>2, <1>3, <1>4, <1>5, CallBegun

\* The program's own calls interrupt none.
LEMMA NothingBelow ==
  ASSUME InProgram
  PROVE  Below = {}
BY DEF InProgram, Below

LEMMA ConstructKeeps ==
  ASSUME SigIInv, made' \in Nat, NEW h \in Handlers, NEW s \in Signals,
         Construct(h, s)
  PROVE  SigIInv'
<1>1. PICK o \in Ops : o = Op("set", s, h)
  BY ACall
<1>2. o.step = "list" /\ Goes(o)
  BY <1>1 DEF Construct, Op
<1>3. stage' \in [Handlers -> Stages] /\ own' \in [Handlers -> Signals \cup {NoSignal}]
  BY DEF Construct, SigIInv, SigTypeOK, Stages
<1>4. OwnersKnown'
  BY DEF Construct, SigIInv, SigTypeOK, OwnersKnown
<1>5. UNCHANGED <<installVars, smap, blocked, meetVars, undefined>> /\ Below = {}
  BY NothingBelow DEF Construct
<1>6. /\ undone' = undone /\ lost' = lost
      /\ undone \subseteq Signals /\ lost \subseteq Signals
  BY <1>5 DEF meetVars, SigIInv, SigTypeOK
<1>7. QED
  BY <1>2, <1>3, <1>4, <1>5, <1>6, CallBegun

LEMMA DestroyKeeps ==
  ASSUME SigIInv, made' \in Nat, NEW h \in Handlers, Destroy(h)
  PROVE  SigIInv'
<1>1. own[h] \in Signals
  BY DEF Destroy, SigIInv, OwnersKnown
<1>2. PICK o \in Ops : o = Op("unset", own[h], h)
  BY <1>1, ACall
<1>3. o.step = "list" /\ Goes(o)
  BY <1>2 DEF Destroy, Op
<1>4. stage' \in [Handlers -> Stages] /\ own' \in [Handlers -> Signals \cup {NoSignal}]
  BY DEF Destroy, SigIInv, SigTypeOK, Stages
<1>5. OwnersKnown'
  BY DEF Destroy, SigIInv, SigTypeOK, OwnersKnown
<1>6. UNCHANGED <<installVars, smap, blocked, meetVars, undefined>> /\ Below = {}
  BY NothingBelow DEF Destroy
<1>7. /\ undone' = undone /\ lost' = lost
      /\ undone \subseteq Signals /\ lost \subseteq Signals
  BY <1>6 DEF meetVars, SigIInv, SigTypeOK
<1>8. QED
  BY <1>3, <1>4, <1>5, <1>6, <1>7, CallBegun

LEMMA CompleteKeeps ==
  ASSUME SigIInv, made' \in Nat, NEW h \in Handlers, Complete(h)
  PROVE  SigIInv'
<1>1. UNCHANGED <<disp, samask, asked, smap, own, blocked, stack, undone, lost, undefined>>
  BY DEF Complete, installVars, meetVars
<1>2. SigTypeOK'
  BY <1>1 DEF Complete, SigIInv, SigTypeOK
<1>3. OwnersKnown'
  BY <1>1 DEF Complete, SigIInv, SigTypeOK, OwnersKnown
<1>4. ProgramBelow' /\ HeldIsBlocked' /\ HeldIsSaved' /\ NestedMaskHolds'
  BY <1>1 DEF SigIInv, ProgramBelow, HeldIsBlocked, HeldIsSaved, NestedMaskHolds
<1>5. HandlersAreInstalled' /\ WalksOnNodes' /\ AskedIsMasked'
  BY <1>1 DEF SigIInv, HandlersAreInstalled, WalksOnNodes, AskedIsMasked
<1>6. ListsDistinct' /\ WalksOrderly' /\ CallsFit' /\ CallsMet'
  BY <1>1 DEF SigIInv, ListsDistinct, WalksOrderly, CallsFit, CallsMet
<1>7. QED
  BY <1>2, <1>3, <1>4, <1>5, <1>6 DEF SigIInv

LEMMA Stops ==
  ASSUME SigIInv, made' \in Nat, NEW why \in {"race", "partial"}, Undefined(why)
  PROVE  SigIInv'
<1>1. UNCHANGED <<disp, samask, asked, smap, stage, own, blocked, stack, undone, lost>>
  BY DEF Undefined, installVars, objectVars, meetVars
<1>2. SigTypeOK'
  BY <1>1 DEF Undefined, SigIInv, SigTypeOK
<1>3. ProgramBelow' /\ HeldIsBlocked' /\ HeldIsSaved' /\ NestedMaskHolds'
  BY <1>1 DEF SigIInv, ProgramBelow, HeldIsBlocked, HeldIsSaved, NestedMaskHolds
<1>4. HandlersAreInstalled' /\ WalksOnNodes' /\ AskedIsMasked' /\ OwnersKnown'
  BY <1>1 DEF SigIInv, HandlersAreInstalled, WalksOnNodes, AskedIsMasked, OwnersKnown
<1>5. ListsDistinct' /\ WalksOrderly' /\ CallsFit' /\ CallsMet'
  BY <1>1 DEF SigIInv, ListsDistinct, WalksOrderly, CallsFit, CallsMet
<1>6. QED
  BY <1>2, <1>3, <1>4, <1>5 DEF SigIInv

-----------------------------------------------------------------------------
(***************************************************************************)
(* The steps of a call that leave the lists alone.                         *)
(***************************************************************************)

LEMMA Running ==
  ASSUME SigIInv
  PROVE  Top.op \in Ops /\ Fits(Top.op, disp, smap, asked, undone, lost)
<1>1. Len(stack) \in DOMAIN stack /\ Top = stack[Len(stack)] /\ Top \in Contexts
  BY Depth DEF SigIInv
<1>2. QED
  BY <1>1, ContextFields DEF SigIInv, CallsFit

LEMMA ListsAlone ==
  ASSUME SigIInv, made' \in Nat, NEW o \in Ops, Goes(o),
         o = NoOp \/ (o.kind = Top.op.kind /\ o.sig = Top.op.sig),
         Fits(o, disp', smap, asked', undone, lost),
         \A s \in Signals : disp[s] = "sig" => disp'[s] = "sig"
                            \/ (Top.op.kind = "unset all" /\ Top.op.sig = s),
         \A s \in Signals : asked'[s] \subseteq asked[s]
                            \/ (Top.op.kind = "mask" /\ Top.op.sig = s),
         disp' \in [Signals -> {"dfl", "sig"}],
         samask' \in [Signals -> SUBSET Signals],
         asked' \in [Signals -> SUBSET Signals],
         stage' \in [Handlers -> Stages],
         OwnersKnown', HandlersAreInstalled', AskedIsMasked',
         UNCHANGED <<smap, own, blocked, meetVars, undefined>>
  PROVE  SigIInv'
<1>1. /\ stack' \in Seq(Contexts) /\ SameFrames /\ SameWalks /\ SameStayed
      /\ SameOps /\ stack'[Len(stack)].op = o
  BY OpChanged DEF SigIInv
<1>2. WalksOnNodes'
  BY <1>1, WalksKept DEF SigIInv
<1>3. ListsDistinct' /\ WalksOrderly'
  BY <1>1, OrderUnmoved DEF SigIInv, ListsDistinct
<1>4. smap' \in [Signals -> Seq(Nodes)]
  BY DEF SigIInv, SigTypeOK
<1>5. \A s \in Signals : smap[s] = <<>> => smap'[s] = <<>>
                            \/ (Top.op.kind = "set" /\ Top.op.sig = s)
  OBVIOUS
<1>6. Fits(o, disp', smap', asked', undone, lost)
  OBVIOUS
<1>7. QED
  BY <1>1, <1>2, <1>3, <1>4, <1>5, <1>6, CallMoved

\* A step that only takes the call to its next.
LEMMA OnlyGoes ==
  ASSUME SigIInv, made' \in Nat, NEW o \in Ops, Goes(o),
         o = NoOp \/ (o.kind = Top.op.kind /\ o.sig = Top.op.sig),
         Fits(o, disp, smap, asked, undone, lost),
         stage' \in [Handlers -> Stages], OwnersKnown',
         UNCHANGED <<installVars, smap, own, blocked, meetVars, undefined>>
  PROVE  SigIInv'
<1>1. UNCHANGED <<disp, samask, asked>> /\ UNCHANGED <<undone, lost>>
  BY DEF installVars, meetVars
<1>2. /\ disp' \in [Signals -> {"dfl", "sig"}]
      /\ samask' \in [Signals -> SUBSET Signals]
      /\ asked' \in [Signals -> SUBSET Signals]
  BY <1>1 DEF SigIInv, SigTypeOK
<1>3. HandlersAreInstalled' /\ AskedIsMasked'
  BY <1>1 DEF SigIInv, HandlersAreInstalled, AskedIsMasked
<1>4. QED
  BY <1>1, <1>2, <1>3, ListsAlone

LEMMA ObjectsAlone ==
  ASSUME SigIInv, UNCHANGED objectVars
  PROVE  own' = own /\ stage' \in [Handlers -> Stages] /\ OwnersKnown'
BY DEF SigIInv, SigTypeOK, Stages, objectVars, OwnersKnown

LEMMA SetLooksKeeps ==
  ASSUME SigIInv, made' \in Nat, SetLooks
  PROVE  SigIInv'
<1>1. PICK t \in Ops : t = Top.op
  BY Running
<1>2. t.kind = "set" /\ t.step = "list" /\ t.sig \in Signals
  BY <1>1, OpFields DEF SetLooks, At
<1>3. /\ own' = own /\ stage' \in [Handlers -> Stages] /\ OwnersKnown'
      /\ UNCHANGED <<installVars, smap, own, blocked, meetVars, undefined>>
  BY ObjectsAlone DEF SetLooks
<1>4. CASE OpEnds
  BY <1>3, <1>4, NoCall, NothingToFit, OnlyGoes DEF OpEnds
<1>5. CASE Goes(OpAt("read"))
  <2>1. PICK o : o = [t EXCEPT !.step = "read"]
    OBVIOUS
  <2>2. /\ o \in Ops /\ o.kind = t.kind /\ o.sig = t.sig /\ o.step = "read"
    BY <1>2, <2>1, OpSteps
  <2>3. Fits(o, disp, smap, asked, undone, lost)
    BY <1>2, <2>2 DEF Fits
  <2>4. Goes(o)
    BY <1>1, <1>5, <2>1 DEF OpAt
  <2>5. QED
    BY <1>1, <1>3, <2>2, <2>3, <2>4, OnlyGoes
<1>6. CASE smap[t.sig] # <<>> /\ Goes(OpAt("push"))
  <2>1. PICK o : o = [t EXCEPT !.step = "push"]
    OBVIOUS
  <2>2. /\ o \in Ops /\ o.kind = t.kind /\ o.sig = t.sig /\ o.step = "push"
    BY <1>2, <2>1, OpSteps
  <2>3. t.sig \notin undone => disp[t.sig] = "sig"
    BY <1>2, <1>6 DEF SigIInv, HandlersAreInstalled
  <2>4. Fits(o, disp, smap, asked, undone, lost)
    BY <1>2, <2>2, <2>3 DEF Fits
  <2>5. Goes(o)
    BY <1>1, <1>6, <2>1 DEF OpAt
  <2>6. QED
    BY <1>1, <1>3, <2>2, <2>4, <2>5, OnlyGoes
<1>7. QED
  BY <1>1, <1>4, <1>5, <1>6 DEF SetLooks

LEMMA ReadsKeeps ==
  ASSUME SigIInv, made' \in Nat, Reads
  PROVE  SigIInv'
<1>1. PICK t \in Ops : t = Top.op /\ Fits(t, disp, smap, asked, undone, lost)
  BY Running
<1>2. PICK s \in Signals : s = t.sig
  BY <1>1, OpFields DEF Reads
<1>3. t.step = "read" /\ t.kind \in {"set", "unset all", "mask", "unmask"}
  BY <1>1, OpFields DEF Reads
<1>4. PICK step : step = NextStep(t.kind, disp[s])
  OBVIOUS
<1>5. /\ UNCHANGED objectVars
      /\ UNCHANGED <<disp, samask, smap, blocked, meetVars, undefined>>
      /\ IF step = "done" THEN OpEnds /\ asked' = [asked EXCEPT ![s] = {}]
         ELSE Goes([t EXCEPT !.step = step, !.sa = Read(s)]) /\ UNCHANGED asked
  BY <1>1, <1>2, <1>4 DEF Reads
<1>6. own' = own /\ stage' \in [Handlers -> Stages] /\ OwnersKnown'
  BY <1>5, ObjectsAlone
<1>7. disp[s] \in {"dfl", "sig"} /\ samask[s] \subseteq Signals
  BY DEF SigIInv, SigTypeOK
<1>8. CASE step = "done"
  <2>1. Goes(NoOp) /\ asked' = [asked EXCEPT ![s] = {}]
    BY <1>5, <1>8 DEF OpEnds
  <2>2. \A q \in Signals : asked'[q] = IF q = s THEN {} ELSE asked[q]
    BY <2>1 DEF SigIInv, SigTypeOK
  <2>3. AskedIsMasked' /\ HandlersAreInstalled'
    BY <1>5, <2>2 DEF SigIInv, AskedIsMasked, HandlersAreInstalled, meetVars
  <2>4. /\ disp' \in [Signals -> {"dfl", "sig"}]
        /\ samask' \in [Signals -> SUBSET Signals]
        /\ asked' \in [Signals -> SUBSET Signals]
    BY <1>5, <2>1 DEF SigIInv, SigTypeOK
  <2>5. \A q \in Signals : asked'[q] \subseteq asked[q]
    BY <2>2
  <2>6. QED
    BY <1>5, <1>6, <2>1, <2>3, <2>4, <2>5, NoCall, NothingToFit, ListsAlone
<1>9. CASE step # "done"
  <2>1. PICK sa \in SigActions : sa = Read(s)
    BY <1>7 DEF Read, SigActions
  <2>2. sa.handler = disp[s] /\ sa.mask = samask[s]
    BY <2>1 DEF Read
  <2>3. PICK o : o = [t EXCEPT !.step = step, !.sa = sa]
    OBVIOUS
  <2>4. \/ t.kind = "set" /\ step = "push" /\ disp[s] = "sig"
        \/ t.kind = "set" /\ step = "write" /\ disp[s] = "dfl"
        \/ t.kind = "unset all" /\ step = "write"
        \/ t.kind \in {"mask", "unmask"} /\ step = "write"
    BY <1>3, <1>4, <1>7, <1>9 DEF NextStep
  <2>5. /\ o \in Ops /\ o.kind = t.kind /\ o.sig = s /\ o.step = step /\ o.sa = sa
    <3>1. \/ t.kind = "set" /\ step \in {"read", "write", "push"}
          \/ t.kind = "unset all" /\ step \in {"read", "write"}
          \/ t.kind \in {"mask", "unmask"} /\ step = "write"
      BY <2>4
    <3>2. o \in Ops
      BY <2>3, <3>1, OpMoves
    <3>3. QED
      BY <1>2, <2>3, <3>2, OpRecord
  <2>6. Fits(o, disp, smap, asked, undone, lost)
    <3>1. s \notin lost => asked[s] \subseteq IF disp[s] = "sig" THEN samask[s] ELSE {}
      BY DEF SigIInv, AskedIsMasked
    <3>2. t.kind = "unset all" /\ s \notin undone => smap[s] = <<>>
      BY <1>1, <1>2, <1>3 DEF Fits
    <3>3. QED
      BY <2>2, <2>4, <2>5, <3>1, <3>2 DEF Fits
  <2>7. Goes(o) /\ UNCHANGED installVars
    BY <1>5, <1>9, <2>1, <2>3 DEF installVars
  <2>8. QED
    BY <1>1, <1>2, <1>5, <1>6, <2>5, <2>6, <2>7, OnlyGoes
<1>10. QED
  BY <1>8, <1>9

\* set, mask and unmask write sighandler with the mask m, and leave those
\* asked for that are in it.
LEMMA SighandlerWritten ==
  ASSUME SigIInv, made' \in Nat, NEW o \in Ops, Goes(o),
         o = NoOp \/ (o.kind = Top.op.kind /\ o.sig = Top.op.sig),
         NEW s \in Signals, NEW m \in SUBSET Signals, NEW q \in SUBSET Signals,
         Install(s, "sig", m), asked' = [asked EXCEPT ![s] = q],
         s \notin lost => q \subseteq m,
         q \subseteq asked[s] \/ (Top.op.kind = "mask" /\ Top.op.sig = s),
         o = NoOp \/ (o.kind = "set" /\ o.step = "push" /\ o.sig = s),
         UNCHANGED <<smap, objectVars, blocked, meetVars, undefined>>
  PROVE  SigIInv'
<1>1. own' = own /\ stage' \in [Handlers -> Stages] /\ OwnersKnown'
  BY ObjectsAlone
<1>2. /\ \A r \in Signals : disp'[r] = IF r = s THEN "sig" ELSE disp[r]
      /\ \A r \in Signals : samask'[r] = IF r = s THEN m ELSE samask[r]
      /\ \A r \in Signals : asked'[r] = IF r = s THEN q ELSE asked[r]
      /\ disp' \in [Signals -> {"dfl", "sig"}]
      /\ samask' \in [Signals -> SUBSET Signals]
      /\ asked' \in [Signals -> SUBSET Signals]
  BY DEF Install, SigIInv, SigTypeOK
<1>3. undone' = undone /\ lost' = lost
  BY DEF meetVars
<1>4. HandlersAreInstalled'
  BY <1>2, <1>3 DEF SigIInv, HandlersAreInstalled
<1>5. AskedIsMasked'
  BY <1>2, <1>3 DEF SigIInv, AskedIsMasked
<1>6. Fits(o, disp', smap, asked', undone, lost)
  <2>1. CASE o = NoOp
    BY <2>1, NothingToFit
  <2>2. CASE o.kind = "set" /\ o.step = "push" /\ o.sig = s
    BY <1>2, <2>2 DEF Fits
  <2>3. QED
    BY <2>1, <2>2
<1>7. QED
  BY <1>1, <1>2, <1>4, <1>5, <1>6, ListsAlone

LEMMA SetWritesKeeps ==
  ASSUME SigIInv, made' \in Nat, SetWrites
  PROVE  SigIInv'
<1>1. PICK t \in Ops : t = Top.op /\ Fits(t, disp, smap, asked, undone, lost)
  BY Running
<1>2. t.kind = "set" /\ t.step = "write"
  BY <1>1 DEF SetWrites, At
<1>3. PICK s \in Signals : s = t.sig
  BY <1>2, OpFields
<1>4. PICK o : o = [t EXCEPT !.step = "push"]
  OBVIOUS
<1>5. o \in Ops /\ o.kind = "set" /\ o.sig = s /\ o.step = "push"
  BY <1>2, <1>3, <1>4, OpSteps
<1>6. Goes(o) /\ Install(s, "sig", {})
  BY <1>1, <1>3, <1>4 DEF SetWrites, OpAt
<1>7. asked' = [asked EXCEPT ![s] = asked[s]] /\ asked[s] \in SUBSET Signals
  BY DEF SetWrites, SigIInv, SigTypeOK
<1>8. s \notin lost => asked[s] \subseteq {}
  BY <1>1, <1>2, <1>3 DEF Fits
<1>9. UNCHANGED <<smap, objectVars, blocked, meetVars, undefined>>
  BY DEF SetWrites
<1>10. {} \in SUBSET Signals
  OBVIOUS
<1>11. PICK q \in SUBSET Signals : q = asked[s]
  BY <1>7
<1>12. QED
  BY <1>1, <1>2, <1>3, <1>5, <1>6, <1>7, <1>8, <1>9, <1>10, <1>11, SighandlerWritten

\* mask and unmask: the sigaction keeps what is still asked for.
LEMMA MaskKeeps ==
  ASSUME SigIInv, made' \in Nat, MaskWrites \/ UnmaskWrites
  PROVE  SigIInv'
<1>1. PICK t \in Ops : t = Top.op /\ Fits(t, disp, smap, asked, undone, lost)
  BY Running
<1>2. t.kind \in {"mask", "unmask"} /\ t.step = "write"
  BY <1>1 DEF MaskWrites, UnmaskWrites, At
<1>3. PICK s \in Signals, b \in Signals : s = t.sig /\ b = t.arg
  BY <1>2, OpFields
<1>4. PICK m \in SUBSET Signals : m = MaskRead
  BY <1>1, OpFields DEF MaskRead, SigActions
<1>5. s \notin lost => asked[s] \subseteq m
  BY <1>1, <1>2, <1>3, <1>4 DEF Fits, MaskRead
<1>6. asked[s] \in SUBSET Signals
  BY DEF SigIInv, SigTypeOK
<1>7. Goes(NoOp) /\ UNCHANGED <<smap, objectVars, blocked, meetVars, undefined>>
  BY DEF MaskWrites, UnmaskWrites, OpEnds
<1>8. CASE MaskWrites
  <2>1. PICK n \in SUBSET Signals, q \in SUBSET Signals :
          n = m \cup {b} /\ q = asked[s] \cup {b}
    BY <1>6
  <2>2. Install(s, "sig", n) /\ asked' = [asked EXCEPT ![s] = q]
    BY <1>1, <1>3, <1>4, <1>8, <2>1 DEF MaskWrites
  <2>3. s \notin lost => q \subseteq n
    BY <1>5, <2>1
  <2>4. Top.op.kind = "mask" /\ Top.op.sig = s
    BY <1>1, <1>3, <1>8 DEF MaskWrites, At
  <2>5. QED
    BY <1>7, <2>2, <2>3, <2>4, NoCall, SighandlerWritten
<1>9. CASE UnmaskWrites
  <2>1. PICK n \in SUBSET Signals, q \in SUBSET Signals :
          n = m \ {b} /\ q = asked[s] \ {b}
    BY <1>6
  <2>2. Install(s, "sig", n) /\ asked' = [asked EXCEPT ![s] = q]
    BY <1>1, <1>3, <1>4, <1>9, <2>1 DEF UnmaskWrites
  <2>3. (s \notin lost => q \subseteq n) /\ q \subseteq asked[s]
    BY <1>5, <2>1
  <2>4. QED
    BY <1>7, <2>2, <2>3, NoCall, SighandlerWritten
<1>10. QED
  BY <1>8, <1>9

\* unset(signo) resets a disposition whose list it has emptied.
LEMMA UnsetAllWritesKeeps ==
  ASSUME SigIInv, made' \in Nat, UnsetAllWrites
  PROVE  SigIInv'
<1>1. PICK t \in Ops : t = Top.op /\ Fits(t, disp, smap, asked, undone, lost)
  BY Running
<1>2. t.kind = "unset all" /\ t.step = "write"
  BY <1>1 DEF UnsetAllWrites, At
<1>3. PICK s \in Signals : s = t.sig
  BY <1>2, OpFields
<1>4. /\ disp' = [disp EXCEPT ![s] = "dfl"]
      /\ samask' = [samask EXCEPT ![s] = {}]
      /\ asked' = [asked EXCEPT ![s] = {}]
      /\ Goes(NoOp)
      /\ UNCHANGED <<smap, objectVars, blocked, meetVars, undefined>>
  BY <1>1, <1>3 DEF UnsetAllWrites, OpEnds, Install
<1>5. own' = own /\ stage' \in [Handlers -> Stages] /\ OwnersKnown'
  BY <1>4, ObjectsAlone
<1>6. /\ \A r \in Signals : disp'[r] = IF r = s THEN "dfl" ELSE disp[r]
      /\ \A r \in Signals : samask'[r] = IF r = s THEN {} ELSE samask[r]
      /\ \A r \in Signals : asked'[r] = IF r = s THEN {} ELSE asked[r]
      /\ disp' \in [Signals -> {"dfl", "sig"}]
      /\ samask' \in [Signals -> SUBSET Signals]
      /\ asked' \in [Signals -> SUBSET Signals]
  BY <1>4 DEF SigIInv, SigTypeOK
<1>7. undone' = undone /\ lost' = lost
  BY <1>4 DEF meetVars
<1>8. s \notin undone => smap[s] = <<>>
  BY <1>1, <1>2, <1>3 DEF Fits
<1>9. HandlersAreInstalled'
  BY <1>4, <1>6, <1>7, <1>8 DEF SigIInv, HandlersAreInstalled
<1>10. AskedIsMasked'
  BY <1>6, <1>7 DEF SigIInv, AskedIsMasked
<1>11. \A r \in Signals : disp[r] = "sig" => disp'[r] = "sig"
                            \/ (Top.op.kind = "unset all" /\ Top.op.sig = r)
  BY <1>1, <1>2, <1>3, <1>6
<1>12. \A r \in Signals : asked'[r] \subseteq asked[r]
  BY <1>6
<1>13. QED
  BY <1>4, <1>5, <1>6, <1>9, <1>10, <1>11, <1>12, NoCall, NothingToFit, ListsAlone

LEMMA GonerKnown ==
  ASSUME SigIInv, NEW h \in Handlers, stage' = Goner(h), own' = own
  PROVE  stage' \in [Handlers -> Stages] /\ OwnersKnown'
BY DEF Goner, SigIInv, SigTypeOK, Stages, OwnersKnown

LEMMA UnsetMissesKeeps ==
  ASSUME SigIInv, made' \in Nat, UnsetMisses
  PROVE  SigIInv'
<1>1. PICK h \in Handlers : h = Top.op.arg
  BY Running, OpFields DEF UnsetMisses, At
<1>2. /\ stage' = Goner(h) /\ Goes(NoOp)
      /\ UNCHANGED <<installVars, smap, own, blocked, meetVars, undefined>>
  BY <1>1 DEF UnsetMisses, OpEnds
<1>3. stage' \in [Handlers -> Stages] /\ OwnersKnown'
  BY <1>2, GonerKnown
<1>4. QED
  BY <1>2, <1>3, NoCall, NothingToFit, OnlyGoes

-----------------------------------------------------------------------------
(***************************************************************************)
(* The steps of a call that change a list.                                 *)
(***************************************************************************)

\* A step of a call that leaves the sigactions alone.
LEMMA ListMoved ==
  ASSUME SigIInv, made' \in Nat, NEW o \in Ops, stack' \in Seq(Contexts),
         SameFrames, SameOps, stack'[Len(stack)].op = o,
         o = NoOp \/ (o.kind = Top.op.kind /\ o.sig = Top.op.sig),
         Fits(o, disp, smap', asked, undone, lost),
         \A s \in Signals : smap[s] = <<>> => smap'[s] = <<>>
                            \/ (Top.op.kind = "set" /\ Top.op.sig = s),
         smap' \in [Signals -> Seq(Nodes)],
         stage' \in [Handlers -> Stages],
         WalksOnNodes', ListsDistinct', WalksOrderly',
         OwnersKnown', HandlersAreInstalled',
         UNCHANGED <<installVars, own, blocked, meetVars, undefined>>
  PROVE  SigIInv'
<1>1. UNCHANGED <<disp, samask, asked>> /\ UNCHANGED <<undone, lost>>
  BY DEF installVars, meetVars
<1>2. /\ disp' \in [Signals -> {"dfl", "sig"}]
      /\ samask' \in [Signals -> SUBSET Signals]
      /\ asked' \in [Signals -> SUBSET Signals]
  BY <1>1 DEF SigIInv, SigTypeOK
<1>3. AskedIsMasked'
  BY <1>1 DEF SigIInv, AskedIsMasked
<1>4. /\ \A s \in Signals : disp[s] = "sig" => disp'[s] = "sig"
                            \/ (Top.op.kind = "unset all" /\ Top.op.sig = s)
      /\ \A s \in Signals : asked'[s] \subseteq asked[s]
                            \/ (Top.op.kind = "mask" /\ Top.op.sig = s)
  BY <1>1
<1>5. Fits(o, disp', smap', asked', undone, lost)
  BY <1>1
<1>6. QED
  BY <1>1, <1>2, <1>3, <1>4, <1>5, CallMoved

\* set adds to the list where sighandler is there.
LEMMA SetPushesKeeps ==
  ASSUME SigIInv, made' \in Nat, SetPushes
  PROVE  SigIInv'
<1>1. PICK t \in Ops : t = Top.op /\ Fits(t, disp, smap, asked, undone, lost)
  BY Running
<1>2. t.kind = "set" /\ t.step = "push"
  BY <1>1 DEF SetPushes, At
<1>3. PICK s \in Signals, h \in Handlers : s = t.sig /\ h = t.arg
  BY <1>2, OpFields
<1>4. PICK list \in Seq(Nodes) : list = smap[s]
  BY DEF SigIInv, SigTypeOK
<1>5. PICK k \in 0..Len(list) :
        /\ <<h, k>> \notin ToSet(list)
        /\ smap' = [smap EXCEPT ![s] = Append(list, <<h, k>>)]
  BY <1>1, <1>3, <1>4 DEF SetPushes
<1>6. PICK n \in Nodes : n = <<h, k>>
  <2>1. Len(list) \in Nat
    BY LenProperties
  <2>2. k \in Nat
    BY <1>5, <2>1
  <2>3. <<h, k>> \in Handlers \X Nat
    BY <2>2
  <2>4. QED
    BY <2>3 DEF Nodes
<1>7. PICK longer \in Seq(Nodes) : longer = Append(list, n)
  BY AppendProperties
<1>8. n \notin ToSet(list) /\ smap' = [smap EXCEPT ![s] = longer]
  BY <1>5, <1>6, <1>7
<1>9. smap' \in [Signals -> Seq(Nodes)]
      /\ \A r \in Signals : smap'[r] = IF r = s THEN longer ELSE smap[r]
  BY <1>8 DEF SigIInv, SigTypeOK
<1>10. Goes(NoOp) /\ UNCHANGED <<installVars, objectVars, blocked, meetVars, undefined>>
  BY DEF SetPushes, OpEnds
<1>11. /\ stack' \in Seq(Contexts) /\ SameFrames /\ SameWalks /\ SameStayed
       /\ SameOps /\ stack'[Len(stack)].op = NoOp
  BY <1>10, NoCall, OpChanged DEF SigIInv
<1>12. own' = own /\ stage' \in [Handlers -> Stages] /\ OwnersKnown'
  BY <1>10, ObjectsAlone
<1>13. NoRepeats(list)
  BY <1>4 DEF SigIInv, ListsDistinct
<1>14. /\ NoRepeats(longer)
       /\ \A g, j \in ToSet(list) : Before(longer, g, j) <=> Before(list, g, j)
       /\ ToSet(longer) = ToSet(list) \cup {n}
  BY <1>7, <1>8, <1>13, OrderOfAdded, SetOfAdded
<1>15. \A r \in Signals : ToSet(smap[r]) \subseteq ToSet(smap'[r])
  BY <1>4, <1>9, <1>14
<1>16. WalksOnNodes'
  BY <1>11, <1>15, Depth, ContextFields, WalksKept DEF SigIInv
<1>17. ListsDistinct'
  BY <1>9, <1>14 DEF SigIInv, ListsDistinct
<1>18. HandlersAreInstalled'
  <2>1. undone' = undone /\ disp' = disp
    BY <1>10 DEF meetVars, installVars
  <2>2. s \notin undone => disp[s] = "sig"
    BY <1>1, <1>2, <1>3 DEF Fits
  <2>3. QED
    BY <1>9, <2>1, <2>2 DEF SigIInv, HandlersAreInstalled
<1>19. WalksOrderly'
  <2>1. ASSUME NEW i \in 1..Len(stack), stack[i].sig # NoSignal
        PROVE  StillWalks(stack[i], stack'[i],
                          smap[stack[i].sig], smap'[stack[i].sig])
    <3>1. /\ stack[i].sig \in Signals /\ i \in DOMAIN stack
          /\ stack'[i].stayed = stack[i].stayed
      BY <1>11, <2>1, Depth, ContextFields DEF SigIInv, SameStayed
    <3>2. PICK c, d, old, new :
            c = stack[i] /\ d = stack'[i] /\ old = smap[c.sig] /\ new = smap'[c.sig]
      OBVIOUS
    <3>3. c.stayed \subseteq ToSet(old)
      BY <2>1, <3>1, <3>2 DEF SigIInv, WalksOrderly, WalkOf
    <3>4. c.at # End => c.at \in ToSet(old)
      BY <2>1, <3>1, <3>2 DEF SigIInv, WalksOnNodes
    <3>5. \A g, j \in ToSet(old) : Before(new, g, j) <=> Before(old, g, j)
      BY <1>4, <1>9, <1>14, <3>1, <3>2
    <3>6. ToSet(old) \subseteq ToSet(new)
      BY <1>15, <3>1, <3>2
    <3>7. StillWalks(c, d, old, new)
      BY <3>1, <3>2, <3>3, <3>4, <3>5, <3>6 DEF StillWalks
    <3>8. QED
      BY <3>2, <3>7
  <2>2. QED
    BY <1>11, <2>1, OrderKept DEF SigIInv
<1>20. \A r \in Signals : smap[r] = <<>> => smap'[r] = <<>>
                            \/ (Top.op.kind = "set" /\ Top.op.sig = r)
  BY <1>1, <1>2, <1>3, <1>9
<1>21. QED
  BY <1>9, <1>10, <1>11, <1>12, <1>16, <1>17, <1>18, <1>19, <1>20, NoCall,
     NothingToFit, ListMoved

LEMMA LeftKeeps ==
  ASSUME SigTypeOK, NEW s \in Signals, NEW hs \in SUBSET Nodes,
         NEW o \in Ops, stack' = Left(s, hs, o)
  PROVE  /\ stack' \in Seq(Contexts) /\ SameFrames /\ SameWalks
         /\ SameOps /\ stack'[Len(stack)].op = o
         /\ \A i \in 1..Len(stack) :
              stack'[i].stayed = IF stack[i].sig = s THEN stack[i].stayed \ hs
                                 ELSE stack[i].stayed
<1>1. Len(stack) \in Nat /\ DOMAIN stack = 1..Len(stack)
  BY Depth
<1>2. \A i \in 1..Len(stack) :
        /\ stack'[i] \in Contexts
        /\ stack'[i].sig = stack[i].sig /\ stack'[i].hard = stack[i].hard
        /\ stack'[i].saved = stack[i].saved /\ stack'[i].held = stack[i].held
        /\ stack'[i].at = stack[i].at /\ stack'[i].calling = stack[i].calling
        /\ stack'[i].called = stack[i].called
        /\ stack'[i].op = IF i = Len(stack) THEN o ELSE stack[i].op
        /\ stack'[i].stayed = IF stack[i].sig = s THEN stack[i].stayed \ hs
                              ELSE stack[i].stayed
  <2>1. TAKE i \in 1..Len(stack)
  <2>. DEFINE old == stack[i]
              ctx == IF i = Len(stack) THEN [old EXCEPT !.op = o] ELSE old
              new == IF ctx.sig = s THEN [ctx EXCEPT !.stayed = @ \ hs] ELSE ctx
  <2>2. old \in Contexts
    BY Depth
  <2>3. stack'[i] = new
    BY <1>1 DEF Left
  <2>. HIDE DEF old
  <2>4. /\ ctx \in Contexts /\ ctx.sig = old.sig /\ ctx.hard = old.hard
        /\ ctx.saved = old.saved /\ ctx.held = old.held /\ ctx.at = old.at
        /\ ctx.calling = old.calling /\ ctx.called = old.called
        /\ ctx.stayed = old.stayed
        /\ ctx.op = IF i = Len(stack) THEN o ELSE old.op
    BY <2>2 DEF Contexts
  <2>. HIDE DEF ctx
  <2>5. /\ new \in Contexts /\ new.sig = ctx.sig /\ new.hard = ctx.hard
        /\ new.saved = ctx.saved /\ new.held = ctx.held /\ new.at = ctx.at
        /\ new.calling = ctx.calling /\ new.called = ctx.called
        /\ new.op = ctx.op
        /\ new.stayed = IF ctx.sig = s THEN ctx.stayed \ hs ELSE ctx.stayed
    BY <2>4 DEF Contexts
  <2>6. QED
    BY <2>3, <2>4, <2>5 DEF old
<1>3. DOMAIN stack' = 1..Len(stack)
  BY <1>1 DEF Left
<1>4. stack' = [i \in 1..Len(stack) |-> stack'[i]]
  BY <1>1 DEF Left
<1>5. \A i \in 1..Len(stack) : stack'[i] \in Contexts
  BY <1>2
<1>6. stack' \in Seq(Contexts) /\ Len(stack') = Len(stack)
  BY <1>1, <1>4, <1>5, IsASeq, LenProperties
<1>7. SameFrames /\ SameWalks
  BY <1>2, <1>6 DEF SameFrames, SameWalks
<1>8. SameOps /\ stack'[Len(stack)].op = o
  <2>1. Len(stack) > 0 /\ Len(stack) \in Nat
    BY Depth
  <2>2. stack'[Len(stack)].op = o
    BY <1>2, <2>1, LastAbove
  <2>3. ASSUME NEW i \in 1..(Len(stack) - 1)
        PROVE  stack'[i].op = stack[i].op
    <3>1. i \in 1..Len(stack) /\ i # Len(stack)
      BY <2>1, <2>3
    <3>2. QED
      BY <1>2, <3>1
  <2>4. QED
    BY <2>2, <2>3 DEF SameOps
<1>9. QED
  BY <1>2, <1>6, <1>7, <1>8

\* What leaves a list, whose other nodes keep their order, is no node a walk
\* stands at.
LEMMA ListShrinks ==
  ASSUME SigIInv, made' \in Nat, NEW s \in Signals, NEW hs \in SUBSET Nodes,
         NEW list \in Seq(Nodes), list = smap[s], NEW less \in Seq(Nodes),
         smap' = [smap EXCEPT ![s] = less], ~WalkedAt(s, hs),
         NEW o \in Ops, stack' = Left(s, hs, o),
         o = NoOp \/ (o.kind = Top.op.kind /\ o.sig = Top.op.sig),
         Fits(o, disp, smap', asked, undone, lost),
         ToSet(list) \ hs \subseteq ToSet(less), list = <<>> => less = <<>>,
         NoRepeats(less),
         \A g, k : g \notin hs /\ k \notin hs =>
           (Before(less, g, k) <=> Before(list, g, k)),
         stage' \in [Handlers -> Stages], OwnersKnown',
         UNCHANGED <<installVars, own, blocked, meetVars, undefined>>
  PROVE  SigIInv'
<1>1. /\ stack' \in Seq(Contexts) /\ SameFrames /\ SameWalks
      /\ SameOps /\ stack'[Len(stack)].op = o
      /\ \A i \in 1..Len(stack) :
           stack'[i].stayed = IF stack[i].sig = s THEN stack[i].stayed \ hs
                              ELSE stack[i].stayed
  BY LeftKeeps DEF SigIInv
<1>2. smap' \in [Signals -> Seq(Nodes)]
      /\ \A r \in Signals : smap'[r] = IF r = s THEN less ELSE smap[r]
  BY DEF SigIInv, SigTypeOK
<1>3. ASSUME NEW i \in 1..Len(stack),
             stack[i].sig # NoSignal, stack[i].at # End,
             stack[i].at \in ToSet(smap[stack[i].sig])
      PROVE  stack[i].at \in ToSet(smap'[stack[i].sig])
  <2>1. stack[i].sig \in Signals /\ i \in DOMAIN stack
    BY <1>3, Depth, ContextFields DEF SigIInv
  <2>2. CASE stack[i].sig # s
    BY <1>2, <1>3, <2>1, <2>2
  <2>3. CASE stack[i].sig = s
    <3>1. stack[i].at \notin hs
      BY <1>3, <2>1, <2>3 DEF WalkedAt
    <3>2. QED
      BY <1>2, <1>3, <2>1, <2>3, <3>1
  <2>4. QED
    BY <2>2, <2>3
<1>4. WalksOnNodes'
  BY <1>1, <1>3, WalksKept DEF SigIInv
<1>5. ListsDistinct'
  BY <1>2 DEF SigIInv, ListsDistinct
<1>6. HandlersAreInstalled'
  <2>1. undone' = undone /\ disp' = disp
    BY DEF meetVars, installVars
  <2>2. QED
    BY <1>2, <2>1 DEF SigIInv, HandlersAreInstalled
<1>7. WalksOrderly'
  <2>1. ASSUME NEW i \in 1..Len(stack), stack[i].sig # NoSignal
        PROVE  StillWalks(stack[i], stack'[i],
                          smap[stack[i].sig], smap'[stack[i].sig])
    <3>1. stack[i].sig \in Signals /\ i \in DOMAIN stack
      BY <2>1, Depth, ContextFields DEF SigIInv
    <3>2. PICK c, d, old, new :
            c = stack[i] /\ d = stack'[i] /\ old = smap[c.sig] /\ new = smap'[c.sig]
      OBVIOUS
    <3>3. c.stayed \subseteq ToSet(old)
      BY <2>1, <3>1, <3>2 DEF SigIInv, WalksOrderly, WalkOf
    <3>4. CASE c.sig # s
      <4>1. new = old /\ d.stayed = c.stayed
        BY <1>1, <1>2, <3>1, <3>2, <3>4
      <4>2. StillWalks(c, d, old, new)
        BY <3>3, <4>1 DEF StillWalks
      <4>3. QED
        BY <3>2, <4>2
    <3>5. CASE c.sig = s
      <4>1. old = list /\ new = less /\ d.stayed = c.stayed \ hs
        BY <1>1, <1>2, <3>1, <3>2, <3>5
      <4>2. c.at \notin hs
        BY <3>1, <3>2, <3>5 DEF WalkedAt
      <4>3. StillWalks(c, d, old, new)
        BY <3>3, <4>1, <4>2 DEF StillWalks
      <4>4. QED
        BY <3>2, <4>3
    <3>6. QED
      BY <3>4, <3>5
  <2>2. QED
    BY <1>1, <2>1, OrderKept DEF SigIInv
<1>8. \A r \in Signals : smap[r] = <<>> => smap'[r] = <<>>
                            \/ (Top.op.kind = "set" /\ Top.op.sig = r)
  BY <1>2
<1>9. QED
  BY <1>1, <1>2, <1>4, <1>5, <1>6, <1>7, <1>8, ListMoved

LEMMA UnsetFindsKeeps ==
  ASSUME SigIInv, made' \in Nat, UnsetFinds
  PROVE  SigIInv'
<1>1. PICK t \in Ops : t = Top.op
  BY Running
<1>2. PICK s \in Signals, h \in Handlers : s = t.sig /\ h = t.arg
  BY <1>1, OpFields DEF UnsetFinds, At
<1>3. PICK list \in Seq(Nodes) : list = smap[s]
  BY DEF SigIInv, SigTypeOK
<1>4. PICK i \in DOMAIN list :
        /\ ~WalkedAt(s, {list[i]})
        /\ smap' = [smap EXCEPT ![s] = RemoveAt(list, i)]
        /\ stack' = Left(s, {list[i]}, NoOp)
  BY <1>1, <1>2, <1>3 DEF UnsetFinds
<1>5. i \in 1..Len(list)
  BY LenProperties
<1>6. PICK n \in Nodes : n = list[i]
  BY <1>5, ElementOfSeq
<1>7. PICK hs \in SUBSET Nodes : hs = {n}
  OBVIOUS
<1>8. NoRepeats(list)
  BY <1>3 DEF SigIInv, ListsDistinct
<1>9. PICK less \in Seq(Nodes) : less = RemoveAt(list, i)
  BY <1>5, ListErased
<1>10. /\ ToSet(list) \ hs \subseteq ToSet(less) /\ list # <<>>
       /\ NoRepeats(less)
       /\ \A g, k : g \notin hs /\ k \notin hs =>
            (Before(less, g, k) <=> Before(list, g, k))
  BY <1>5, <1>6, <1>7, <1>8, <1>9, ListErased, OrderOfErased
<1>11. stage' = Goner(h) /\ UNCHANGED <<installVars, own, blocked, meetVars, undefined>>
  BY <1>1, <1>2 DEF UnsetFinds
<1>12. stage' \in [Handlers -> Stages] /\ OwnersKnown'
  BY <1>11, GonerKnown
<1>13. /\ ~WalkedAt(s, hs) /\ smap' = [smap EXCEPT ![s] = less]
       /\ stack' = Left(s, hs, NoOp)
  BY <1>4, <1>6, <1>7, <1>9
<1>14. QED
  BY <1>3, <1>10, <1>11, <1>12, <1>13, NoCall, NothingToFit, ListShrinks

LEMMA UnsetAllErasesKeeps ==
  ASSUME SigIInv, made' \in Nat, UnsetAllErases
  PROVE  SigIInv'
<1>1. PICK t \in Ops : t = Top.op
  BY Running
<1>2. t.kind = "unset all" /\ t.step = "list"
  BY <1>1 DEF UnsetAllErases, At
<1>3. PICK s \in Signals : s = t.sig
  BY <1>2, OpFields
<1>4. PICK list \in Seq(Nodes) : list = smap[s]
  BY DEF SigIInv, SigTypeOK
<1>5. PICK o : o = [t EXCEPT !.step = "read"]
  OBVIOUS
<1>6. o \in Ops /\ o.kind = t.kind /\ o.sig = t.sig /\ o.step = "read"
  BY <1>2, <1>5, OpSteps
<1>7. PICK hs \in SUBSET Nodes : hs = ToSet(list)
  BY NodesAre
<1>8. PICK less \in Seq(Nodes) : less = <<>>
  <2>1. <<>> \in Seq(Nodes)
    OBVIOUS
  <2>2. QED
    BY <2>1
<1>9. /\ ~WalkedAt(s, hs) /\ smap' = [smap EXCEPT ![s] = less]
      /\ stack' = Left(s, hs, o)
      /\ UNCHANGED <<installVars, objectVars, blocked, meetVars, undefined>>
  BY <1>1, <1>3, <1>4, <1>5, <1>7, <1>8 DEF UnsetAllErases, Cleared, OpAt
<1>10. own' = own /\ stage' \in [Handlers -> Stages] /\ OwnersKnown'
  BY <1>9, ObjectsAlone
<1>11. NoRepeats(less) /\ ToSet(list) \ hs \subseteq ToSet(less)
  BY <1>7, <1>8 DEF NoRepeats
<1>12. \A g, k : g \notin hs /\ k \notin hs => ~Before(list, g, k) /\ ~Before(less, g, k)
  <2>1. \A i \in DOMAIN list : list[i] \in hs
    BY <1>7 DEF ToSet
  <2>2. DOMAIN less = {}
    BY <1>8
  <2>3. QED
    BY <2>1, <2>2 DEF Before
<1>13. Fits(o, disp, smap', asked, undone, lost)
  <2>1. smap'[s] = <<>>
    BY <1>8, <1>9 DEF SigIInv, SigTypeOK
  <2>2. QED
    BY <1>2, <1>3, <1>6, <2>1 DEF Fits
<1>14. QED
  BY <1>1, <1>4, <1>6, <1>8, <1>9, <1>10, <1>11, <1>12, <1>13, ListShrinks

-----------------------------------------------------------------------------
(***************************************************************************)
(* Masks, walks and what ends the behaviour.                               *)
(***************************************************************************)

\* The steps of signals and walks leave lists and sigactions alone.
LEMMA Quiet ==
  ASSUME UNCHANGED <<installVars, objectVars, meetVars>>
  PROVE  UNCHANGED <<disp, samask, asked, stage, own, undone, lost>>
BY DEF installVars, objectVars, meetVars

\* The calls that are still in progress rely on nothing that has changed.
LEMMA SameCalls ==
  ASSUME SigIInv, UNCHANGED <<disp, smap, asked, undone, lost>>,
         \A i \in DOMAIN stack' :
           stack'[i].op = NoOp \/ (i \in DOMAIN stack /\ stack'[i].op = stack[i].op)
  PROVE  CallsFit' /\ CallsMet'
<1>1. CallsFit'
  <2>1. SUFFICES ASSUME NEW i \in DOMAIN stack'
                 PROVE  Fits(stack'[i].op, disp, smap, asked, undone, lost)
    BY DEF CallsFit
  <2>2. CASE stack'[i].op = NoOp
    BY <2>2, NothingToFit
  <2>3. CASE i \in DOMAIN stack /\ stack'[i].op = stack[i].op
    BY <2>3 DEF SigIInv, CallsFit
  <2>4. QED
    BY <2>2, <2>3
<1>2. CallsMet'
  <2>1. SUFFICES ASSUME NEW i \in DOMAIN stack', NEW j \in DOMAIN stack', i < j
                 PROVE  Noted(stack'[i].op, stack'[j].op, undone, lost)
    BY DEF CallsMet
  <2>2. NoOp.kind = "none"
    BY DEF NoOp
  <2>3. CASE stack'[i].op = NoOp \/ stack'[j].op = NoOp
    BY <2>2, <2>3 DEF Noted, Undoes, Loses
  <2>4. CASE /\ i \in DOMAIN stack /\ stack'[i].op = stack[i].op
             /\ j \in DOMAIN stack /\ stack'[j].op = stack[j].op
    BY <2>1, <2>4 DEF SigIInv, CallsMet
  <2>5. QED
    BY <2>3, <2>4
<1>3. QED
  BY <1>1, <1>2

LEMMA BlockKeeps ==
  ASSUME SigIInv, made' \in Nat, NEW s \in Signals, Block(s)
  PROVE  SigIInv'
<1>1. /\ blocked' = blocked \cup {s}
      /\ UNCHANGED <<disp, samask, asked, smap, stage, own, stack, undone, lost,
                     undefined>>
  BY Quiet DEF Block
<1>2. SigTypeOK'
  BY <1>1 DEF SigIInv, SigTypeOK
<1>3. ProgramBelow' /\ HeldIsBlocked' /\ HeldIsSaved' /\ NestedMaskHolds'
  BY <1>1 DEF SigIInv, ProgramBelow, HeldIsBlocked, HeldIsSaved, NestedMaskHolds
<1>4. HandlersAreInstalled' /\ WalksOnNodes' /\ OwnersKnown' /\ AskedIsMasked'
  BY <1>1 DEF SigIInv, HandlersAreInstalled, WalksOnNodes, OwnersKnown, AskedIsMasked
<1>5. ListsDistinct' /\ WalksOrderly'
  BY <1>1 DEF SigIInv, ListsDistinct, WalksOrderly
<1>6. CallsFit' /\ CallsMet'
  BY <1>1, SameCalls
<1>7. QED
  BY <1>2, <1>3, <1>4, <1>5, <1>6 DEF SigIInv

\* A signal that is unblocked is held off by nobody any more.
LEMMA UnblockKeeps ==
  ASSUME SigIInv, made' \in Nat, NEW s \in Signals, Unblock(s)
  PROVE  SigIInv'
<1>1. /\ blocked' = blocked \ {s}
      /\ stack' = [i \in DOMAIN stack |-> [stack[i] EXCEPT !.held = @ \ {s}]]
      /\ UNCHANGED <<disp, samask, asked, smap, stage, own, undone, lost,
                     undefined>>
  BY Quiet DEF Unblock
<1>2. Len(stack) \in Nat /\ DOMAIN stack = 1..Len(stack)
  BY Depth DEF SigIInv
<1>3. \A i \in 1..Len(stack) :
        /\ stack'[i] \in Contexts
        /\ stack'[i].sig = stack[i].sig /\ stack'[i].hard = stack[i].hard
        /\ stack'[i].saved = stack[i].saved
        /\ stack'[i].held = stack[i].held \ {s}
        /\ stack'[i].at = stack[i].at /\ stack'[i].calling = stack[i].calling
        /\ stack'[i].op = stack[i].op
        /\ stack'[i].called = stack[i].called /\ stack'[i].stayed = stack[i].stayed
  <2>1. TAKE i \in 1..Len(stack)
  <2>2. PICK old \in Contexts : old = stack[i]
    BY Depth DEF SigIInv
  <2>3. stack'[i] = [old EXCEPT !.held = @ \ {s}]
    BY <1>1, <1>2, <2>2
  <2>4. QED
    BY <2>2, <2>3 DEF Contexts
<1>4. stack' \in Seq(Contexts) /\ Len(stack') = Len(stack)
  <2>1. DOMAIN stack' = 1..Len(stack)
    BY <1>1, <1>2
  <2>2. stack' = [i \in 1..Len(stack) |-> stack'[i]]
    BY <1>1, <1>2
  <2>3. QED
    BY <1>2, <1>3, <2>1, <2>2, IsASeq, LenProperties
<1>5. SameFrames /\ SameWalks /\ SameStayed
  BY <1>3, <1>4 DEF SameFrames, SameWalks, SameStayed
<1>6. /\ stack' # <<>> /\ ProgramBelow' /\ HeldIsSaved' /\ NestedMaskHolds'
  BY <1>1, <1>4, <1>5, FramesKept DEF SigIInv
<1>7. WalksOnNodes'
  BY <1>1, <1>4, <1>5, WalksKept DEF SigIInv
<1>8. HeldIsBlocked'
  <2>1. DOMAIN stack' = 1..Len(stack)
    BY <1>1, <1>2
  <2>2. QED
    BY <1>1, <1>2, <1>3, <2>1 DEF SigIInv, HeldIsBlocked
<1>9. HandlersAreInstalled' /\ OwnersKnown' /\ AskedIsMasked'
  BY <1>1 DEF SigIInv, HandlersAreInstalled, OwnersKnown, AskedIsMasked
<1>10. SigTypeOK'
  BY <1>1, <1>4, <1>6 DEF SigIInv, SigTypeOK
<1>11. ListsDistinct' /\ WalksOrderly'
  BY <1>1, <1>4, <1>5, OrderUnmoved DEF SigIInv, ListsDistinct
<1>12. CallsFit' /\ CallsMet'
  <2>1. DOMAIN stack' = DOMAIN stack
    BY <1>1
  <2>2. QED
    BY <1>1, <1>2, <1>3, <2>1, SameCalls
<1>13. QED
  BY <1>6, <1>7, <1>8, <1>9, <1>10, <1>11, <1>12 DEF SigIInv

\* A walk begins on top of what runs: with the kernel's masks, or without.
LEMMA WalkBegins ==
  ASSUME SigIInv, made' \in Nat, NEW s \in Signals, NEW hard \in BOOLEAN,
         stack' = Append(stack, Context(s, hard)),
         blocked \subseteq blocked', blocked' \subseteq Signals,
         hard => /\ s \notin blocked
                 /\ s \notin lost => asked[s] \subseteq blocked',
         UNCHANGED <<disp, samask, asked, smap, stage, own, undone, lost, undefined>>
  PROVE  SigIInv'
<1>1. Len(stack) \in Nat /\ DOMAIN stack = 1..Len(stack) /\ Len(stack) > 0
  BY Depth DEF SigIInv
<1>2. /\ smap[s] \in Seq(Nodes) /\ ToSet(smap[s]) \subseteq Nodes
      /\ smap[s] # <<>> => Head(smap[s]) \in ToSet(smap[s])
  <2>1. smap[s] \in Seq(Nodes)
    BY DEF SigIInv, SigTypeOK
  <2>2. QED
    BY <2>1, NodesAre
<1>3. s # NoSignal
  BY SigConstants DEF NoSignal
<1>4. PICK c : c = Context(s, hard)
  OBVIOUS
<1>5. /\ c.sig = s /\ c.hard = hard /\ c.saved = blocked
      /\ c.at = IF smap[s] = <<>> THEN End ELSE Head(smap[s])
      /\ c.held = IF ~hard THEN {} ELSE asked[s]
      /\ c.calling = FALSE /\ c.called = <<>> /\ c.stayed = ToSet(smap[s])
      /\ c.op = NoOp
  BY <1>3, <1>4 DEF Context
<1>6. c.at # End => c.at \in ToSet(smap[s])
  BY <1>2, <1>5
<1>7. c \in Contexts
  <2>1. c.at \in Nodes \cup {End}
    BY <1>2, <1>6
  <2>2. c.held \subseteq Signals /\ blocked \subseteq Signals
    BY <1>5 DEF SigIInv, SigTypeOK
  <2>3. PICK k \in Nodes \cup {End}, hs \in SUBSET Signals :
               k = c.at /\ hs = c.held
    BY <2>1, <2>2
  <2>4. c = [sig |-> s, hard |-> hard, calling |-> FALSE, op |-> NoOp,
             saved |-> blocked, at |-> k, called |-> <<>>,
             stayed |-> ToSet(smap[s]), held |-> hs]
    BY <1>3, <1>4, <2>3 DEF Context
  <2>5. /\ s \in Signals \cup {NoSignal} /\ hard \in BOOLEAN /\ FALSE \in BOOLEAN
        /\ NoOp \in Ops /\ blocked \in SUBSET Signals
        /\ <<>> \in Seq(Nodes) /\ ToSet(smap[s]) \in SUBSET Nodes
    BY <1>2, <2>2, NoCall
  <2>6. QED
    BY ONLY <2>3, <2>4, <2>5 DEF Contexts
<1>8. /\ stack' \in Seq(Contexts) /\ stack' # <<>>
      /\ Len(stack') = Len(stack) + 1
      /\ stack'[Len(stack) + 1] = c
      /\ \A i \in 1..Len(stack) : stack'[i] = stack[i]
  <2>1. stack \in Seq(Contexts) /\ stack' = Append(stack, c)
    BY <1>4 DEF SigIInv, SigTypeOK
  <2>2. /\ Append(stack, c) \in Seq(Contexts) /\ Append(stack, c) # <<>>
        /\ Len(Append(stack, c)) = Len(stack) + 1
        /\ Append(stack, c)[Len(stack) + 1] = c
        /\ \A i \in 1..Len(stack) : Append(stack, c)[i] = stack[i]
    BY ONLY <1>7, <2>1, LastAdded
  <2>3. QED
    BY ONLY <2>1, <2>2
<1>9. DOMAIN stack' = 1..(Len(stack) + 1)
  BY <1>8, LenProperties
<1>10. ProgramBelow'
  <2>1. SUFFICES ASSUME NEW i \in 1..(Len(stack) + 1)
                 PROVE  stack'[i].sig = NoSignal <=> i = 1
    BY <1>9 DEF ProgramBelow
  <2>2. CASE i = Len(stack) + 1
    BY <1>1, <1>3, <1>5, <1>8, <2>2
  <2>3. CASE i # Len(stack) + 1
    <3>1. i \in 1..Len(stack)
      BY <1>1, <2>3
    <3>2. QED
      BY <1>1, <1>8, <3>1 DEF SigIInv, ProgramBelow
  <2>4. QED
    BY <2>2, <2>3
<1>11. WalksOnNodes'
  <2>1. SUFFICES ASSUME NEW i \in 1..(Len(stack) + 1)
                 PROVE  /\ stack'[i].calling =>
                             stack'[i].sig # NoSignal /\ stack'[i].at # End
                        /\ stack'[i].sig # NoSignal /\ stack'[i].at # End =>
                             stack'[i].at \in ToSet(smap[stack'[i].sig])
    BY <1>9 DEF WalksOnNodes
  <2>2. CASE i = Len(stack) + 1
    BY <1>5, <1>6, <1>8, <2>1, <2>2
  <2>3. CASE i # Len(stack) + 1
    <3>1. i \in 1..Len(stack)
      BY <1>1, <2>3
    <3>2. QED
      BY <1>1, <1>8, <2>1, <3>1 DEF SigIInv, WalksOnNodes
  <2>4. QED
    BY <2>2, <2>3
<1>12. HeldIsBlocked'
  <2>1. SUFFICES ASSUME NEW i \in 1..(Len(stack) + 1)
                 PROVE  stack'[i].sig \notin lost => stack'[i].held \subseteq blocked'
    BY <1>9 DEF HeldIsBlocked
  <2>2. CASE i = Len(stack) + 1
    BY <1>5, <1>8, <2>2
  <2>3. CASE i # Len(stack) + 1
    <3>1. i \in 1..Len(stack)
      BY <1>1, <2>3
    <3>2. QED
      BY <1>1, <1>8, <3>1 DEF SigIInv, HeldIsBlocked
  <2>4. QED
    BY <2>2, <2>3
<1>13. HeldIsSaved' /\ NestedMaskHolds'
  <2>1. SUFFICES ASSUME NEW i \in 1..(Len(stack) + 1),
                        NEW j \in 1..(Len(stack) + 1), i < j,
                        stack'[i].sig \notin lost
                 PROVE  /\ stack'[i].held \subseteq stack'[j].saved
                        /\ stack'[j].hard => stack'[j].sig \notin stack'[i].held
    BY <1>9 DEF HeldIsSaved, NestedMaskHolds
  <2>2. i \in 1..Len(stack)
    BY <1>1, <2>1
  <2>3. CASE j = Len(stack) + 1
    <3>1. stack'[i].held \subseteq blocked
      BY <1>1, <1>8, <2>1, <2>2 DEF SigIInv, HeldIsBlocked
    <3>2. QED
      BY <1>5, <1>8, <2>3, <3>1
  <2>4. CASE j # Len(stack) + 1
    <3>1. j \in 1..Len(stack)
      BY <1>1, <2>4
    <3>2. QED
      BY <1>1, <1>8, <2>1, <2>2, <3>1 DEF SigIInv, HeldIsSaved, NestedMaskHolds
  <2>5. QED
    BY <2>3, <2>4
<1>14. HandlersAreInstalled' /\ OwnersKnown' /\ AskedIsMasked'
  BY DEF SigIInv, HandlersAreInstalled, OwnersKnown, AskedIsMasked
<1>15. SigTypeOK'
  BY <1>8 DEF SigIInv, SigTypeOK
<1>16. WalkOf(c, smap[s])
  BY <1>2, <1>5, EndNoNode, WalkStarts DEF SigIInv, ListsDistinct
<1>17. ListsDistinct' /\ WalksOrderly'
  <2>1. ASSUME NEW i \in 1..(Len(stack) + 1), stack'[i].sig # NoSignal
        PROVE  WalkOf(stack'[i], smap[stack'[i].sig])
    <3>1. CASE i = Len(stack) + 1
      BY <1>5, <1>8, <1>16, <3>1
    <3>2. CASE i # Len(stack) + 1
      <4>1. i \in 1..Len(stack)
        BY <1>1, <3>2
      <4>2. QED
        BY <1>1, <1>8, <2>1, <4>1 DEF SigIInv, WalksOrderly
    <3>3. QED
      BY <3>1, <3>2
  <2>2. QED
    BY <1>9, <2>1 DEF SigIInv, ListsDistinct, WalksOrderly
<1>18. CallsFit' /\ CallsMet'
  <2>1. ASSUME NEW i \in 1..(Len(stack) + 1)
        PROVE  \/ stack'[i].op = NoOp
               \/ i \in 1..Len(stack) /\ stack'[i].op = stack[i].op
    <3>1. CASE i = Len(stack) + 1
      BY <1>5, <1>8, <3>1
    <3>2. CASE i # Len(stack) + 1
      <4>1. i \in 1..Len(stack)
        BY <1>1, <3>2
      <4>2. QED
        BY <1>8, <4>1
    <3>3. QED
      BY <3>1, <3>2
  <2>2. QED
    BY <1>1, <1>9, <2>1, SameCalls
<1>19. QED
  BY <1>10, <1>11, <1>12, <1>13, <1>14, <1>15, <1>17, <1>18 DEF SigIInv

LEMMA DeliverKeeps ==
  ASSUME SigIInv, made' \in Nat, NEW s \in Signals, Deliver(s)
  PROVE  SigIInv'
<1>1. /\ s \notin blocked /\ disp[s] = "sig"
      /\ stack' = Append(stack, Context(s, TRUE))
      /\ blocked' = blocked \cup {s} \cup samask[s]
      /\ UNCHANGED <<disp, samask, asked, smap, stage, own, undone, lost, undefined>>
  BY Quiet DEF Deliver
<1>2. s \notin lost => asked[s] \subseteq samask[s]
  BY <1>1 DEF SigIInv, AskedIsMasked
<1>3. blocked \subseteq Signals /\ samask[s] \subseteq Signals
  BY DEF SigIInv, SigTypeOK
<1>4. QED
  BY <1>1, <1>2, <1>3, WalkBegins

LEMMA KillKeeps ==
  ASSUME SigIInv, made' \in Nat, NEW s \in Signals, Kill(s)
  PROVE  SigIInv'
<1>1. /\ stack' = Append(stack, Context(s, FALSE)) /\ blocked' = blocked
      /\ UNCHANGED <<disp, samask, asked, smap, stage, own, undone, lost, undefined>>
  BY Quiet DEF Kill
<1>2. blocked \subseteq Signals
  BY DEF SigIInv, SigTypeOK
<1>3. QED
  BY <1>1, <1>2, WalkBegins

\* A walk moves from a handler to the next node.
LEMMA TopMoved ==
  ASSUME SigIInv, made' \in Nat, NEW c \in Contexts, SetTop(c),
         c.sig = Top.sig, c.hard = Top.hard, c.saved = Top.saved,
         c.held = Top.held, c.op = Top.op,
         c.calling => c.sig # NoSignal /\ c.at # End,
         c.sig # NoSignal /\ c.at # End => c.at \in ToSet(smap[c.sig]),
         c.sig # NoSignal => WalkOf(c, smap[c.sig]),
         UNCHANGED <<installVars, smap, objectVars, blocked, meetVars, undefined>>
  PROVE  SigIInv'
<1>1. UNCHANGED <<disp, samask, asked, stage, own, undone, lost>>
  BY Quiet
<1>2. /\ stack' \in Seq(Contexts) /\ SameFrames
      /\ \A i \in 1..(Len(stack) - 1) : stack'[i] = stack[i]
      /\ stack'[Len(stack)] = c
  BY TopChanged DEF SigIInv
<1>3. Len(stack) \in Nat /\ DOMAIN stack = 1..Len(stack)
  BY Depth DEF SigIInv
<1>4. DOMAIN stack' = 1..Len(stack)
  BY <1>2, LenProperties DEF SameFrames
<1>5. WalksOnNodes'
  <2>1. SUFFICES ASSUME NEW i \in 1..Len(stack)
                 PROVE  /\ stack'[i].calling =>
                             stack'[i].sig # NoSignal /\ stack'[i].at # End
                        /\ stack'[i].sig # NoSignal /\ stack'[i].at # End =>
                             stack'[i].at \in ToSet(smap[stack'[i].sig])
    BY <1>4 DEF WalksOnNodes
  <2>2. CASE i = Len(stack)
    BY <1>2, <2>2
  <2>3. CASE i # Len(stack)
    <3>1. i \in 1..(Len(stack) - 1)
      BY <1>3, <2>3, NotLast
    <3>2. QED
      BY <1>2, <1>3, <3>1 DEF SigIInv, WalksOnNodes
  <2>4. QED
    BY <2>2, <2>3
<1>6. /\ stack' # <<>> /\ ProgramBelow' /\ HeldIsSaved' /\ NestedMaskHolds'
      /\ HeldIsBlocked'
  BY <1>1, <1>2, FramesKept DEF SigIInv
<1>7. OwnersKnown' /\ HandlersAreInstalled' /\ AskedIsMasked'
  BY <1>1 DEF SigIInv, HandlersAreInstalled, OwnersKnown, AskedIsMasked
<1>8. ListsDistinct' /\ WalksOrderly'
  <2>1. ASSUME NEW i \in 1..Len(stack), stack'[i].sig # NoSignal
        PROVE  WalkOf(stack'[i], smap[stack'[i].sig])
    <3>1. CASE i = Len(stack)
      BY <1>2, <2>1, <3>1
    <3>2. CASE i # Len(stack)
      <4>1. i \in 1..(Len(stack) - 1)
        BY <1>3, <3>2, NotLast
      <4>2. QED
        BY <1>2, <1>3, <2>1, <4>1 DEF SigIInv, WalksOrderly
    <3>3. QED
      BY <3>1, <3>2
  <2>2. QED
    BY <1>4, <2>1 DEF SigIInv, ListsDistinct, WalksOrderly
<1>9. SigTypeOK'
  BY <1>1, <1>2, <1>6 DEF SigIInv, SigTypeOK
<1>10. CallsFit' /\ CallsMet'
  <2>1. ASSUME NEW i \in 1..Len(stack)
        PROVE  stack'[i].op = stack[i].op
    <3>1. CASE i = Len(stack)
      BY <1>2, <3>1, Depth DEF SigIInv
    <3>2. CASE i # Len(stack)
      <4>1. i \in 1..(Len(stack) - 1)
        BY <1>3, <3>2, NotLast
      <4>2. QED
        BY <1>2, <4>1
    <3>3. QED
      BY <3>1, <3>2
  <2>2. QED
    BY <1>1, <1>3, <1>4, <2>1, SameCalls
<1>11. QED
  BY <1>5, <1>6, <1>7, <1>8, <1>9, <1>10 DEF SigIInv

LEMMA CallHandlerKeeps ==
  ASSUME SigIInv, made' \in Nat, CallHandler
  PROVE  SigIInv'
<1>1. CASE Undefined("partial")
  BY <1>1, Stops
<1>2. CASE /\ SetTop([Top EXCEPT !.calling = TRUE, !.called = Append(@, Top.at)])
           /\ UNCHANGED <<installVars, smap, objectVars, blocked, meetVars, undefined>>
  <2>1. PICK t \in Contexts : t = Top
    BY Depth DEF SigIInv
  <2>2. t.sig # NoSignal /\ t.at # End
    BY <2>1 DEF CallHandler, Walking
  <2>3. t.at \in Nodes /\ t.called \in Seq(Nodes)
    BY <2>1, <2>2, ContextFields
  <2>4. PICK q \in Seq(Nodes) : q = Append(t.called, t.at)
    BY <2>3, AppendProperties
  <2>5. PICK c : c = [t EXCEPT !.calling = TRUE, !.called = q]
    OBVIOUS
  <2>6. /\ c \in Contexts /\ c.sig = t.sig /\ c.hard = t.hard /\ c.saved = t.saved
        /\ c.held = t.held /\ c.at = t.at /\ c.stayed = t.stayed
        /\ c.called = q /\ c.calling = TRUE /\ c.op = t.op
    BY <2>1, <2>4, <2>5 DEF Contexts
  <2>7. SetTop(c)
    BY <1>2, <2>1, <2>4, <2>5
  <2>8. t.at \in ToSet(smap[t.sig])
    <3>1. Len(stack) \in DOMAIN stack /\ t = stack[Len(stack)]
      BY <2>1, Depth DEF SigIInv
    <3>2. QED
      BY <2>2, <3>1 DEF SigIInv, WalksOnNodes
  <2>9. t.calling = FALSE /\ t.sig \in Signals
    BY <2>1, <2>2, ContextFields DEF CallHandler, Walking
  <2>10. PICK list \in Seq(Nodes) :
           list = smap[t.sig] /\ NoRepeats(list) /\ WalkOf(t, list)
    <3>1. Len(stack) \in DOMAIN stack /\ t = stack[Len(stack)]
      BY <2>1, Depth DEF SigIInv
    <3>2. QED
      BY <2>2, <2>9, <3>1 DEF SigIInv, SigTypeOK, ListsDistinct, WalksOrderly
  <2>11. WalkOf(c, list)
    BY <2>2, <2>3, <2>4, <2>6, <2>9, <2>10, WalkCalls
  <2>12. QED
    BY <1>2, <2>1, <2>2, <2>6, <2>7, <2>8, <2>10, <2>11, TopMoved
<1>3. QED
  BY <1>1, <1>2 DEF CallHandler

LEMMA HandlerReturnsKeeps ==
  ASSUME SigIInv, made' \in Nat, HandlerReturns
  PROVE  SigIInv'
<1>1. PICK t \in Contexts : t = Top
  BY Depth DEF SigIInv
<1>2. /\ t.calling
      /\ SetTop([t EXCEPT !.calling = FALSE, !.at = Successor(smap[t.sig], t.at)])
      /\ UNCHANGED <<installVars, smap, objectVars, blocked, meetVars, undefined>>
  BY <1>1 DEF HandlerReturns
<1>3. Len(stack) \in DOMAIN stack /\ t = stack[Len(stack)]
  BY <1>1, Depth DEF SigIInv
<1>4. t.sig # NoSignal /\ t.at \in ToSet(smap[t.sig])
  BY <1>2, <1>3 DEF SigIInv, WalksOnNodes
<1>5. smap[t.sig] \in Seq(Nodes)
  BY <1>4, ContextFields DEF SigIInv, SigTypeOK
<1>6. PICK k : k = Successor(smap[t.sig], t.at)
  OBVIOUS
<1>7. k = End \/ k \in ToSet(smap[t.sig])
  BY <1>4, <1>5, <1>6, NextNode
<1>8. k \in Nodes \cup {End}
  <2>1. ToSet(smap[t.sig]) \subseteq Nodes
    BY <1>5, NodesAre
  <2>2. QED
    BY <1>7, <2>1
<1>9. PICK c : c = [t EXCEPT !.calling = FALSE, !.at = k]
  OBVIOUS
<1>10. /\ c \in Contexts /\ c.sig = t.sig /\ c.hard = t.hard /\ c.saved = t.saved
       /\ c.held = t.held /\ c.at = k /\ c.calling = FALSE
       /\ c.called = t.called /\ c.stayed = t.stayed /\ c.op = t.op
  BY <1>1, <1>8, <1>9 DEF Contexts
<1>11. SetTop(c)
  BY <1>2, <1>6, <1>9
<1>12. NoRepeats(smap[t.sig]) /\ WalkOf(t, smap[t.sig])
  BY <1>3, <1>4, ContextFields DEF SigIInv, ListsDistinct, WalksOrderly
<1>13. t.at # End /\ t.calling = TRUE
  BY <1>2, <1>3, ContextFields DEF SigIInv, WalksOnNodes
<1>14. WalkOf(c, smap[t.sig])
  BY <1>4, <1>5, <1>6, <1>10, <1>12, <1>13, EndNoNode, WalkMoves
<1>15. QED
  BY <1>1, <1>2, <1>7, <1>10, <1>11, <1>14, TopMoved

\* The end of a walk gives back a mask that holds all that is held below it.
LEMMA WalkEndsKeeps ==
  ASSUME SigIInv, made' \in Nat, WalkEnds
  PROVE  SigIInv'
<1>1. /\ Len(stack) \in Nat /\ DOMAIN stack = 1..Len(stack) /\ Len(stack) > 0
      /\ Top = stack[Len(stack)] /\ Top \in Contexts
  BY Depth DEF SigIInv
<1>2. /\ Top.sig # NoSignal /\ stack' = Front(stack)
      /\ blocked' = IF Top.hard THEN Top.saved ELSE blocked
      /\ UNCHANGED <<disp, samask, asked, smap, stage, own, undone, lost,
                     undefined>>
  BY Quiet DEF WalkEnds, Walking
<1>3. Len(stack) > 1
  <2>1. Len(stack) # 1
    BY <1>1, <1>2 DEF SigIInv, ProgramBelow
  <2>2. QED
    BY <1>1, <2>1
<1>4. /\ stack' \in Seq(Contexts) /\ stack' # <<>> /\ Len(stack') = Len(stack) - 1
      /\ \A i \in 1..(Len(stack) - 1) : stack'[i] = stack[i]
  BY <1>2, <1>3, LastRemoved DEF SigIInv, SigTypeOK
<1>5. DOMAIN stack' = 1..(Len(stack) - 1)
  BY <1>4, LenProperties
<1>6. \A i \in 1..(Len(stack) - 1) :
        i \in DOMAIN stack /\ stack'[i] = stack[i] /\ i < Len(stack)
  BY <1>1, <1>4
<1>7. ProgramBelow'
  BY <1>5, <1>6 DEF SigIInv, ProgramBelow
<1>8. WalksOnNodes'
  BY <1>2, <1>5, <1>6 DEF SigIInv, WalksOnNodes
<1>9. HeldIsSaved' /\ NestedMaskHolds'
  BY <1>2, <1>5, <1>6 DEF SigIInv, HeldIsSaved, NestedMaskHolds
<1>10. HeldIsBlocked'
  <2>1. SUFFICES ASSUME NEW i \in 1..(Len(stack) - 1), stack[i].sig \notin lost
                 PROVE  stack'[i].held \subseteq blocked'
    BY <1>2, <1>5, <1>6 DEF HeldIsBlocked
  <2>2. i \in DOMAIN stack /\ stack'[i] = stack[i] /\ i < Len(stack)
    BY <1>6
  <2>3. stack[i].held \subseteq blocked
    BY <2>1, <2>2 DEF SigIInv, HeldIsBlocked
  <2>4. Len(stack) \in DOMAIN stack
    BY <1>1
  <2>5. stack[i].held \subseteq Top.saved
    BY <1>1, <2>1, <2>2, <2>4 DEF SigIInv, HeldIsSaved
  <2>6. QED
    BY <1>2, <2>2, <2>3, <2>5
<1>11. HandlersAreInstalled' /\ OwnersKnown' /\ AskedIsMasked'
  BY <1>2 DEF SigIInv, HandlersAreInstalled, OwnersKnown, AskedIsMasked
<1>12. SigTypeOK'
  <2>1. Top.saved \subseteq Signals
    BY <1>1, ContextFields
  <2>2. QED
    BY <1>2, <1>4, <2>1 DEF SigIInv, SigTypeOK
<1>13. ListsDistinct' /\ WalksOrderly'
  BY <1>2, <1>5, <1>6 DEF SigIInv, ListsDistinct, WalksOrderly
<1>14. CallsFit' /\ CallsMet'
  BY <1>2, <1>5, <1>6, SameCalls
<1>15. QED
  BY <1>7, <1>8, <1>9, <1>10, <1>11, <1>12, <1>13, <1>14 DEF SigIInv

-----------------------------------------------------------------------------
(***************************************************************************)
(* The specification.                                                      *)
(***************************************************************************)

LEMMA SigStarts ==
  SigInit => SigIInv
<1>. SUFFICES ASSUME SigInit PROVE SigIInv
  OBVIOUS
<1>1. PICK c : c = Context(NoSignal, FALSE)
  OBVIOUS
<1>2. c = [sig |-> NoSignal, hard |-> FALSE, calling |-> FALSE, op |-> NoOp,
           saved |-> {}, at |-> End, called |-> <<>>, stayed |-> {}, held |-> {}]
  BY <1>1 DEF Context, SigInit
<1>3. c \in Contexts
  <2>1. <<>> \in Seq(Nodes) /\ NoOp \in Ops
    BY NoCall
  <2>2. QED
    BY ONLY <1>2, <2>1 DEF Contexts
<1>4. stack = <<c>>
  BY <1>1 DEF SigInit
<1>5. /\ stack \in Seq(Contexts) /\ stack # <<>> /\ DOMAIN stack = {1}
      /\ stack[1] = c
  BY <1>3, <1>4
<1>6. SigTypeOK
  <2>1. <<>> \in Seq(Nodes)
    OBVIOUS
  <2>2. QED
    BY <1>5, <2>1 DEF SigInit, SigTypeOK
<1>7. ProgramBelow /\ WalksOnNodes
  BY <1>2, <1>5 DEF ProgramBelow, WalksOnNodes
<1>8. HeldIsBlocked /\ HeldIsSaved /\ NestedMaskHolds
  BY <1>2, <1>5 DEF HeldIsBlocked, HeldIsSaved, NestedMaskHolds
<1>9. HandlersAreInstalled /\ OwnersKnown /\ AskedIsMasked
  BY DEF SigInit, HandlersAreInstalled, OwnersKnown, AskedIsMasked
<1>10. ListsDistinct
  <2>1. ASSUME NEW s \in Signals PROVE smap[s] = <<>>
    BY DEF SigInit
  <2>2. NoRepeats(<<>>)
    BY DEF NoRepeats
  <2>3. QED
    BY <2>1, <2>2 DEF ListsDistinct
<1>11. WalksOrderly
  <2>1. ASSUME NEW i \in DOMAIN stack PROVE stack[i].sig = NoSignal
    BY <1>2, <1>5, <2>1
  <2>2. QED
    BY <2>1 DEF WalksOrderly
<1>12. CallsFit
  BY <1>2, <1>5, NothingToFit DEF CallsFit
<1>13. CallsMet
  BY <1>5 DEF CallsMet
<1>14. QED
  BY <1>6, <1>7, <1>8, <1>9, <1>10, <1>11, <1>12, <1>13 DEF SigIInv

LEMMA SigStep ==
  SigIInv /\ [SigNext]_sigVars => SigIInv'
<1>. SUFFICES ASSUME SigIInv, [SigNext]_sigVars PROVE SigIInv'
  OBVIOUS
<1>1. CASE UNCHANGED sigVars
  <2>1. /\ UNCHANGED <<disp, samask, asked, smap, stage, own, undone, lost>>
        /\ UNCHANGED <<blocked, stack, made, undefined>>
    BY <1>1, Quiet DEF sigVars
  <2>2. SigTypeOK' /\ ProgramBelow' /\ HandlersAreInstalled' /\ WalksOnNodes'
    BY <2>1 DEF SigIInv, SigTypeOK, ProgramBelow, HandlersAreInstalled, WalksOnNodes
  <2>3. OwnersKnown' /\ AskedIsMasked' /\ HeldIsBlocked' /\ HeldIsSaved'
    BY <2>1 DEF SigIInv, OwnersKnown, AskedIsMasked, HeldIsBlocked, HeldIsSaved
  <2>4. NestedMaskHolds' /\ ListsDistinct' /\ WalksOrderly'
    BY <2>1 DEF SigIInv, NestedMaskHolds, ListsDistinct, WalksOrderly
  <2>5. CallsFit' /\ CallsMet'
    BY <2>1, SameCalls
  <2>6. QED
    BY <2>2, <2>3, <2>4, <2>5 DEF SigIInv
<1>2. CASE SigNext
  <2>1. made' \in Nat
    BY <1>2 DEF SigNext, SigIInv, SigTypeOK
  <2>2. ASSUME Calls PROVE SigIInv'
    <3>1. PICK s \in Signals :
            \/ \E h \in Objects : Call("set", s, h) \/ Call("unset", s, h)
            \/ Call("unset all", s, NoSignal)
            \/ \E b \in Signals : Call("mask", s, b) \/ Call("unmask", s, b)
            \/ Block(s) \/ Unblock(s) \/ Kill(s)
            \/ \E h \in Handlers : Construct(h, s) \/ Destroy(h)
      BY <2>2 DEF Calls
    <3>2. ASSUME NEW h \in Objects, Call("set", s, h) \/ Call("unset", s, h)
          PROVE SigIInv'
      <4>1. PICK kind \in {"set", "unset"} : Call(kind, s, h)
        BY <3>2
      <4>2. PICK o : o = Op(kind, s, h)
        OBVIOUS
      <4>3. o \in Ops /\ o.step = "list" /\ o.sig = s
        BY <4>2, ACall DEF Op, Objects
      <4>4. QED
        BY <2>1, <4>1, <4>2, <4>3, CallBegins DEF Call
    <3>3. ASSUME Call("unset all", s, NoSignal) PROVE SigIInv'
      <4>1. PICK o : o = Op("unset all", s, NoSignal)
        OBVIOUS
      <4>2. Unread \in SigActions
        BY DEF Unread, SigActions
      <4>3. o \in Ops /\ o.step = "list" /\ o.sig = s
        BY <4>1, <4>2 DEF Op, Ops
      <4>4. QED
        BY <2>1, <3>3, <4>1, <4>3, CallBegins DEF Call
    <3>4. ASSUME NEW b \in Signals, Call("mask", s, b) \/ Call("unmask", s, b)
          PROVE SigIInv'
      <4>1. PICK kind \in {"mask", "unmask"} : Call(kind, s, b)
        BY <3>4
      <4>2. PICK o : o = Op(kind, s, b)
        OBVIOUS
      <4>3. Unread \in SigActions
        BY DEF Unread, SigActions
      <4>4. o \in Ops /\ o.kind = kind /\ o.step = "read" /\ o.sig = s
        BY <4>2, <4>3 DEF Op, Ops
      <4>5. QED
        BY <2>1, <4>1, <4>2, <4>4, CallBegins DEF Call
    <3>5. CASE Block(s) \/ Unblock(s) \/ Kill(s)
      BY <2>1, <3>5, BlockKeeps, UnblockKeeps, KillKeeps
    <3>6. ASSUME NEW h \in Handlers, Construct(h, s) \/ Destroy(h)
          PROVE SigIInv'
      BY <2>1, <3>6, ConstructKeeps, DestroyKeeps
    <3>7. QED
      BY <3>1, <3>2, <3>3, <3>4, <3>5, <3>6
  <2>3. CASE CallGoesOn \/ Races
    <3>1. Undefined("race") => SigIInv'
      BY <2>1, Stops
    <3>2. ErasesUnderWalk \/ Races => SigIInv'
      BY <3>1 DEF ErasesUnderWalk, Races
    <3>3. SetLooks \/ Reads \/ SetWrites \/ SetPushes => SigIInv'
      BY <2>1, SetLooksKeeps, ReadsKeeps, SetWritesKeeps, SetPushesKeeps
    <3>4. MaskWrites \/ UnmaskWrites \/ UnsetAllWrites => SigIInv'
      BY <2>1, MaskKeeps, UnsetAllWritesKeeps
    <3>5. UnsetFinds \/ UnsetMisses \/ UnsetAllErases => SigIInv'
      BY <2>1, UnsetFindsKeeps, UnsetMissesKeeps, UnsetAllErasesKeeps
    <3>6. QED
      BY <2>3, <3>2, <3>3, <3>4, <3>5 DEF CallGoesOn
  <2>4. ASSUME NEW h \in Handlers, Complete(h) PROVE SigIInv'
    BY <2>1, <2>4, CompleteKeeps
  <2>5. ASSUME NEW s \in Signals, Deliver(s) PROVE SigIInv'
    BY <2>1, <2>5, DeliverKeeps
  <2>6. CASE CallHandler \/ HandlerReturns \/ WalkEnds
    BY <2>1, <2>6, CallHandlerKeeps, HandlerReturnsKeeps, WalkEndsKeeps
  <2>7. QED
    BY <1>2, <2>2, <2>3, <2>4, <2>5, <2>6 DEF SigNext, Proceeds
<1>3. QED
  BY <1>1, <1>2

LEMMA SigInductive ==
  SigSpec => []SigIInv
BY SigStarts, SigStep, PTL DEF SigSpec

\* The variables keep their types: the program at the bottom of the stack is
\* never taken off, and every walk, call and mask is one of the code's.
THEOREM SigTyped ==
  SigSpec => []SigTypeOK
<1>1. SigIInv => SigTypeOK
  BY DEF SigIInv
<1>2. QED
  BY <1>1, SigInductive, PTL

\* A signal with a handler on its list has sighandler installed (sig::set,
\* sig::unset, sig::mask, sig.cpp:44), wherever a signal and the calls of its
\* handlers came in the middle of a call, unless a set and an unset(signo)
\* for it met there, which the code does lose (undone).
THEOREM SigInstalled ==
  SigSpec => []HandlersAreInstalled
<1>1. SigIInv => HandlersAreInstalled
  BY DEF SigIInv
<1>2. QED
  BY <1>1, SigInductive, PTL

\* No handler of b starts over a running handler of a after mask(a, b)
\* (sig::mask, sig.cpp:143): the sa_mask of a holds b, and no walk that ends
\* above gives the process a mask without b; but where a mask(a, ...) came
\* between the read and the write of another call for a (lost).
THEOREM SigMasked ==
  SigSpec => []NestedMaskHolds
<1>1. SigIInv => NestedMaskHolds
  BY DEF SigIInv
<1>2. QED
  BY <1>1, SigInductive, PTL

\* Replacing the running context, whatever it becomes, takes none off.
LEMMA SameDepth ==
  ASSUME SigTypeOK, NEW c, SetTop(c)
  PROVE  Len(stack') = Len(stack)
<1>1. PICK S : S = Contexts \cup {c}
  OBVIOUS
<1>2. /\ stack \in Seq(Contexts) /\ stack # <<>> /\ Len(stack) \in Nat
      /\ \A i \in 1..Len(stack) : stack[i] \in S
  BY <1>1, Depth DEF SigTypeOK
<1>3. stack \in Seq(S) /\ c \in S
  BY <1>1, <1>2, SeqDef, LenProperties
<1>4. QED
  BY <1>2, <1>3, LastReplaced DEF SetTop

\* Nor does changing every context in its place.
LEMMA SamePlaces ==
  ASSUME SigTypeOK, stack' \in Seq(Contexts), DOMAIN stack' = DOMAIN stack
  PROVE  Len(stack') = Len(stack)
BY Depth, LenProperties

\* A context is taken off the stack only at the end of its walk.
LEMMA OnlyWalksEnd ==
  ASSUME SigTypeOK, stack' \in Seq(Contexts), SigNext, Len(stack') < Len(stack)
  PROVE  WalkEnds
<1>1. Len(stack) \in Nat /\ stack' # stack
  BY Depth
<1>2. \A c : ~SetTop(c)
  BY <1>1, SameDepth
<1>3. DOMAIN stack' # DOMAIN stack
  BY <1>1, SamePlaces
<1>4. \A s \in Signals, hard \in BOOLEAN : stack' # Append(stack, Context(s, hard))
  <2>1. SUFFICES ASSUME NEW c, stack' = Append(stack, c) PROVE FALSE
    OBVIOUS
  <2>2. PICK S : S = Contexts \cup {c}
    OBVIOUS
  <2>3. stack \in Seq(S) /\ c \in S
    BY <2>2, Depth, SeqDef, LenProperties DEF SigTypeOK
  <2>4. Len(stack') = Len(stack) + 1
    BY <2>1, <2>3, LastAdded
  <2>5. QED
    BY <1>1, <2>4
<1>5. \A why : ~Undefined(why)
  BY <1>1 DEF Undefined
<1>6. \A o : ~Begin(o)
  BY <1>2 DEF Begin, Goes
<1>7. \A s \in Signals : ~Block(s) /\ ~Unblock(s) /\ ~Kill(s) /\ ~Deliver(s)
  BY <1>1, <1>3, <1>4, <1>5 DEF Block, Unblock, Kill, Deliver
<1>8. \A h \in Handlers, s \in Signals : ~Construct(h, s) /\ ~Destroy(h)
  BY <1>2 DEF Construct, Destroy, Goes
<1>9. ~Calls
  BY <1>6, <1>7, <1>8 DEF Calls, Call
<1>10. \A s, nodes, o : stack' # Left(s, nodes, o)
  BY <1>3 DEF Left
<1>11. ~CallGoesOn /\ ~Races
  <2>1. \A o : ~Goes(o)
    BY <1>2 DEF Goes
  <2>2. ~SetLooks /\ ~Reads /\ ~SetWrites /\ ~SetPushes
    BY <2>1 DEF SetLooks, Reads, SetWrites, SetPushes, OpEnds
  <2>3. ~MaskWrites /\ ~UnmaskWrites /\ ~UnsetMisses /\ ~UnsetAllWrites
    BY <2>1 DEF MaskWrites, UnmaskWrites, UnsetMisses, UnsetAllWrites, OpEnds
  <2>4. ~UnsetFinds /\ ~UnsetAllErases
    BY <1>10 DEF UnsetFinds, UnsetAllErases
  <2>5. ~ErasesUnderWalk /\ ~Races
    BY <1>5 DEF ErasesUnderWalk, Races
  <2>6. QED
    BY <2>2, <2>3, <2>4, <2>5 DEF CallGoesOn
<1>12. \A h \in Handlers : ~Complete(h)
  BY <1>1 DEF Complete
<1>13. ~CallHandler /\ ~HandlerReturns
  BY <1>2, <1>5 DEF CallHandler, HandlerReturns
<1>14. QED
  BY <1>7, <1>9, <1>11, <1>12, <1>13 DEF SigNext, Proceeds

\* A walk (sig::kill, sig.cpp:222, and sighandler) calls each handler that
\* stayed on its list once and in the order of the list, whatever the handlers
\* and the signals above it set and unset: at its end it has passed the whole
\* list, and what it passed of those that stayed it has called.
THEOREM SigWalks ==
  SigSpec => WalkCallsEach
<1>1. ASSUME SigIInv, SigIInv', [SigNext]_sigVars, Len(stack') < Len(stack)
      PROVE  LET called == Top.called
             IN /\ Top.stayed \subseteq ToSet(called)
                /\ \A i, j \in DOMAIN called :
                     i < j /\ {called[i], called[j]} \subseteq Top.stayed =>
                       /\ called[i] # called[j]
                       /\ Before(smap[Top.sig], called[i], called[j])
  <2>1. SigNext
    BY <1>1, Depth DEF SigIInv, sigVars
  <2>2. WalkEnds
    BY <1>1, <2>1, OnlyWalksEnd DEF SigIInv, SigTypeOK
  <2>3. PICK c : c = Top /\ c = stack[Len(stack)] /\ Len(stack) \in DOMAIN stack
    BY <1>1, Depth DEF SigIInv
  <2>4. c.sig # NoSignal /\ c.at = End
    BY <2>2, <2>3 DEF WalkEnds, Walking
  <2>5. PICK list : list = smap[c.sig]
    OBVIOUS
  <2>6. WalkOf(c, list)
    BY <1>1, <2>3, <2>4, <2>5 DEF SigIInv, WalksOrderly
  <2>7. \A h \in c.stayed : h \in ToSet(c.called)
    BY <2>4, <2>6 DEF WalkOf, Passed
  <2>8. \A i, j \in DOMAIN c.called :
          i < j /\ {c.called[i], c.called[j]} \subseteq c.stayed =>
            /\ c.called[i] # c.called[j]
            /\ Before(list, c.called[i], c.called[j])
    BY <2>6 DEF WalkOf
  <2>9. QED
    BY <2>3, <2>5, <2>7, <2>8
<1>2. SigIInv /\ SigIInv' /\ [SigNext]_sigVars =>
        (Len(stack') < Len(stack) =>
           LET called == Top.called
           IN /\ Top.stayed \subseteq ToSet(called)
              /\ \A i, j \in DOMAIN called :
                   i < j /\ {called[i], called[j]} \subseteq Top.stayed =>
                     /\ called[i] # called[j]
                     /\ Before(smap[Top.sig], called[i], called[j]))
  BY <1>1
<1>3. QED
  BY <1>2, SigInductive, PTL DEF SigSpec, WalkCallsEach
=============================================================================
