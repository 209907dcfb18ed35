-------------------------- MODULE SockBufPutProofs --------------------------
(***************************************************************************)
(* Theorems about the output half of a narrow sockbuf (W = 1, the char     *)
(* instance), for every size of the put area and of the kernel's buffer.   *)
(***************************************************************************)
EXTENDS SockBufPut, ByteSeqProofs

-----------------------------------------------------------------------------
(* The caller's bytes.                                                     *)

LEMMA FreshProps ==
  ASSUME W = 1, NEW n \in Nat, handed \in Nat
  PROVE  /\ Fresh(n) \in Seq(Bytes)
         /\ Len(Fresh(n)) = n
         /\ \A i \in 1 .. n : Fresh(n)[i] = handed + i
<1>1. Fresh(n) = [i \in 1 .. n |-> handed + i]
  BY DEF Fresh
<1>2. \A i \in 1 .. n : handed + i \in Bytes
  BY DEF Bytes
<1>3. Fresh(n) \in [1 .. n -> Bytes]
  BY <1>1, <1>2
<1>4. QED
  BY <1>1, <1>3

LEMMA NarrowLengths ==
  ASSUME W = 1, PutTypeOK
  PROVE  /\ Room = IF putOn THEN BufSize - Len(put) ELSE 0
         /\ WriteLen = Len(put)
         /\ BufSize * W = BufSize
         /\ \A n \in Nat : n * W = n
<1>1. Len(put) \in Nat
  BY LenProperties DEF PutTypeOK
<1>2. QED
  BY <1>1, PutConstants DEF Room, WriteLen

-----------------------------------------------------------------------------
(* Where a call in progress can stand.                                     *)

PutControl ==
  /\ ppc \in {"select", "write"} =>
       putOn /\ put # <<>> /\ pop \in {"sputc", "sputn", "sync"}
  /\ ppc = "copy" => pop = "sputn"
  /\ ppc # "write" => wlen = 0
  /\ ppc # "idle" => presult = "none"
  /\ ppc # "idle" /\ pop = "sputc" => Len(rest) = 1
  /\ pop = "sync" /\ presult = "ok" => put = <<>>
  /\ fin => ~putOn

PutShape == PutTypeOK /\ PutInBounds /\ PutControl

LEMMA ShapeInit == ASSUME W = 1, PutInit PROVE PutShape
<1>1. <<>> \in Seq(Bytes) /\ Len(<<>>) = 0 /\ BufSize * W = BufSize
  BY EmptySeq, PutConstants
<1>2. putOn \in BOOLEAN /\ fin \in BOOLEAN /\ ~fin
  BY DEF PutInit
<1>3. PutTypeOK
  BY <1>1, <1>2 DEF PutInit, PutTypeOK
<1>4. PutInBounds
  BY <1>1, PutConstants DEF PutInit, PutInBounds
<1>5. PutControl
  BY <1>2 DEF PutInit, PutControl
<1>6. QED
  BY <1>3, <1>4, <1>5 DEF PutShape

LEMMA ShapeStep ==
  ASSUME W = 1, PutShape, [PutNext]_putVars
  PROVE  PutShape'
<1>. USE DEF PutShape
<1>1. /\ Room = IF putOn THEN BufSize - Len(put) ELSE 0
      /\ WriteLen = Len(put)
      /\ BufSize * W = BufSize
      /\ \A n \in Nat : n * W = n
  BY NarrowLengths
<1>2. /\ Len(put) \in Nat /\ Len(rest) \in Nat /\ Len(wire) \in Nat
      /\ Len(chan) \in Nat
      /\ BufSize \in Nat \ {0} /\ ChanCap \in Nat \ {0}
      /\ Len(put) <= (IF putOn THEN BufSize ELSE 0)
      /\ Room \in Nat
  BY <1>1, LenProperties, PutConstants DEF PutTypeOK, PutInBounds
<1>3. ~putOn => put = <<>>
  BY <1>2, EmptySeq DEF PutTypeOK
<1>4. handed \in Nat /\ <<>> \in Seq(Bytes) /\ Len(<<>>) = 0
  BY EmptySeq DEF PutTypeOK
<1>5. \A n \in Nat : Fresh(n) \in Seq(Bytes) /\ Len(Fresh(n)) = n
  BY <1>4, FreshProps
<1>6. CASE SputcStores
  <2>1. put \o Fresh(1) \in Seq(Bytes) /\ Len(put \o Fresh(1)) = Len(put) + 1
        /\ accepted \o Fresh(1) \in Seq(Bytes)
    BY <1>5, ConcatProperties DEF PutTypeOK
  <2>2. ToSet(<<>>) \in SUBSET Bytes
    BY <1>4, ElementsOfSeq
  <2>3. putOn
    BY <1>6, <1>1 DEF SputcStores
  <2>4. QED
    BY <1>6, <1>1, <1>2, <1>4, <2>1, <2>2, <2>3
       DEF SputcStores, Begin, Store, End, PutTypeOK, PutInBounds, PutControl,
           chanVars
<1>7. CASE OverflowSyncs
  <2>1. Len(put) = BufSize /\ put # <<>>
    BY <1>7, <1>1, <1>2, <1>4 DEF OverflowSyncs
  <2>2. Fresh(1) \in Seq(Bytes) /\ Len(Fresh(1)) = 1
    BY <1>5
  <2>3. handed' = handed + 1
    BY <1>7, <1>1, <1>4 DEF OverflowSyncs, Begin
  <2>4. PutTypeOK'
    BY <1>7, <1>4, <2>2, <2>3
       DEF OverflowSyncs, Begin, Continue, PutTypeOK, areaVars, chanVars
  <2>5. PutInBounds' /\ PutControl'
    BY <1>7, <1>2, <2>1, <2>2
       DEF OverflowSyncs, Begin, Continue, PutTypeOK, PutInBounds, PutControl,
           areaVars, chanVars
  <2>6. QED
    BY <2>4, <2>5
<1>8. CASE OverflowDisabled
  <2>1. ToSet(Fresh(1)) \in SUBSET Bytes
    BY <1>5, ElementsOfSeq
  <2>2. QED
    BY <1>8, <1>1, <1>2, <1>4, <2>1
       DEF OverflowDisabled, Begin, End, PutTypeOK, PutInBounds, PutControl,
           areaVars, chanVars
<1>9. ASSUME NEW n \in 1 .. MaxPut, Sputn(n)
      PROVE  PutShape'
  BY <1>9, <1>1, <1>2, <1>4, <1>5, PutConstants
     DEF Sputn, Begin, Continue, PutTypeOK, PutInBounds, PutControl,
         areaVars, chanVars
<1>10. CASE XsputnFits
  <2>1. put \o rest \in Seq(Bytes) /\ Len(put \o rest) = Len(put) + Len(rest)
        /\ accepted \o rest \in Seq(Bytes)
    BY ConcatProperties DEF PutTypeOK
  <2>2. ToSet(<<>>) \in SUBSET Bytes
    BY <1>4, ElementsOfSeq
  <2>3. Len(put) + Len(rest) <= (IF putOn THEN BufSize ELSE 0)
    BY <1>10, <1>1, <1>2 DEF XsputnFits
  <2>4. QED
    BY <1>10, <1>1, <1>2, <1>4, <2>1, <2>2, <2>3
       DEF XsputnFits, Store, End, PutTypeOK, PutInBounds, PutControl, chanVars
<1>11. CASE XsputnFills
  <2>1. Room \in 0 .. Len(rest)
    BY <1>11, <1>2 DEF XsputnFills
  <2>2. Take(rest, Room) \in Seq(Bytes) /\ Len(Take(rest, Room)) = Room
    BY <2>1, TakeProps DEF PutTypeOK
  <2>3. Drop(rest, Room) \in Seq(Bytes)
    BY <2>1, DropProps DEF PutTypeOK
  <2>4. /\ put \o Take(rest, Room) \in Seq(Bytes)
        /\ Len(put \o Take(rest, Room)) = Len(put) + Room
        /\ accepted \o Take(rest, Room) \in Seq(Bytes)
    BY <2>2, ConcatProperties DEF PutTypeOK
  <2>5. ToSet(Drop(rest, Room)) \in SUBSET Bytes
    BY <2>3, ElementsOfSeq
  <2>6. putOn => Len(put) + Room = BufSize
    BY <1>1, <1>2
  <2>7. ~putOn => Room = 0
    BY <1>1
  <2>8. CASE putOn
    <3>1. put' # <<>>
      BY <2>8, <2>4, <2>6, <1>2, <1>4, <1>11 DEF XsputnFills, Store
    <3>2. QED
      BY <1>11, <1>1, <1>2, <1>4, <2>3, <2>4, <2>6, <2>8, <3>1
         DEF XsputnFills, Store, Continue, PutTypeOK, PutInBounds, PutControl,
             chanVars
  <2>9. CASE ~putOn
    <3>1. PutTypeOK'
      BY <1>11, <1>4, <2>4, <2>5, <2>9
         DEF XsputnFills, Store, End, PutTypeOK, chanVars
    <3>2. PutInBounds'
      BY <1>11, <1>2, <2>4, <2>7, <2>9
         DEF XsputnFills, Store, End, PutInBounds
    <3>3. PutControl'
      BY <1>11, <2>9
         DEF XsputnFills, End, PutControl, chanVars
    <3>4. QED
      BY <3>1, <3>2, <3>3
  <2>10. QED
    BY <2>8, <2>9
<1>12. CASE Sync
  <2>1. ToSet(<<>>) \in SUBSET Bytes
    BY <1>4, ElementsOfSeq
  <2>2. QED
    <3>1. handed' = handed
      BY <1>12, <1>1, <1>4 DEF Sync, Begin
    <3>2. PutTypeOK'
      <4>1. /\ ppc' \in {"idle", "select"} /\ presult' \in {"none", "ok"}
            /\ rest' = <<>> /\ wlen' = 0 /\ pop' = "sync"
            /\ refused' \in SUBSET Bytes
        BY <1>12, <2>1 DEF Sync, Begin, End, Continue, PutTypeOK
      <4>2. UNCHANGED <<areaVars, stmo, chanVars>>
        BY <1>12 DEF Sync
      <4>3. QED
        BY <1>4, <3>1, <4>1, <4>2 DEF PutTypeOK, areaVars, chanVars
    <3>3. PutInBounds'
      BY <1>12, <1>2 DEF Sync, End, Continue, PutInBounds, PutTypeOK, areaVars
    <3>4. put # <<>> => putOn
      BY <1>3
    <3>5. PutControl'
      BY <1>12, <3>4
         DEF Sync, Begin, End, Continue, PutControl, PutTypeOK, areaVars, chanVars
    <3>6. QED
      BY <3>2, <3>3, <3>5
<1>13. CASE WriteReady
  BY <1>13, <1>1, <1>2
     DEF WriteReady, PutTypeOK, PutInBounds, PutControl, areaVars, chanVars
<1>14. CASE WriteTimesOut \/ SelectFails
  <2>1. ToSet(rest) \in SUBSET Bytes
    BY ElementsOfSeq DEF PutTypeOK
  <2>2. QED
    <3>1. End("timeout", rest) \/ End("error", rest)
      BY <1>14 DEF WriteTimesOut, SelectFails
    <3>2. UNCHANGED <<areaVars, stmo, pop, handed, chanVars>>
      BY <1>14 DEF WriteTimesOut, SelectFails
    <3>3. PutTypeOK'
      <4>1. /\ ppc' = "idle" /\ presult' \in {"timeout", "error"}
            /\ rest' = <<>> /\ wlen' = 0
            /\ refused' \in SUBSET Bytes
        BY <2>1, <3>1 DEF End, PutTypeOK
      <4>2. QED
        BY <1>4, <3>2, <4>1 DEF PutTypeOK, areaVars, chanVars
    <3>4. PutInBounds'
      BY <1>2, <3>1, <3>2 DEF End, PutInBounds, areaVars
    <3>5. PutControl'
      BY <3>1, <3>2 DEF End, PutControl, areaVars, chanVars
    <3>6. QED
      BY <3>3, <3>4, <3>5
<1>15. ASSUME NEW k \in 1 .. ChanCap, WriteSome(k)
       PROVE  PutShape'
  <2>1. wlen \in Nat /\ k \in Nat /\ wlen + k <= Len(put)
    BY <1>15, <1>1, <1>2 DEF WriteSome, PutTypeOK, PutInBounds
  <2>2. Chunk(k) \in Seq(Bytes)
    BY <2>1, SliceProps DEF Chunk, PutTypeOK
  <2>3. wire \o Chunk(k) \in Seq(Bytes) /\ chan \o Chunk(k) \in Seq(Bytes)
    BY <2>2, ConcatProperties DEF PutTypeOK
  <2>4. QED
    BY <1>15, <1>1, <1>2, <2>1, <2>3
       DEF WriteSome, PutTypeOK, PutInBounds, PutControl, areaVars
<1>16. CASE WriteFails
  <2>1. ToSet(rest) \in SUBSET Bytes
    BY ElementsOfSeq DEF PutTypeOK
  <2>2. wlen \in 0 .. Len(put) /\ wlen * W = wlen
    BY <1>1, <1>2 DEF PutTypeOK, PutInBounds
  <2>3. Unwritten \in Seq(Bytes) /\ Len(Unwritten) <= Len(put)
        /\ Len(Unwritten) \in Nat
    BY <2>2, <1>2, DropProps DEF Unwritten, PutTypeOK
  <2>4. putOn
    BY <1>16 DEF WriteFails, PutControl
  <2>5. PutTypeOK'
    BY <1>16, <1>4, <2>1, <2>3 DEF WriteFails, End, PutTypeOK, chanVars
  <2>6. PutInBounds'
    BY <1>16, <1>1, <1>2, <2>3, <2>4
       DEF WriteFails, End, PutInBounds, PutTypeOK
  <2>7. PutControl'
    BY <1>16, <2>4 DEF WriteFails, End, PutControl, chanVars
  <2>8. QED
    BY <2>5, <2>6, <2>7
<1>17. CASE SyncReturns
  <2>1. ToSet(<<>>) \in SUBSET Bytes
    BY <1>4, ElementsOfSeq
  <2>2. accepted \o rest \in Seq(Bytes)
    BY ConcatProperties DEF PutTypeOK
  <2>3. putOn
    BY <1>17 DEF SyncReturns, PutControl
  <2>4. pop = "sputc" => Len(rest) = 1
    BY <1>17 DEF SyncReturns, PutControl
  <2>5. /\ put' \in Seq(Bytes) /\ Len(put') \in Nat /\ Len(put') <= 1
        /\ accepted' \in Seq(Bytes)
        /\ rest' \in Seq(Bytes)
        /\ refused' \in SUBSET Bytes
    <3>1. put' = <<>> \/ (put' = rest /\ Len(rest) = 1)
      BY <1>17, <2>4 DEF SyncReturns
    <3>2. accepted' \in Seq(Bytes)
      BY <1>17, <2>2 DEF SyncReturns, PutTypeOK
    <3>3. rest' \in Seq(Bytes)
      BY <1>17, <1>4 DEF SyncReturns, End, Continue, PutTypeOK
    <3>4. refused' \in SUBSET Bytes
      BY <1>17, <2>1 DEF SyncReturns, End, Continue, PutTypeOK
    <3>5. put' \in Seq(Bytes) /\ Len(put') \in Nat /\ Len(put') <= 1
      <4>1. CASE put' = <<>>
        BY <1>4, <4>1
      <4>2. CASE put' = rest /\ Len(rest) = 1
        BY <4>2 DEF PutTypeOK
      <4>3. QED
        BY <3>1, <4>1, <4>2
    <3>6. QED
      BY <3>2, <3>3, <3>4, <3>5
  <2>6. /\ ppc' \in {"idle", "copy"} /\ wlen' = 0
        /\ presult' \in {"none", "ok"}
    BY <1>17 DEF SyncReturns, End, Continue
  <2>7. PutTypeOK'
    BY <1>17, <2>5, <2>6 DEF SyncReturns, PutTypeOK, chanVars
  <2>8. PutInBounds'
    <3>1. putOn'
      BY <1>17, <2>3 DEF SyncReturns
    <3>2. QED
      BY <1>1, <1>2, <2>5, <2>6, <3>1 DEF PutInBounds
  <2>9. PutControl'
    BY <1>17, <2>3 DEF SyncReturns, End, Continue, PutControl, chanVars
  <2>10. QED
    BY <2>7, <2>8, <2>9
<1>18. ASSUME NEW wp \in Waits, SendTimeout(wp)
       PROVE  PutShape'
  BY <1>18, <1>1, <1>2, PutConstants
     DEF SendTimeout, PutTypeOK, PutInBounds, PutControl, areaVars, callVars,
         chanVars
<1>19. CASE ShutWrite
  <2>1. ToSet(<<>>) \in SUBSET Bytes
    BY <1>4, ElementsOfSeq
  <2>2. QED
    <3>1. putOn' \in BOOLEAN /\ fin' \in BOOLEAN /\ ~putOn'
      BY <1>19 DEF ShutWrite, PutTypeOK
    <3>2. handed' = handed
      BY <1>19, <1>1, <1>4 DEF ShutWrite, Begin
    <3>3. PutTypeOK'
      <4>1. /\ ppc' = "idle" /\ presult' \in {"ok", "error"}
            /\ rest' = <<>> /\ wlen' = 0 /\ pop' = "shutdown" /\ put' = <<>>
            /\ refused' \in SUBSET Bytes
        BY <1>19, <2>1 DEF ShutWrite, Begin, End, PutTypeOK
      <4>2. UNCHANGED <<stmo, accepted, wire, chan>>
        BY <1>19 DEF ShutWrite
      <4>3. QED
        BY <1>4, <3>1, <3>2, <4>1, <4>2 DEF PutTypeOK
    <3>4. PutInBounds'
      BY <1>19, <1>4, <3>1 DEF ShutWrite, End, PutInBounds
    <3>5. PutControl'
      BY <1>19, <3>1 DEF ShutWrite, Begin, End, PutControl
    <3>6. QED
      BY <3>3, <3>4, <3>5
<1>20. ASSUME NEW k \in 1 .. ChanCap, PeerReads(k)
       PROVE  PutShape'
  <2>1. k \in 0 .. Len(chan)
    BY <1>20, <1>2 DEF PeerReads
  <2>2. Drop(chan, k) \in Seq(Bytes)
    BY <2>1, DropProps DEF PutTypeOK
  <2>3. QED
    BY <1>20, <1>1, <1>2, <2>2
       DEF PeerReads, PutTypeOK, PutInBounds, PutControl, areaVars, callVars
<1>21. CASE UNCHANGED putVars
  BY <1>21 DEF putVars, PutTypeOK, PutInBounds, PutControl
<1>22. QED
  BY <1>6, <1>7, <1>8, <1>9, <1>10, <1>11, <1>12, <1>13, <1>14, <1>15, <1>16,
     <1>17, <1>18, <1>19, <1>20, <1>21
     DEF PutNext, PutStep, PutFault, PutCall
\* The variables the calls and the loop leave in the ranges PutTypeOK gives, in
\* every behaviour of a narrow sockbuf.
THEOREM PutTypeCorrect ==
  ASSUME W = 1
  PROVE  PutSpec => []PutTypeOK
<1>1. PutInit => PutShape
  BY ShapeInit
<1>2. PutShape /\ [PutNext]_putVars => PutShape'
  BY ShapeStep
<1>3. PutShape => PutTypeOK
  BY DEF PutShape
<1>4. QED
  BY <1>1, <1>2, <1>3, PTL DEF PutSpec

\* Whatever the sizes, no call stores beyond epptr() and write never sends
\* bytes beyond pptr().
THEOREM PutBounds ==
  ASSUME W = 1
  PROVE  PutSpec => []PutInBounds
<1>1. PutInit => PutShape
  BY ShapeInit
<1>2. PutShape /\ [PutNext]_putVars => PutShape'
  BY ShapeStep
<1>3. PutShape => PutInBounds
  BY DEF PutShape
<1>4. QED
  BY <1>1, <1>2, <1>3, PTL DEF PutSpec

-----------------------------------------------------------------------------
(* Integrity of the stream.                                                *)

\* Storing while no write is under way extends both sides of the equation.
LEMMA StoreKeepsIntegrity ==
  ASSUME PutTypeOK, StreamIntegrity, ppc # "write", ppc' # "write",
         NEW b \in Seq(Bytes), Store(b), UNCHANGED <<putOn, wire>>,
         ~putOn => b = <<>>
  PROVE  StreamIntegrity'
<1>1. put' = put \o b /\ accepted' = accepted \o b
  BY DEF Store
<1>2. CASE putOn
  <2>1. wire \o put = accepted
    BY <1>2 DEF StreamIntegrity, Unsent
  <2>2. wire \o (put \o b) = (wire \o put) \o b
    <3>1. wire \in Seq(Bytes) /\ put \in Seq(Bytes)
      BY DEF PutTypeOK
    <3>2. QED
      BY <3>1, ConcatAssociative
  <2>3. wire' \o put' = accepted'
    BY <1>1, <2>1, <2>2
  <2>4. QED
    BY <1>2, <2>3 DEF StreamIntegrity, Unsent
<1>3. CASE ~putOn
  <2>1. accepted' = accepted
    BY <1>1, <1>3, ConcatEmptySeq DEF PutTypeOK
  <2>2. QED
    BY <1>3, <2>1 DEF StreamIntegrity
<1>4. QED
  BY <1>2, <1>3

LEMMA IntegrityStep ==
  ASSUME W = 1, PutShape, StreamIntegrity, [PutNext]_putVars
  PROVE  StreamIntegrity'
<1>. USE DEF PutShape
<1>1. /\ Room = IF putOn THEN BufSize - Len(put) ELSE 0
      /\ WriteLen = Len(put)
      /\ \A n \in Nat : n * W = n
  BY NarrowLengths
<1>2. /\ Len(put) \in Nat /\ Len(rest) \in Nat
      /\ BufSize \in Nat
      /\ Len(put) <= (IF putOn THEN BufSize ELSE 0)
      /\ Room \in Nat
  BY <1>1, LenProperties, PutConstants DEF PutTypeOK, PutInBounds
<1>3. ASSUME ppc # "write", ppc' # "write",
             UNCHANGED <<putOn, put, accepted, wire>>
      PROVE  StreamIntegrity'
  BY <1>3 DEF StreamIntegrity, Unsent
<1>4. ASSUME UNCHANGED <<putOn, put, accepted, wire, ppc, wlen>>
      PROVE  StreamIntegrity'
  BY <1>4 DEF StreamIntegrity, Unsent
<1>5. CASE SputcStores
  <2>1. putOn
    BY <1>5, <1>1 DEF SputcStores
  <2>2. Fresh(1) \in Seq(Bytes)
    BY FreshProps DEF PutTypeOK
  <2>3. /\ ppc # "write" /\ ppc' # "write" /\ Store(Fresh(1))
        /\ UNCHANGED <<putOn, wire>>
    BY <1>5 DEF SputcStores, Begin, End, chanVars
  <2>4. QED
    BY <2>1, <2>2, <2>3, StoreKeepsIntegrity
<1>6. CASE OverflowSyncs \/ OverflowDisabled
  BY <1>3, <1>6
     DEF OverflowSyncs, OverflowDisabled, Begin, Continue, End, areaVars, chanVars
<1>7. ASSUME NEW n \in 1 .. MaxPut, Sputn(n)
      PROVE  StreamIntegrity'
  BY <1>3, <1>7 DEF Sputn, Begin, Continue, areaVars, chanVars
<1>8. CASE XsputnFits
  <2>1. ~putOn => rest = <<>>
    BY <1>8, <1>1, <1>2, EmptySeq DEF XsputnFits, PutTypeOK
  <2>2. /\ ppc # "write" /\ ppc' # "write" /\ Store(rest)
        /\ UNCHANGED <<putOn, wire>>
    BY <1>8 DEF XsputnFits, End, chanVars
  <2>3. QED
    BY <2>1, <2>2, StoreKeepsIntegrity DEF PutTypeOK
<1>9. CASE XsputnFills
  <2>1. Room \in 0 .. Len(rest)
    BY <1>9, <1>2 DEF XsputnFills
  <2>2. Take(rest, Room) \in Seq(Bytes) /\ Len(Take(rest, Room)) = Room
    BY <2>1, TakeProps DEF PutTypeOK
  <2>3. ~putOn => Take(rest, Room) = <<>>
    BY <2>2, <1>1, EmptySeq
  <2>4. /\ ppc # "write" /\ ppc' # "write" /\ Store(Take(rest, Room))
        /\ UNCHANGED <<putOn, wire>>
    BY <1>9 DEF XsputnFills, Continue, End, chanVars
  <2>5. QED
    BY <2>2, <2>3, <2>4, StoreKeepsIntegrity
<1>10. CASE Sync
  BY <1>3, <1>10 DEF Sync, Begin, Continue, End, areaVars, chanVars
<1>11. CASE WriteReady
  <2>1. wlen' = 0 /\ put' = put /\ Unsent = put /\ ppc' = "write"
    BY <1>11 DEF WriteReady, PutControl, Unsent, areaVars
  <2>2. Unsent' = put
    BY <2>1, DropNothing DEF Unsent, PutTypeOK
  <2>3. QED
    BY <1>11, <2>1, <2>2 DEF WriteReady, StreamIntegrity, areaVars, chanVars
<1>12. CASE WriteTimesOut \/ SelectFails
  BY <1>3, <1>12 DEF WriteTimesOut, SelectFails, End, areaVars, chanVars
<1>13. ASSUME NEW k \in 1 .. ChanCap, WriteSome(k)
       PROVE  StreamIntegrity'
  <2>1. putOn /\ putOn' = putOn /\ ppc = "write" /\ ppc' = "write"
    BY <1>13 DEF WriteSome, PutControl, areaVars
  <2>2. wlen \in Nat /\ k \in Nat /\ wlen + k <= Len(put)
    BY <1>13, <1>1, <1>2, PutConstants DEF WriteSome, PutTypeOK, PutInBounds
  <2>3. Chunk(k) \in Seq(Bytes) /\ Chunk(k) \o Drop(put, wlen + k) = Drop(put, wlen)
    BY <2>2, SliceProps DEF Chunk, PutTypeOK
  <2>4. Drop(put, wlen + k) \in Seq(Bytes)
    BY <1>2, <2>2, DropProps DEF PutTypeOK
  <2>5. (wire \o Chunk(k)) \o Drop(put, wlen + k) = wire \o Drop(put, wlen)
    <3>1. wire \in Seq(Bytes)
      BY DEF PutTypeOK
    <3>2. QED
      <4>1. (wire \o Chunk(k)) \o Drop(put, wlen + k)
              = wire \o (Chunk(k) \o Drop(put, wlen + k))
        BY <2>3, <2>4, <3>1, ConcatAssociative
      <4>2. QED
        BY <2>3, <4>1, Zenon
  <2>6. wire \o Drop(put, wlen) = accepted
    BY <2>1 DEF StreamIntegrity, Unsent
  <2>7. wire' = wire \o Chunk(k) /\ put' = put /\ wlen' = wlen + k
        /\ accepted' = accepted
    BY <1>13 DEF WriteSome, areaVars
  <2>8. QED
    BY <2>1, <2>5, <2>6, <2>7 DEF StreamIntegrity, Unsent
<1>14. CASE WriteFails
  <2>1. putOn /\ putOn' = putOn /\ ppc = "write" /\ ppc' # "write"
    BY <1>14 DEF WriteFails, End, PutControl
  <2>2. wlen \in Nat /\ wlen * W = wlen
    BY <1>1 DEF PutTypeOK
  <2>3. put' = Drop(put, wlen)
    BY <1>14, <2>2, DropNothing DEF WriteFails, Unwritten, PutTypeOK
  <2>4. QED
    BY <1>14, <2>1, <2>3 DEF WriteFails, StreamIntegrity, Unsent, chanVars
<1>15. CASE SyncReturns
  <2>1. putOn /\ putOn' = putOn /\ ppc = "write" /\ ppc' # "write" /\ wire' = wire
    BY <1>15 DEF SyncReturns, End, Continue, PutControl, chanVars
  <2>2. wire \o <<>> = accepted
    BY <1>15, <1>1, <2>1, DropEverything
       DEF SyncReturns, StreamIntegrity, Unsent, PutTypeOK
  <2>3. wire = accepted
    BY <2>2, ConcatEmptySeq DEF PutTypeOK
  <2>4. \/ put' = <<>> /\ accepted' = accepted
        \/ put' = rest /\ accepted' = accepted \o rest
    BY <1>15 DEF SyncReturns
  <2>5. wire' \o put' = accepted'
    BY <2>1, <2>2, <2>3, <2>4
  <2>6. QED
    BY <2>1, <2>5 DEF StreamIntegrity, Unsent
<1>16. ASSUME NEW wp \in Waits, SendTimeout(wp)
       PROVE  StreamIntegrity'
  BY <1>4, <1>16 DEF SendTimeout, areaVars, callVars, chanVars
<1>17. CASE ShutWrite
  <2>1. ppc # "write" /\ ~putOn' /\ wire' = wire /\ accepted' = accepted
    BY <1>17 DEF ShutWrite, Begin
  <2>2. IsPrefix(wire, accepted)
    <3>1. CASE putOn
      BY <2>1, <3>1, ConcatHasPrefix DEF StreamIntegrity, Unsent, PutTypeOK
    <3>2. CASE ~putOn
      BY <3>2 DEF StreamIntegrity
    <3>3. QED
      BY <3>1, <3>2
  <2>3. QED
    BY <2>1, <2>2 DEF StreamIntegrity
<1>18. ASSUME NEW k \in 1 .. ChanCap, PeerReads(k)
       PROVE  StreamIntegrity'
  BY <1>4, <1>18 DEF PeerReads, areaVars, callVars
<1>19. CASE UNCHANGED putVars
  BY <1>4, <1>19 DEF putVars
<1>20. QED
  BY <1>5, <1>6, <1>7, <1>8, <1>9, <1>10, <1>11, <1>12, <1>13, <1>14, <1>15,
     <1>16, <1>17, <1>18, <1>19
     DEF PutNext, PutStep, PutFault, PutCall

\* Over partial writes, failed writes, timeouts and retries the kernel has
\* taken exactly a prefix of what the callers stored and the put area holds
\* the rest, whatever the size of the area and the number of bytes.
THEOREM PutIntegrity ==
  ASSUME W = 1
  PROVE  PutSpec => []StreamIntegrity
<1>1. PutInit => PutShape /\ StreamIntegrity
  <2>1. PutInit => StreamIntegrity
    BY EmptySeq, ConcatEmptySeq DEF PutInit, StreamIntegrity, Unsent
  <2>2. QED
    BY <2>1, ShapeInit
<1>2. PutShape /\ StreamIntegrity /\ [PutNext]_putVars
        => PutShape' /\ StreamIntegrity'
  BY ShapeStep, IntegrityStep
<1>3. QED
  BY <1>1, <1>2, PTL DEF PutSpec

\* A sync that returns 0 leaves nothing of the stream outside the kernel.
THEOREM PutSyncFlushes ==
  ASSUME W = 1
  PROVE  PutSpec => []SyncFlushes
<1>1. PutShape /\ StreamIntegrity => SyncFlushes
  <2>. SUFFICES ASSUME PutShape, StreamIntegrity,
                       pop = "sync", presult = "ok", putOn
                PROVE  wire = accepted
    BY DEF SyncFlushes
  <2>1. put = <<>> /\ ppc # "write"
    BY DEF PutShape, PutControl
  <2>2. wire \o <<>> = accepted
    BY <2>1 DEF StreamIntegrity, Unsent
  <2>3. QED
    BY <2>2, ConcatEmptySeq DEF PutShape, PutTypeOK
<1>2. PutInit => PutShape
  BY ShapeInit
<1>3. PutShape /\ [PutNext]_putVars => PutShape'
  BY ShapeStep
<1>4. PutSpec => []StreamIntegrity
  BY PutIntegrity
<1>5. QED
  BY <1>1, <1>2, <1>3, <1>4, PTL DEF PutSpec

\* Once ::shutdown has closed the sending direction nothing is written again.
THEOREM PutSilent ==
  ASSUME W = 1
  PROVE  PutSpec => SilentAfterShutdown
<1>1. PutShape /\ [PutNext]_putVars => [fin => wire' = wire]_putVars
  <2>. SUFFICES ASSUME PutShape, PutNext, fin
                PROVE  wire' = wire
    OBVIOUS
  <2>1. ppc # "write"
    BY DEF PutShape, PutControl
  <2>2. QED
    BY <2>1 DEF PutNext, PutStep, PutFault, PutCall, SputcStores, OverflowSyncs,
       OverflowDisabled, Sputn, XsputnFits, XsputnFills, Sync, WriteReady,
       WriteTimesOut, SelectFails, WriteSome, WriteFails, SyncReturns,
       SendTimeout, ShutWrite, PeerReads, chanVars
<1>2. PutInit => PutShape
  BY ShapeInit
<1>3. PutShape /\ [PutNext]_putVars => PutShape'
  BY ShapeStep
<1>4. QED
  BY <1>1, <1>2, <1>3, PTL DEF PutSpec, SilentAfterShutdown

-----------------------------------------------------------------------------
(* Every byte handed over is stored, refused or still to be copied.        *)

\* With h bytes handed over, q holds the last of them; the ones before q are
\* in a, in order, or in f.  It is stronger than EveryByteAccounted: rest is
\* always the end of what was handed over, so what is stored next comes last.
Account(h, a, f, q) ==
  /\ \A i \in 1 .. Len(q) : q[i] = h - Len(q) + i
  /\ Len(q) <= h
  /\ \A i \in 1 .. Len(a) : a[i] >= 1 /\ a[i] <= h - Len(q) /\ a[i] \notin f
  /\ \A x \in f : x \in Nat /\ x >= 1 /\ x <= h - Len(q)
  /\ \A x \in 1 .. h - Len(q) : x \in f \/ \E i \in 1 .. Len(a) : a[i] = x
  /\ \A i, j \in 1 .. Len(a) : i < j => a[i] < a[j]

LEMMA AccountStart ==
  ASSUME NEW h \in Nat, NEW a \in Seq(Nat), NEW f, NEW q \in Seq(Nat),
         Account(h, a, f, <<>>), \A i \in 1 .. Len(q) : q[i] = h + i
  PROVE  Account(h + Len(q), a, f, q)
<1>1. Len(q) \in Nat /\ Len(<<>>) = 0 /\ (h + Len(q)) - Len(q) = h /\ h - 0 = h
  BY LenProperties
<1>2. QED
  BY <1>1 DEF Account

LEMMA AccountStore ==
  ASSUME NEW h \in Nat, NEW a \in Seq(Nat), NEW f, NEW q \in Seq(Nat),
         NEW n \in 0 .. Len(q), Account(h, a, f, q)
  PROVE  Account(h, a \o Take(q, n), f, Drop(q, n))
<1>1. Len(q) \in Nat /\ Len(a) \in Nat /\ n \in Nat /\ n <= Len(q)
  BY LenProperties
<1>2. PICK b : b = a \o Take(q, n)
  OBVIOUS
<1>3. PICK r : r = Drop(q, n)
  OBVIOUS
<1>4. PICK t \in Seq(Nat) : /\ b = a \o t /\ Len(t) = n
                           /\ \A i \in 1 .. n : t[i] = q[i]
  BY <1>2, TakeProps
<1>5. Len(r) = Len(q) - n /\ \A i \in 1 .. Len(q) - n : r[i] = q[n + i]
  BY <1>3, DropProps
<1>6. Len(b) = Len(a) + n
      /\ \A i \in 1 .. Len(a) + n :
           b[i] = IF i <= Len(a) THEN a[i] ELSE q[i - Len(a)]
  <2>1. /\ Len(b) = Len(a) + n
        /\ \A i \in 1 .. Len(a) + n :
             b[i] = IF i <= Len(a) THEN a[i] ELSE t[i - Len(a)]
    BY <1>1, <1>4, ConcatProperties
  <2>2. QED
    BY <1>1, <1>4, <2>1
<1>7. /\ \A i \in 1 .. Len(q) : q[i] = h - Len(q) + i
      /\ Len(q) <= h
      /\ \A i \in 1 .. Len(a) : a[i] >= 1 /\ a[i] <= h - Len(q) /\ a[i] \notin f
      /\ \A x \in f : x \in Nat /\ x >= 1 /\ x <= h - Len(q)
      /\ \A x \in 1 .. h - Len(q) : x \in f \/ \E i \in 1 .. Len(a) : a[i] = x
      /\ \A i, j \in 1 .. Len(a) : i < j => a[i] < a[j]
  BY DEF Account
<1>8. \A i \in 1 .. Len(a) : a[i] \in Nat
  BY ElementOfSeq
<1>9. Len(r) \in Nat /\ h - Len(r) = h - Len(q) + n /\ Len(r) <= h
  BY <1>1, <1>5, <1>7
<1>10. \A i \in 1 .. Len(r) : r[i] = h - Len(r) + i
  BY <1>1, <1>5, <1>7, <1>9
<1>11. \A i \in 1 .. Len(b) : b[i] >= 1 /\ b[i] <= h - Len(r) /\ b[i] \notin f
  <2>. TAKE i \in 1 .. Len(b)
  <2>1. CASE i <= Len(a)
    <3>1. b[i] = a[i] /\ i \in 1 .. Len(a)
      BY <1>1, <1>6, <2>1
    <3>2. QED
      BY <1>1, <1>7, <1>8, <1>9, <3>1
  <2>2. CASE ~(i <= Len(a))
    <3>1. i - Len(a) \in 1 .. n /\ b[i] = q[i - Len(a)]
      BY <1>1, <1>6, <2>2
    <3>2. b[i] = h - Len(q) + (i - Len(a))
      BY <1>1, <1>7, <3>1
    <3>3. b[i] \in Nat /\ b[i] > h - Len(q) /\ b[i] <= h - Len(r) /\ b[i] >= 1
      BY <1>1, <1>7, <1>9, <3>1, <3>2
    <3>4. QED
      BY <1>1, <1>7, <3>3
  <2>3. QED
    BY <2>1, <2>2
<1>12. \A x \in f : x \in Nat /\ x >= 1 /\ x <= h - Len(r)
  BY <1>1, <1>7, <1>9
<1>13. \A x \in 1 .. h - Len(r) : x \in f \/ \E i \in 1 .. Len(b) : b[i] = x
  <2>. TAKE x \in 1 .. h - Len(r)
  <2>1. CASE x <= h - Len(q)
    <3>1. CASE x \in f
      BY <3>1
    <3>2. CASE x \notin f
      <4>1. x \in 1 .. h - Len(q)
        BY <1>1, <1>7, <1>9, <2>1
      <4>2. PICK i \in 1 .. Len(a) : a[i] = x
        BY <1>7, <3>2, <4>1
      <4>3. i \in 1 .. Len(b) /\ b[i] = x
        BY <1>1, <1>6, <4>2
      <4>4. QED
        BY <4>3
    <3>3. QED
      BY <3>1, <3>2
  <2>2. CASE x > h - Len(q)
    <3>1. x - (h - Len(q)) \in 1 .. n
      BY <1>1, <1>7, <1>9, <2>2
    <3>2. PICK j \in 1 .. n : j = x - (h - Len(q))
      BY <3>1
    <3>3. j \in Nat /\ x \in Nat /\ j \in 1 .. Len(q)
      BY <1>1, <1>9, <3>2
    <3>4. q[j] = h - Len(q) + j
      BY <1>7, <3>3
    <3>5. q[j] = x
      BY <1>1, <3>2, <3>3, <3>4
    <3>6. PICK k \in Nat : k = Len(a) + j
      BY <1>1, <3>3
    <3>7. k \in 1 .. Len(b) /\ k \in 1 .. Len(a) + n
          /\ ~(k <= Len(a)) /\ k - Len(a) = j
      BY <1>1, <1>6, <3>2, <3>3, <3>6
    <3>8. b[k] = q[j]
      BY <1>6, <3>7
    <3>9. QED
      BY <3>5, <3>7, <3>8
  <2>3. QED
    BY <1>1, <1>7, <1>9, <2>1, <2>2
<1>14. \A i, j \in 1 .. Len(b) : i < j => b[i] < b[j]
  <2>. SUFFICES ASSUME NEW i \in 1 .. Len(b), NEW j \in 1 .. Len(b), i < j
                PROVE  b[i] < b[j]
    OBVIOUS
  <2>1. CASE j <= Len(a)
    <3>1. b[i] = a[i] /\ b[j] = a[j] /\ i \in 1 .. Len(a) /\ j \in 1 .. Len(a)
      BY <1>1, <1>6, <2>1
    <3>2. QED
      BY <1>7, <3>1
  <2>2. CASE i <= Len(a) /\ ~(j <= Len(a))
    <3>1. b[i] = a[i] /\ i \in 1 .. Len(a) /\ a[i] \in Nat
      BY <1>1, <1>6, <1>8, <2>2
    <3>2. j - Len(a) \in 1 .. n /\ b[j] = q[j - Len(a)]
      BY <1>1, <1>6, <2>2
    <3>3. b[j] = h - Len(q) + (j - Len(a))
      BY <1>1, <1>7, <3>2
    <3>4. QED
      BY <1>1, <1>7, <3>1, <3>2, <3>3
  <2>3. CASE ~(i <= Len(a))
    <3>0. ~(j <= Len(a))
      BY <1>1, <1>6, <2>3
    <3>1. /\ i - Len(a) \in 1 .. n /\ b[i] = q[i - Len(a)]
          /\ j - Len(a) \in 1 .. n /\ b[j] = q[j - Len(a)]
      <4>1. i - Len(a) \in 1 .. n /\ b[i] = q[i - Len(a)]
        BY <1>1, <1>6, <2>3
      <4>2. j - Len(a) \in 1 .. n /\ b[j] = q[j - Len(a)]
        BY <1>1, <1>6, <3>0
      <4>3. QED
        BY <4>1, <4>2
    <3>2. /\ b[i] = h - Len(q) + (i - Len(a))
          /\ b[j] = h - Len(q) + (j - Len(a))
      BY <1>1, <1>7, <3>1
    <3>3. QED
      BY <1>1, <1>7, <3>2
  <2>4. QED
    BY <2>1, <2>2, <2>3
<1>15. Account(h, b, f, r)
  BY <1>9, <1>10, <1>11, <1>12, <1>13, <1>14 DEF Account
<1>16. QED
  BY <1>2, <1>3, <1>15

LEMMA AccountStoreAll ==
  ASSUME NEW h \in Nat, NEW a \in Seq(Nat), NEW f, NEW q \in Seq(Nat),
         Account(h, a, f, q)
  PROVE  Account(h, a \o q, f, <<>>)
<1>1. Len(q) \in 0 .. Len(q)
  BY LenProperties
<1>2. Account(h, a \o Take(q, Len(q)), f, Drop(q, Len(q)))
  BY <1>1, AccountStore
<1>3. Take(q, Len(q)) = q /\ Drop(q, Len(q)) = <<>>
  BY SubSeqFull, DropEverything DEF Take
<1>4. QED
  BY <1>2, <1>3

LEMMA AccountRefuse ==
  ASSUME NEW h \in Nat, NEW a \in Seq(Nat), NEW f, NEW q \in Seq(Nat),
         Account(h, a, f, q)
  PROVE  Account(h, a, f \cup ToSet(q), <<>>)
<1>1. Len(q) \in Nat /\ Len(a) \in Nat /\ Len(<<>>) = 0 /\ h - 0 = h
  BY LenProperties
<1>2. PICK g : g = f \cup ToSet(q)
  OBVIOUS
<1>3. \A x : x \in g <=> x \in f \/ \E i \in 1 .. Len(q) : x = q[i]
  BY <1>2, LenProperties DEF ToSet
<1>4. /\ \A i \in 1 .. Len(q) : q[i] = h - Len(q) + i
      /\ Len(q) <= h
      /\ \A i \in 1 .. Len(a) : a[i] >= 1 /\ a[i] <= h - Len(q) /\ a[i] \notin f
      /\ \A x \in f : x \in Nat /\ x >= 1 /\ x <= h - Len(q)
      /\ \A x \in 1 .. h - Len(q) : x \in f \/ \E i \in 1 .. Len(a) : a[i] = x
      /\ \A i, j \in 1 .. Len(a) : i < j => a[i] < a[j]
  BY DEF Account
<1>5. \A i \in 1 .. Len(a) : a[i] \in Nat
  BY ElementOfSeq
<1>6. \A i \in 1 .. Len(a) : a[i] >= 1 /\ a[i] <= h /\ a[i] \notin g
  <2>. TAKE i \in 1 .. Len(a)
  <2>1. a[i] \in Nat /\ a[i] >= 1 /\ a[i] <= h - Len(q) /\ a[i] \notin f
    BY <1>4, <1>5
  <2>2. ASSUME NEW k \in 1 .. Len(q), a[i] = q[k]
        PROVE  FALSE
    <3>1. q[k] = h - Len(q) + k
      BY <1>4
    <3>2. QED
      BY <1>1, <2>1, <2>2, <3>1
  <2>3. QED
    BY <1>1, <1>3, <2>1, <2>2
<1>7. \A x \in g : x \in Nat /\ x >= 1 /\ x <= h
  <2>. TAKE x \in g
  <2>1. CASE x \in f
    BY <1>1, <1>4, <2>1
  <2>2. CASE x \notin f
    <3>1. PICK i \in 1 .. Len(q) : x = q[i]
      BY <1>3, <2>2
    <3>2. x = h - Len(q) + i
      BY <1>4, <3>1
    <3>3. QED
      BY <1>1, <1>4, <3>2
  <2>3. QED
    BY <2>1, <2>2
<1>8. \A x \in 1 .. h : x \in g \/ \E i \in 1 .. Len(a) : a[i] = x
  <2>. TAKE x \in 1 .. h
  <2>1. CASE x <= h - Len(q)
    <3>1. x \in 1 .. h - Len(q)
      BY <1>1, <1>4, <2>1
    <3>2. QED
      BY <1>3, <1>4, <3>1
  <2>2. CASE x > h - Len(q)
    <3>1. x - (h - Len(q)) \in 1 .. Len(q)
      BY <1>1, <1>4, <2>2
    <3>2. PICK j \in 1 .. Len(q) : j = x - (h - Len(q))
      BY <3>1
    <3>3. q[j] = h - Len(q) + j
      BY <1>4, <3>2
    <3>4. q[j] = x
      BY <1>1, <3>2, <3>3
    <3>5. QED
      BY <1>3, <3>4
  <2>3. QED
    BY <1>1, <2>1, <2>2
<1>9. Account(h, a, g, <<>>)
  BY <1>1, <1>4, <1>6, <1>7, <1>8 DEF Account
<1>10. QED
  BY <1>2, <1>9

LEMMA AccountGives ==
  ASSUME NEW h \in Nat, NEW a \in Seq(Nat), NEW f, NEW q \in Seq(Nat),
         Account(h, a, f, q)
  PROVE  /\ 1 .. h = ToSet(a) \cup f \cup ToSet(q)
         /\ \A i, j \in DOMAIN a : i < j => a[i] < a[j]
         /\ ToSet(a) \cap (f \cup ToSet(q)) = {}
<1>1. Len(q) \in Nat /\ Len(a) \in Nat
      /\ DOMAIN a = 1 .. Len(a) /\ DOMAIN q = 1 .. Len(q)
  BY LenProperties
<1>2. Len(q) <= h
  BY DEF Account
<1>3. \A x : x \in ToSet(a) => x \in Nat
  BY ElementOfSeq, <1>1 DEF ToSet
<1>4. \A x : x \in ToSet(a) => x >= 1 /\ x <= h - Len(q) /\ x \notin f
  BY <1>1 DEF ToSet, Account
<1>5. \A x : x \in ToSet(q) <=> x \in Nat /\ x > h - Len(q) /\ x <= h
  <2>1. \A x : x \in ToSet(q) <=> \E i \in 1 .. Len(q) : x = q[i]
    BY <1>1 DEF ToSet
  <2>2. \A i \in 1 .. Len(q) : q[i] = h - Len(q) + i
    BY DEF Account
  <2>3. \A x \in Nat : x > h - Len(q) /\ x <= h => x - (h - Len(q)) \in 1 .. Len(q)
    BY <1>1, <1>2
  <2>4. \A x \in Nat : x > h - Len(q) /\ x <= h =>
           x = q[x - (h - Len(q))]
    BY <1>1, <1>2, <2>2, <2>3
  <2>5. ASSUME NEW x, NEW i \in 1 .. Len(q), x = q[i]
        PROVE  x \in Nat /\ x > h - Len(q) /\ x <= h
    BY <1>1, <1>2, <2>2, <2>5
  <2>6. QED
    BY <2>1, <2>3, <2>4, <2>5
<1>6. \A x \in f : x \in Nat /\ x >= 1 /\ x <= h - Len(q)
  BY DEF Account
<1>7. \A x \in 1 .. h - Len(q) : x \in f \/ x \in ToSet(a)
  BY <1>1 DEF Account, ToSet
<1>8. \A x : x \in 1 .. h <=> x \in ToSet(a) \/ x \in f \/ x \in ToSet(q)
  <2>1. ASSUME NEW x \in 1 .. h
        PROVE  x \in ToSet(a) \/ x \in f \/ x \in ToSet(q)
    <3>1. CASE x <= h - Len(q)
      <4>1. x \in 1 .. h - Len(q)
        BY <1>1, <1>2, <3>1
      <4>2. QED
        BY <1>7, <4>1
    <3>2. CASE x > h - Len(q)
      <4>1. x \in Nat /\ x <= h
        OBVIOUS
      <4>2. QED
        BY <1>5, <3>2, <4>1
    <3>3. QED
      BY <1>1, <3>1, <3>2
  <2>2. ASSUME NEW x, x \in ToSet(a) \/ x \in f \/ x \in ToSet(q)
        PROVE  x \in 1 .. h
    BY <1>1, <1>2, <1>3, <1>4, <1>5, <1>6, <2>2
  <2>3. QED
    BY <2>1, <2>2
<1>9. 1 .. h = ToSet(a) \cup f \cup ToSet(q)
  BY <1>8
<1>10. \A x : x \in ToSet(a) => x \notin f /\ x \notin ToSet(q)
  <2>. SUFFICES ASSUME NEW x, x \in ToSet(a), x \in ToSet(q)
                PROVE  FALSE
    BY <1>4
  <2>1. x \in Nat /\ x <= h - Len(q) /\ x > h - Len(q)
    BY <1>3, <1>4, <1>5
  <2>2. QED
    BY <1>1, <2>1
<1>11. ToSet(a) \cap (f \cup ToSet(q)) = {}
  BY <1>10
<1>12. QED
  BY <1>1, <1>9, <1>11 DEF Account

ByteLedger ==
  /\ Account(handed, accepted, refused, rest)
  /\ ppc = "idle" => rest = <<>>
  /\ pop = "sync" => rest = <<>>

\* The steps of a call, as changes of the account.
LEMMA LedgerStep ==
  ASSUME W = 1, PutShape, ByteLedger, [PutNext]_putVars
  PROVE  ByteLedger'
<1>1. /\ handed \in Nat /\ accepted \in Seq(Nat) /\ rest \in Seq(Nat)
      /\ \A n \in Nat : n * W = n
  <2>1. \A q : q \in Seq(Bytes) => q \in Seq(Nat)
    BY DEF Bytes
  <2>2. QED
    BY <2>1, NarrowLengths DEF PutShape, PutTypeOK
<1>2. Account(handed, accepted, refused, rest)
  BY DEF ByteLedger
<1>3. /\ <<>> \in Seq(Nat) /\ ToSet(<<>>) = {} /\ Len(<<>>) = 0
      /\ refused \cup {} = refused
  BY EmptySeq DEF ToSet
<1>4. \A n \in Nat : /\ Fresh(n) \in Seq(Nat) /\ Len(Fresh(n)) = n
                     /\ \A i \in 1 .. n : Fresh(n)[i] = handed + i
  <2>1. \A q : q \in Seq(Bytes) => q \in Seq(Nat)
    BY DEF Bytes
  <2>2. QED
    BY <1>1, <2>1, FreshProps
\* A call that starts with n fresh bytes has rest = <<>> before it.
<1>5. ASSUME ppc = "idle", NEW n \in Nat
      PROVE  Account(handed + n, accepted, refused, Fresh(n))
  <2>1. rest = <<>>
    BY <1>5 DEF ByteLedger
  <2>2. PICK q \in Seq(Nat) : /\ q = Fresh(n) /\ Len(q) = n
                              /\ \A i \in 1 .. n : q[i] = handed + i
    BY <1>4
  <2>3. Account(handed + Len(q), accepted, refused, q)
    BY <1>1, <1>2, <2>1, <2>2, AccountStart
  <2>4. QED
    BY <2>2, <2>3
<1>6. ASSUME UNCHANGED <<handed, accepted, refused, rest>>,
             ppc # "idle" \/ ppc' = ppc,
             pop' = pop, ppc' # "idle" \/ ppc = "idle"
      PROVE  ByteLedger'
  BY <1>6 DEF ByteLedger
<1>7. CASE SputcStores
  <2>1. Account(handed + 1, accepted, refused, Fresh(1))
    BY <1>5, <1>7 DEF SputcStores, Begin
  <2>2. PICK q \in Seq(Nat) : q = Fresh(1) /\ Len(q) = 1
    BY <1>4
  <2>3. Take(q, 1) = q /\ Drop(q, 1) = <<>>
    BY <2>2, SubSeqFull, DropEverything DEF Take
  <2>4. Account(handed + 1, accepted \o q, refused, <<>>)
    <3>1. Account(handed + 1, accepted \o Take(q, 1), refused, Drop(q, 1))
      <4>1. handed + 1 \in Nat
        BY <1>1
      <4>2. 1 \in 0 .. Len(q)
        BY <2>2
      <4>3. QED
        BY <1>1, <2>1, <2>2, <4>1, <4>2, AccountStore
    <3>2. QED
      BY <2>3, <3>1
  <2>5. /\ handed' = handed + 1 /\ accepted' = accepted \o q
        /\ refused' = refused /\ rest' = <<>>
    BY <1>1, <1>3, <1>7, <2>2 DEF SputcStores, Begin, Store, End
  <2>6. QED
    BY <2>4, <2>5 DEF ByteLedger
<1>8. CASE OverflowSyncs
  <2>1. Account(handed + 1, accepted, refused, Fresh(1))
    BY <1>5, <1>8 DEF OverflowSyncs, Begin
  <2>2. /\ handed' = handed + 1 /\ accepted' = accepted
        /\ refused' = refused /\ rest' = Fresh(1)
        /\ ppc' = "select" /\ pop' = "sputc"
    BY <1>1, <1>8 DEF OverflowSyncs, Begin, Continue, areaVars
  <2>3. QED
    BY <2>1, <2>2 DEF ByteLedger
<1>9. CASE OverflowDisabled
  <2>1. Account(handed + 1, accepted, refused, Fresh(1))
    BY <1>5, <1>9 DEF OverflowDisabled, Begin
  <2>2. Account(handed + 1, accepted, refused \cup ToSet(Fresh(1)), <<>>)
    <3>1. handed + 1 \in Nat /\ Fresh(1) \in Seq(Nat)
      BY <1>1, <1>4
    <3>2. QED
      BY <1>1, <2>1, <3>1, AccountRefuse
  <2>3. /\ handed' = handed + 1 /\ accepted' = accepted
        /\ refused' = refused \cup ToSet(Fresh(1)) /\ rest' = <<>>
    BY <1>1, <1>9 DEF OverflowDisabled, Begin, End, areaVars
  <2>4. QED
    BY <2>2, <2>3 DEF ByteLedger
<1>10. ASSUME NEW n \in 1 .. MaxPut, Sputn(n)
       PROVE  ByteLedger'
  <2>1. n \in Nat
    BY PutConstants
  <2>2. Account(handed + n, accepted, refused, Fresh(n))
    BY <1>5, <1>10, <2>1 DEF Sputn, Begin
  <2>3. /\ handed' = handed + n /\ accepted' = accepted
        /\ refused' = refused /\ rest' = Fresh(n)
        /\ ppc' = "copy" /\ pop' = "sputn"
    BY <1>1, <1>10, <2>1 DEF Sputn, Begin, Continue, areaVars
  <2>4. QED
    BY <2>2, <2>3 DEF ByteLedger
<1>11. CASE XsputnFits
  <2>1. Account(handed, accepted \o rest, refused, <<>>)
    BY <1>1, <1>2, AccountStoreAll
  <2>2. /\ handed' = handed /\ accepted' = accepted \o rest
        /\ refused' = refused /\ rest' = <<>>
    BY <1>3, <1>11 DEF XsputnFits, Store, End
  <2>3. QED
    BY <2>1, <2>2 DEF ByteLedger
<1>12. CASE XsputnFills
  <2>1. Room \in 0 .. Len(rest)
    <3>1. Len(put) \in Nat /\ Len(rest) \in Nat /\ BufSize \in Nat
      BY LenProperties, PutConstants DEF PutShape, PutTypeOK
    <3>2. Room \in Nat
      BY <3>1, NarrowLengths DEF PutShape, PutInBounds
    <3>3. QED
      BY <1>12, <3>1, <3>2 DEF XsputnFills
  <2>2. Account(handed, accepted \o Take(rest, Room), refused, Drop(rest, Room))
    BY <1>1, <1>2, <2>1, AccountStore
  <2>3. accepted \o Take(rest, Room) \in Seq(Nat) /\ Drop(rest, Room) \in Seq(Nat)
    BY <1>1, <2>1, TakeProps, DropProps, ConcatProperties
  <2>4. handed' = handed /\ accepted' = accepted \o Take(rest, Room)
        /\ pop' = "sputn"
    BY <1>12 DEF XsputnFills, Store, PutShape, PutControl
  <2>5. CASE putOn
    BY <1>12, <2>2, <2>4, <2>5 DEF XsputnFills, Continue, ByteLedger
  <2>6. CASE ~putOn
    <3>1. refused' = refused \cup ToSet(Drop(rest, Room)) /\ rest' = <<>>
      BY <1>12, <2>6 DEF XsputnFills, End
    <3>2. Account(handed, accepted \o Take(rest, Room),
                  refused \cup ToSet(Drop(rest, Room)), <<>>)
      BY <1>1, <2>2, <2>3, AccountRefuse
    <3>3. QED
      BY <2>4, <3>1, <3>2 DEF ByteLedger
  <2>7. QED
    BY <2>5, <2>6
<1>13. CASE Sync \/ ShutWrite
  <2>1. ppc = "idle" /\ handed' = handed + 0 * W /\ accepted' = accepted
        /\ rest' = <<>>
    BY <1>13 DEF Sync, ShutWrite, Begin, End, Continue, areaVars
  <2>2. rest = <<>> /\ handed' = handed
    BY <1>1, <2>1 DEF ByteLedger
  <2>3. refused' = refused
    BY <1>3, <1>13 DEF Sync, ShutWrite, End, Continue
  <2>4. QED
    BY <1>2, <2>1, <2>2, <2>3 DEF ByteLedger
<1>14. CASE WriteTimesOut \/ SelectFails \/ WriteFails
  <2>1. Account(handed, accepted, refused \cup ToSet(rest), <<>>)
    BY <1>1, <1>2, AccountRefuse
  <2>2. UNCHANGED <<handed, accepted>> /\ rest' = <<>>
        /\ refused' = refused \cup ToSet(rest)
    BY <1>14 DEF WriteTimesOut, SelectFails, WriteFails, End, areaVars
  <2>3. QED
    BY <2>1, <2>2 DEF ByteLedger
<1>15. CASE WriteReady
  BY <1>6, <1>15 DEF WriteReady, areaVars
<1>16. ASSUME NEW k \in 1 .. ChanCap, WriteSome(k)
       PROVE  ByteLedger'
  BY <1>6, <1>16 DEF WriteSome, areaVars
<1>17. CASE SyncReturns
  <2>1. CASE pop = "sync"
    <3>1. rest = <<>> /\ rest' = <<>> /\ refused' = refused
          /\ UNCHANGED <<handed, accepted>>
      BY <1>3, <1>17, <2>1 DEF SyncReturns, End, ByteLedger
    <3>2. QED
      BY <1>2, <3>1 DEF ByteLedger
  <2>2. CASE pop = "sputc"
    <3>1. Account(handed, accepted \o rest, refused, <<>>)
      BY <1>1, <1>2, AccountStoreAll
    <3>2. accepted' = accepted \o rest /\ rest' = <<>> /\ refused' = refused
          /\ handed' = handed
      BY <1>3, <1>17, <2>2 DEF SyncReturns, End
    <3>3. QED
      BY <3>1, <3>2 DEF ByteLedger
  <2>3. CASE pop = "sputn"
    <3>1. rest' = rest /\ ppc' = "copy" /\ pop' = pop
          /\ UNCHANGED <<handed, accepted, refused>>
      BY <1>17, <2>3 DEF SyncReturns, Continue
    <3>2. QED
      BY <1>2, <2>3, <3>1 DEF ByteLedger
  <2>4. QED
    BY <1>17, <2>1, <2>2, <2>3 DEF SyncReturns
<1>18. ASSUME NEW wp \in Waits, SendTimeout(wp)
       PROVE  ByteLedger'
  BY <1>6, <1>18 DEF SendTimeout, areaVars, callVars
<1>19. ASSUME NEW k \in 1 .. ChanCap, PeerReads(k)
       PROVE  ByteLedger'
  BY <1>6, <1>19 DEF PeerReads, areaVars, callVars
<1>20. CASE UNCHANGED putVars
  BY <1>6, <1>20 DEF putVars
<1>21. QED
  BY <1>7, <1>8, <1>9, <1>10, <1>11, <1>12, <1>13, <1>14, <1>15, <1>16, <1>17,
     <1>18, <1>19, <1>20
     DEF PutNext, PutStep, PutFault, PutCall

\* No byte a caller handed over vanishes or is stored twice, whatever fails,
\* times out or is retried: each is in the stream at its place, belongs to a
\* call that threw or came up short, or is still to be copied.
THEOREM PutAccounted ==
  ASSUME W = 1
  PROVE  PutSpec => []EveryByteAccounted
<1>1. PutInit => PutShape /\ ByteLedger
  <2>1. PutInit => ByteLedger
    <3>1. Len(<<>>) = 0
      OBVIOUS
    <3>2. QED
      BY <3>1 DEF PutInit, ByteLedger, Account
  <2>2. QED
    BY <2>1, ShapeInit
<1>2. PutShape /\ ByteLedger /\ [PutNext]_putVars => PutShape' /\ ByteLedger'
  BY ShapeStep, LedgerStep
<1>3. PutShape /\ ByteLedger => EveryByteAccounted
  <2>. SUFFICES ASSUME PutShape, ByteLedger PROVE EveryByteAccounted
    OBVIOUS
  <2>1. \A q : q \in Seq(Bytes) => q \in Seq(Nat)
    BY DEF Bytes
  <2>2. handed \in Nat /\ accepted \in Seq(Nat) /\ rest \in Seq(Nat)
    BY <2>1 DEF PutShape, PutTypeOK
  <2>3. Account(handed, accepted, refused, rest)
    BY DEF ByteLedger
  <2>4. QED
    BY <2>2, <2>3, AccountGives DEF EveryByteAccounted
<1>4. QED
  BY <1>1, <1>2, <1>3, PTL DEF PutSpec
=============================================================================
