-------------------------- MODULE SockStreamProofs --------------------------
(***************************************************************************)
(* The two narrow sockbufs of SockStream (W = 1) implement the byte stream *)
(* of ByteStream, for every size of the areas, the kernel's buffer and the *)
(* calls.  The invariants of the halves are those proved for each half     *)
(* alone; what is new here is that each half is an environment the other   *)
(* half's proof allows.                                                    *)
(***************************************************************************)
EXTENDS SockStream, ByteSeqProofs

WP == INSTANCE SockBufPutProofs
RP == INSTANCE SockBufGetProofs WITH MaxWire <- MaxBytes

-----------------------------------------------------------------------------
(* The steps of each half, as its own proofs name them.                    *)

LEMMA SameStart == Init => WP!PutInit /\ RP!GetInit
BY DEF Init, Writer!PutInit, WP!PutInit, Reader!GetInit, RP!GetInit

LEMMA SameWriter ==
  Writer!PutStep \/ Writer!PutFault \/ Writer!PutCall => WP!PutNext
<1>1. Writer!SputcStores => WP!SputcStores
  BY DEF Writer!SputcStores, WP!SputcStores, Writer!Begin, WP!Begin,
         Writer!Fresh, WP!Fresh, Writer!Room, WP!Room, Writer!Store,
         WP!Store, Writer!End, WP!End, Writer!ToSet, WP!ToSet,
         Writer!chanVars, WP!chanVars
<1>2. Writer!OverflowSyncs => WP!OverflowSyncs
  BY DEF Writer!OverflowSyncs, WP!OverflowSyncs, Writer!Begin, WP!Begin,
         Writer!Fresh, WP!Fresh, Writer!Room, WP!Room, Writer!Continue,
         WP!Continue, Writer!areaVars, WP!areaVars, Writer!chanVars,
         WP!chanVars
<1>3. Writer!OverflowDisabled => WP!OverflowDisabled
  BY DEF Writer!OverflowDisabled, WP!OverflowDisabled, Writer!Begin,
         WP!Begin, Writer!Fresh, WP!Fresh, Writer!End, WP!End, Writer!ToSet,
         WP!ToSet, Writer!areaVars, WP!areaVars, Writer!chanVars, WP!chanVars
<1>4. Writer!XsputnFits => WP!XsputnFits
  BY DEF Writer!XsputnFits, WP!XsputnFits, Writer!Room, WP!Room,
         Writer!Store, WP!Store, Writer!End, WP!End, Writer!ToSet, WP!ToSet,
         Writer!chanVars, WP!chanVars
<1>5. Writer!XsputnFills => WP!XsputnFills
  BY DEF Writer!XsputnFills, WP!XsputnFills, Writer!Room, WP!Room,
         Writer!Store, WP!Store, Writer!Continue, WP!Continue, Writer!End,
         WP!End, Writer!Take, WP!Take, Writer!Drop, WP!Drop, Writer!ToSet,
         WP!ToSet, Writer!chanVars, WP!chanVars
<1>6. Writer!Sync => WP!Sync
  BY DEF Writer!Sync, WP!Sync, Writer!Begin, WP!Begin, Writer!Continue,
         WP!Continue, Writer!End, WP!End, Writer!ToSet, WP!ToSet,
         Writer!areaVars, WP!areaVars, Writer!chanVars, WP!chanVars
<1>7. Writer!ShutWrite => WP!ShutWrite
  BY DEF Writer!ShutWrite, WP!ShutWrite, Writer!Begin, WP!Begin, Writer!End,
         WP!End, Writer!ToSet, WP!ToSet
<1>8. Writer!WriteReady => WP!WriteReady
  BY DEF Writer!WriteReady, WP!WriteReady, Writer!areaVars, WP!areaVars,
         Writer!chanVars, WP!chanVars
<1>9. Writer!WriteTimesOut => WP!WriteTimesOut
  BY DEF Writer!WriteTimesOut, WP!WriteTimesOut, Writer!End, WP!End,
         Writer!ToSet, WP!ToSet, Writer!areaVars, WP!areaVars,
         Writer!chanVars, WP!chanVars
<1>10. Writer!SelectFails => WP!SelectFails
  BY DEF Writer!SelectFails, WP!SelectFails, Writer!End, WP!End,
         Writer!ToSet, WP!ToSet, Writer!areaVars, WP!areaVars,
         Writer!chanVars, WP!chanVars
<1>11. Writer!WriteFails => WP!WriteFails
  BY DEF Writer!WriteFails, WP!WriteFails, Writer!WriteLen, WP!WriteLen,
         Writer!Unwritten, WP!Unwritten, Writer!Drop, WP!Drop, Writer!End,
         WP!End, Writer!ToSet, WP!ToSet, Writer!chanVars, WP!chanVars
<1>12. Writer!SyncReturns => WP!SyncReturns
  BY DEF Writer!SyncReturns, WP!SyncReturns, Writer!WriteLen, WP!WriteLen,
         Writer!Continue, WP!Continue, Writer!End, WP!End, Writer!ToSet,
         WP!ToSet, Writer!chanVars, WP!chanVars
<1>13. \A n \in 1 .. MaxPut : Writer!Sputn(n) => WP!Sputn(n)
  BY DEF Writer!Sputn, WP!Sputn, Writer!Begin, WP!Begin, Writer!Fresh,
         WP!Fresh, Writer!Continue, WP!Continue, Writer!areaVars,
         WP!areaVars, Writer!chanVars, WP!chanVars
<1>14. \A k \in 1 .. ChanCap : Writer!WriteSome(k) => WP!WriteSome(k)
  BY DEF Writer!WriteSome, WP!WriteSome, Writer!WriteLen, WP!WriteLen,
         Writer!Chunk, WP!Chunk, Writer!areaVars, WP!areaVars
<1>15. \A wp \in Waits : Writer!SendTimeout(wp) => WP!SendTimeout(wp)
  BY DEF Writer!SendTimeout, WP!SendTimeout, Writer!areaVars, WP!areaVars,
         Writer!callVars, WP!callVars, Writer!chanVars, WP!chanVars
<1>. QED
  BY <1>1, <1>2, <1>3, <1>4, <1>5, <1>6, <1>7, <1>8, <1>9, <1>10, <1>11, <1>12, <1>13, <1>14, <1>15
     DEF Writer!PutStep, WP!PutStep, Writer!PutFault, WP!PutFault,
         Writer!PutCall, WP!PutCall, WP!PutNext

LEMMA SameReader ==
  \/ Reader!GetStep \/ Reader!ReadFails \/ Reader!GetCall
  \/ Reader!PeerSendsUrgent
  => RP!GetNext
<1>1. Reader!XsgetnCopiesAll => RP!XsgetnCopiesAll
  BY DEF Reader!XsgetnCopiesAll, RP!XsgetnCopiesAll, Reader!Deliver,
         RP!Deliver, Reader!Take, RP!Take, Reader!Drop, RP!Drop, Reader!GEnd,
         RP!GEnd, Reader!goptVars, RP!goptVars, Reader!netVars, RP!netVars
<1>2. Reader!XsgetnCopiesPart => RP!XsgetnCopiesPart
  BY DEF Reader!XsgetnCopiesPart, RP!XsgetnCopiesPart, Reader!Deliver,
         RP!Deliver, Reader!Take, RP!Take, Reader!Drop, RP!Drop,
         Reader!GContinue, RP!GContinue, Reader!GEnd, RP!GEnd,
         Reader!goptVars, RP!goptVars, Reader!netVars, RP!netVars
<1>3. Reader!Sbumpc => RP!Sbumpc
  BY DEF Reader!Sbumpc, RP!Sbumpc, Reader!GBegin, RP!GBegin, Reader!Deliver,
         RP!Deliver, Reader!Take, RP!Take, Reader!Drop, RP!Drop,
         Reader!GContinue, RP!GContinue, Reader!GEnd, RP!GEnd,
         Reader!goptVars, RP!goptVars, Reader!netVars, RP!netVars
<1>4. Reader!Sgetc => RP!Sgetc
  BY DEF Reader!Sgetc, RP!Sgetc, Reader!GBegin, RP!GBegin, Reader!GContinue,
         RP!GContinue, Reader!GEnd, RP!GEnd, Reader!gareaVars, RP!gareaVars,
         Reader!goptVars, RP!goptVars, Reader!netVars, RP!netVars
<1>5. Reader!ReadReady => RP!ReadReady
  BY DEF Reader!ReadReady, RP!ReadReady, Reader!Readable, RP!Readable,
         Reader!gareaVars, RP!gareaVars, Reader!goptVars, RP!goptVars,
         Reader!netVars, RP!netVars
<1>6. Reader!ReadTimesOut => RP!ReadTimesOut
  BY DEF Reader!ReadTimesOut, RP!ReadTimesOut, Reader!Readable, RP!Readable,
         Reader!GEnd, RP!GEnd, Reader!gareaVars, RP!gareaVars,
         Reader!goptVars, RP!goptVars, Reader!netVars, RP!netVars
<1>7. Reader!OobCheck => RP!OobCheck
  BY DEF Reader!OobCheck, RP!OobCheck, Reader!AtMark, RP!AtMark, Reader!GEnd,
         RP!GEnd, Reader!gareaVars, RP!gareaVars, Reader!goptVars,
         RP!goptVars, Reader!netVars, RP!netVars
<1>8. Reader!ReadEof => RP!ReadEof
  BY DEF Reader!ReadEof, RP!ReadEof, Reader!GEnd, RP!GEnd, Reader!gareaVars,
         RP!gareaVars, Reader!goptVars, RP!goptVars, Reader!netVars,
         RP!netVars
<1>9. Reader!ReadFails => RP!ReadFails
  BY DEF Reader!ReadFails, RP!ReadFails, Reader!GEnd, RP!GEnd,
         Reader!gareaVars, RP!gareaVars, Reader!goptVars, RP!goptVars,
         Reader!netVars, RP!netVars
<1>10. Reader!ShutRead => RP!ShutRead
  BY DEF Reader!ShutRead, RP!ShutRead, Reader!GBegin, RP!GBegin, Reader!GEnd,
         RP!GEnd, Reader!goptVars, RP!goptVars, Reader!netVars, RP!netVars
<1>11. Reader!PeerSendsUrgent => RP!PeerSendsUrgent
  BY DEF Reader!PeerSendsUrgent, RP!PeerSendsUrgent, Reader!gareaVars,
         RP!gareaVars, Reader!goptVars, RP!goptVars, Reader!gcallVars,
         RP!gcallVars
<1>12. \A n \in 1 .. MaxGet : Reader!Sgetn(n) => RP!Sgetn(n)
  BY DEF Reader!Sgetn, RP!Sgetn, Reader!GBegin, RP!GBegin, Reader!GContinue,
         RP!GContinue, Reader!gareaVars, RP!gareaVars, Reader!goptVars,
         RP!goptVars, Reader!netVars, RP!netVars
<1>13. \A k \in 1 .. MaxBytes : Reader!ReadSome(k) => RP!ReadSome(k)
  BY DEF Reader!ReadSome, RP!ReadSome, Reader!ReadLimit, RP!ReadLimit,
         Reader!BeforeMark, RP!BeforeMark, Reader!Filled, RP!Filled,
         Reader!Garbage, RP!Garbage, Reader!Deliver, RP!Deliver, Reader!Take,
         RP!Take, Reader!Drop, RP!Drop, Reader!GContinue, RP!GContinue,
         Reader!GEnd, RP!GEnd, Reader!goptVars, RP!goptVars
<1>14. \A wp \in Waits : Reader!RecvTimeout(wp) => RP!RecvTimeout(wp)
  BY DEF Reader!RecvTimeout, RP!RecvTimeout, Reader!gareaVars, RP!gareaVars,
         Reader!gcallVars, RP!gcallVars, Reader!netVars, RP!netVars
<1>15. \A b \in BOOLEAN : Reader!SetOob(b) => RP!SetOob(b)
  BY DEF Reader!SetOob, RP!SetOob, Reader!gareaVars, RP!gareaVars,
         Reader!gcallVars, RP!gcallVars, Reader!netVars, RP!netVars
<1>. QED
  BY <1>1, <1>2, <1>3, <1>4, <1>5, <1>6, <1>7, <1>8, <1>9, <1>10, <1>11, <1>12, <1>13, <1>14, <1>15
     DEF Reader!GetStep, RP!GetStep, Reader!GetCall, RP!GetCall, RP!GetPeer,
         RP!GetNext

-----------------------------------------------------------------------------
(* What a step of one half is to the other.                                *)

LEMMA JoinBytes ==
  \A a, b, c \in Seq(Nat) : (a \o b) \o c = a \o (b \o c)
<1>. TAKE a, b, c \in Seq(Nat)
<1>. QED
  BY ConcatAssociative

\* The types both halves give the shared variables and their own histories.
LEMMA SharedTypes ==
  ASSUME WP!PutShape, RP!GetIInv
  PROVE  /\ putOn \in BOOLEAN /\ fin \in BOOLEAN
         /\ put \in Seq(Nat) /\ rest \in Seq(Nat) /\ accepted \in Seq(Nat)
         /\ wlen \in Nat
         /\ get \in Seq(Nat) /\ delivered \in Seq(Nat) /\ taken \in Seq(Nat)
         /\ want \in Nat
         /\ wire \in Seq(Nat) /\ chan \in Seq(Nat)
         /\ chan \in Seq(WP!Bytes)
<1>1. \A q : q \in Seq(WP!Bytes) => q \in Seq(Nat)
  BY DEF WP!Bytes
<1>2. /\ putOn \in BOOLEAN /\ fin \in BOOLEAN
      /\ put \in Seq(Nat) /\ rest \in Seq(Nat) /\ accepted \in Seq(Nat)
      /\ wlen \in Nat
      /\ chan \in Seq(WP!Bytes)
  BY <1>1 DEF WP!PutShape, WP!PutTypeOK
<1>3. /\ get \in Seq(Nat) /\ delivered \in Seq(Nat) /\ taken \in Seq(Nat)
      /\ want \in Nat
      /\ wire \in Seq(Nat) /\ chan \in Seq(Nat)
  BY DEF RP!GetIInv, RP!GetShape, RP!GetTypeOK, RP!GetBytes
<1>4. QED
  BY <1>2, <1>3

\* The writer's half does not see what the reader takes out of the kernel.
LEMMA ChanDrained ==
  ASSUME WP!PutShape, WP!StreamIntegrity, UNCHANGED <<writerVars, wire, fin>>,
         chan' \in Seq(WP!Bytes)
  PROVE  WP!PutShape' /\ WP!StreamIntegrity'
<1>1. WP!PutTypeOK'
  BY DEF WP!PutShape, WP!PutTypeOK, writerVars
<1>2. WP!PutInBounds' /\ WP!PutControl'
  BY DEF WP!PutShape, WP!PutInBounds, WP!PutControl, writerVars
<1>3. WP!StreamIntegrity'
  BY DEF WP!StreamIntegrity, WP!Unsent, WP!Drop, WP!IsPrefix, writerVars
<1>4. QED
  BY <1>1, <1>2, <1>3 DEF WP!PutShape

\* The reader's half allows any bytes to arrive, not only the numbered ones
\* its own environment sends.
LEMMA ChanExtended ==
  ASSUME RP!GetIInv, UNCHANGED <<readerVars, mark>>, fin' \in BOOLEAN,
         NEW c \in Seq(Nat), wire' = wire \o c, chan' = chan \o c
  PROVE  RP!GetIInv'
<1>1. /\ taken \in Seq(Nat) /\ chan \in Seq(Nat) /\ wire \in Seq(Nat)
      /\ taken \o chan = wire
  BY DEF RP!GetIInv, RP!GetShape, RP!GetTypeOK, RP!GetBytes, RP!Split
<1>2. wire' \in Seq(Nat) /\ chan' \in Seq(Nat)
  BY <1>1, ConcatProperties
<1>3. RP!GetShape'
  BY <1>2 DEF RP!GetIInv, RP!GetShape, RP!GetTypeOK, RP!GetInBounds,
              RP!GetControl, RP!GetBytes, readerVars
<1>4. taken' \o chan' = wire'
  <2>1. (taken \o chan) \o c = taken \o (chan \o c)
    BY <1>1, JoinBytes
  <2>2. taken' = taken
    BY DEF readerVars
  <2>3. QED
    BY <1>1, <2>1, <2>2
<1>5. RP!Split'
  BY <1>4 DEF RP!GetIInv, RP!Split, readerVars
<1>6. QED
  BY <1>3, <1>5 DEF RP!GetIInv

LEMMA WriterEffect ==
  ASSUME W = 1, WP!PutShape, RP!GetIInv, WriterActs
  PROVE  /\ \E b \in Seq(Nat) : accepted' = accepted \o b
         /\ \E c \in Seq(Nat) : wire' = wire \o c /\ chan' = chan \o c
         /\ ~putOn => wire' = wire
         /\ putOn' = putOn \/ (~putOn' /\ UNCHANGED <<accepted, wire>>)
<1>1. /\ put \in Seq(Nat) /\ rest \in Seq(Nat) /\ accepted \in Seq(Nat)
      /\ wire \in Seq(Nat) /\ chan \in Seq(Nat) /\ wlen \in Nat
      /\ Len(put) \in Nat /\ Len(rest) \in Nat
      /\ BufSize \in Nat /\ ChanCap \in Nat
  BY SharedTypes, LenProperties, StreamConstants
<1>2. /\ <<>> \in Seq(Nat)
      /\ accepted = accepted \o <<>> /\ wire = wire \o <<>>
      /\ chan = chan \o <<>>
  BY <1>1, EmptySeq, ConcatEmptySeq
<1>3. ASSUME UNCHANGED <<accepted, wire, chan>>, putOn' = putOn \/ ~putOn'
      PROVE  /\ \E b \in Seq(Nat) : accepted' = accepted \o b
             /\ \E c \in Seq(Nat) : wire' = wire \o c /\ chan' = chan \o c
             /\ ~putOn => wire' = wire
             /\ putOn' = putOn \/ (~putOn' /\ UNCHANGED <<accepted, wire>>)
  BY <1>2, <1>3
<1>4. ASSUME UNCHANGED <<putOn, wire, chan>>,
             NEW b \in Seq(Nat), accepted' = accepted \o b
      PROVE  /\ \E b_1 \in Seq(Nat) : accepted' = accepted \o b_1
             /\ \E c \in Seq(Nat) : wire' = wire \o c /\ chan' = chan \o c
             /\ ~putOn => wire' = wire
             /\ putOn' = putOn \/ (~putOn' /\ UNCHANGED <<accepted, wire>>)
  BY <1>2, <1>4
<1>5. CASE Writer!SputcStores
  <2>1. Writer!Fresh(1) \in Seq(Nat)
    <3>1. handed \in Nat
      BY DEF WP!PutShape, WP!PutTypeOK
    <3>2. Writer!Fresh(1) = [i \in 1 .. 1 |-> handed + i]
      BY DEF Writer!Fresh
    <3>3. QED
      BY <3>1, <3>2
  <2>2. QED
    BY <1>4, <1>5, <2>1 DEF Writer!SputcStores, Writer!Store, Writer!chanVars
<1>6. CASE Writer!XsputnFits
  BY <1>1, <1>4, <1>6 DEF Writer!XsputnFits, Writer!Store, Writer!chanVars
<1>7. CASE Writer!XsputnFills
  <2>1. Writer!Room \in Nat /\ Writer!Room <= Len(rest)
    <3>1. Writer!Room = WP!Room
      BY DEF Writer!Room, WP!Room
    <3>2. WP!Room = IF putOn THEN BufSize - Len(put) ELSE 0
      BY WP!NarrowLengths, StreamConstants DEF WP!PutShape
    <3>3. putOn => Len(put) <= BufSize
      BY <1>1 DEF WP!PutShape, WP!PutInBounds
    <3>4. QED
      BY <1>1, <1>7, <3>1, <3>2, <3>3 DEF Writer!XsputnFills
  <2>2. Writer!Take(rest, Writer!Room) \in Seq(Nat)
    BY <1>1, <2>1, TakeProps DEF Writer!Take, Take
  <2>3. QED
    BY <1>4, <1>7, <2>2 DEF Writer!XsputnFills, Writer!Store, Writer!chanVars
<1>8. ASSUME NEW k \in 1 .. ChanCap, Writer!WriteSome(k)
      PROVE  /\ \E b \in Seq(Nat) : accepted' = accepted \o b
             /\ \E c \in Seq(Nat) : wire' = wire \o c /\ chan' = chan \o c
             /\ ~putOn => wire' = wire
             /\ putOn' = putOn
  <2>1. putOn
    BY <1>8 DEF Writer!WriteSome, WP!PutShape, WP!PutControl
  <2>2. Writer!WriteLen = Len(put)
    <3>1. WP!WriteLen = Len(put)
      BY WP!NarrowLengths, StreamConstants DEF WP!PutShape
    <3>2. QED
      BY <3>1 DEF Writer!WriteLen, WP!WriteLen
  <2>3. k \in Nat /\ wlen + k <= Len(put)
    BY <1>1, <1>8, <2>2 DEF Writer!WriteSome
  <2>4. Writer!Chunk(k) \in Seq(Nat)
    BY <1>1, <2>3, SliceProps DEF Writer!Chunk
  <2>5. /\ wire' = wire \o Writer!Chunk(k) /\ chan' = chan \o Writer!Chunk(k)
        /\ UNCHANGED <<putOn, accepted>>
    BY <1>8 DEF Writer!WriteSome, Writer!areaVars
  <2>6. QED
    BY <1>2, <2>1, <2>4, <2>5
<1>9. CASE Writer!SyncReturns
  <2>1. UNCHANGED <<putOn, wire, chan>>
    BY <1>9 DEF Writer!SyncReturns, Writer!chanVars
  <2>2. accepted' = accepted \o <<>> \/ accepted' = accepted \o rest
    BY <1>2, <1>9 DEF Writer!SyncReturns
  <2>3. QED
    BY <1>1, <1>2, <1>4, <2>1, <2>2
<1>10. CASE Writer!ShutWrite
  BY <1>3, <1>10 DEF Writer!ShutWrite
<1>11. CASE \/ Writer!OverflowSyncs \/ Writer!OverflowDisabled
            \/ Writer!Sync \/ Writer!WriteReady \/ Writer!WriteTimesOut
            \/ Writer!SelectFails \/ Writer!WriteFails
            \/ \E n \in 1 .. MaxPut : Writer!Sputn(n)
            \/ \E wp \in Waits : Writer!SendTimeout(wp)
  <2>1. UNCHANGED <<putOn, accepted, wire, chan>>
    BY <1>11 DEF Writer!OverflowSyncs, Writer!OverflowDisabled, Writer!Sync,
       Writer!WriteReady, Writer!WriteTimesOut, Writer!SelectFails,
       Writer!WriteFails, Writer!Sputn, Writer!SendTimeout, Writer!areaVars,
       Writer!chanVars
  <2>2. QED
    BY <1>3, <2>1
<1>12. QED
  BY <1>5, <1>6, <1>7, <1>8, <1>9, <1>10, <1>11
     DEF WriterActs, Writer!PutStep, Writer!PutFault, Writer!PutCall

LEMMA ReaderEffect ==
  ASSUME W = 1, WP!PutShape, RP!GetIInv, ReaderActs
  PROVE  /\ UNCHANGED <<writerVars, wire, fin>>
         /\ chan' \in Seq(WP!Bytes)
         /\ \E d \in Seq(Nat) : delivered' = delivered \o d
<1>1. /\ get \in Seq(Nat) /\ delivered \in Seq(Nat) /\ want \in Nat
      /\ chan \in Seq(Nat) /\ chan \in Seq(WP!Bytes)
      /\ Len(get) \in Nat /\ Len(chan) \in Nat
      /\ MaxBytes \in Nat
  BY SharedTypes, LenProperties, StreamConstants
<1>2. <<>> \in Seq(Nat) /\ delivered = delivered \o <<>>
  BY <1>1, EmptySeq, ConcatEmptySeq
<1>3. UNCHANGED writerVars
  BY DEF ReaderActs
<1>4. CASE Reader!XsgetnCopiesAll \/ Reader!XsgetnCopiesPart
  <2>1. PICK n \in 0 .. Len(get) : Reader!Deliver(get, n)
    BY <1>1, <1>4 DEF Reader!XsgetnCopiesAll, Reader!XsgetnCopiesPart
  <2>2. Take(get, n) \in Seq(Nat)
    BY <1>1, TakeProps
  <2>3. delivered' = delivered \o Take(get, n)
    BY <2>1 DEF Reader!Deliver, Reader!Take, Take
  <2>4. UNCHANGED <<wire, fin, chan>>
    BY <1>4 DEF Reader!XsgetnCopiesAll, Reader!XsgetnCopiesPart, Reader!netVars
  <2>5. QED
    BY <1>1, <1>3, <2>2, <2>3, <2>4
<1>5. CASE Reader!Sbumpc
  <2>1. UNCHANGED <<wire, fin, chan>>
    BY <1>5 DEF Reader!Sbumpc, Reader!netVars
  <2>2. CASE get # <<>>
    <3>1. 1 \in 0 .. Len(get)
      BY <1>1, <2>2, EmptySeq
    <3>2. Take(get, 1) \in Seq(Nat)
      BY <1>1, <3>1, TakeProps
    <3>3. delivered' = delivered \o Take(get, 1)
      BY <1>5, <2>2 DEF Reader!Sbumpc, Reader!Deliver, Reader!Take, Take
    <3>4. QED
      BY <1>1, <1>3, <2>1, <3>2, <3>3
  <2>3. CASE get = <<>>
    <3>1. delivered' = delivered
      BY <1>5, <2>3 DEF Reader!Sbumpc
    <3>2. QED
      BY <1>1, <1>2, <1>3, <2>1, <3>1
  <2>4. QED
    BY <2>2, <2>3
<1>6. ASSUME NEW k \in 1 .. MaxBytes, Reader!ReadSome(k)
      PROVE  /\ UNCHANGED <<wire, fin>>
             /\ chan' \in Seq(WP!Bytes)
             /\ \E d \in Seq(Nat) : delivered' = delivered \o d
  <2>1. UNCHANGED <<wire, fin>>
    BY <1>6 DEF Reader!ReadSome
  <2>2. k \in Nat /\ k >= 1 /\ k <= Len(chan) /\ k \in 0 .. Len(chan)
    BY <1>1, <1>6 DEF Reader!ReadSome
  <2>3. chan' \in Seq(WP!Bytes)
    <3>1. chan' = Drop(chan, k)
      BY <1>6 DEF Reader!ReadSome, Reader!Drop, Drop
    <3>2. QED
      BY <1>1, <2>2, <3>1, DropProps
  <2>4. RP!Filled(k) \in Seq(Nat) /\ Len(RP!Filled(k)) = k
    BY <2>2, RP!FilledProps, StreamConstants
       DEF RP!GetIInv, RP!GetShape, RP!GetBytes
  <2>5. Take(RP!Filled(k), 1) \in Seq(Nat)
    BY <2>2, <2>4, TakeProps
  <2>6. delivered' = delivered \/ delivered' = delivered \o Take(RP!Filled(k), 1)
    <3>1. Reader!Filled(k) = RP!Filled(k)
      BY DEF Reader!Filled, RP!Filled, Reader!Take, RP!Take, Reader!Garbage,
             RP!Garbage
    <3>2. \/ delivered' = delivered
          \/ delivered' = delivered \o Take(Reader!Filled(k), 1)
      BY <1>6 DEF Reader!ReadSome, Reader!Deliver, Reader!Take, Take
    <3>3. QED
      BY <3>1, <3>2
  <2>7. QED
    BY <1>2, <2>1, <2>3, <2>5, <2>6
<1>7. CASE \/ Reader!ReadReady \/ Reader!ReadTimesOut \/ Reader!OobCheck
           \/ Reader!ReadEof \/ Reader!ReadFails \/ Reader!Sgetc
           \/ Reader!ShutRead
           \/ \E n \in 1 .. MaxGet : Reader!Sgetn(n)
           \/ \E wp \in Waits : Reader!RecvTimeout(wp)
           \/ \E b \in BOOLEAN : Reader!SetOob(b)
  <2>1. UNCHANGED <<delivered, wire, chan, fin>>
    BY <1>7 DEF Reader!ReadReady, Reader!ReadTimesOut, Reader!OobCheck,
       Reader!ReadEof, Reader!ReadFails, Reader!Sgetc, Reader!ShutRead,
       Reader!Sgetn, Reader!RecvTimeout, Reader!SetOob, Reader!gareaVars,
       Reader!netVars
  <2>2. QED
    BY <1>1, <1>2, <1>3, <2>1
<1>8. QED
  BY <1>3, <1>4, <1>5, <1>6, <1>7 DEF ReaderActs, Reader!GetStep, Reader!GetCall

-----------------------------------------------------------------------------
(* The invariant of the pair: the invariants of both halves.               *)

PairInv == WP!PutShape /\ WP!StreamIntegrity /\ RP!GetIInv

LEMMA PairInit == ASSUME W = 1, Init PROVE PairInv
<1>1. WP!PutInit /\ RP!GetInit
  BY SameStart
<1>2. WP!PutShape
  BY <1>1, WP!ShapeInit, StreamConstants
<1>3. WP!StreamIntegrity
  BY <1>1, EmptySeq, ConcatEmptySeq
     DEF WP!PutInit, WP!StreamIntegrity, WP!Unsent
<1>4. RP!GetIInv
  BY <1>1, RP!GetShapeInit, RP!SplitInit, StreamConstants DEF RP!GetIInv
<1>5. QED
  BY <1>2, <1>3, <1>4 DEF PairInv

LEMMA PairStep == ASSUME W = 1, PairInv, [Next]_vars PROVE PairInv'
<1>. USE DEF PairInv
<1>1. CASE WriterActs
  <2>1. WP!PutNext
    BY <1>1, SameWriter DEF WriterActs
  <2>2. WP!PutShape' /\ WP!StreamIntegrity'
    BY <2>1, WP!ShapeStep, WP!IntegrityStep, StreamConstants
  <2>3. PICK c \in Seq(Nat) : wire' = wire \o c /\ chan' = chan \o c
    BY <1>1, WriterEffect
  <2>4. fin' \in BOOLEAN
    BY <2>2 DEF WP!PutShape, WP!PutTypeOK
  <2>5. UNCHANGED <<readerVars, mark>>
    BY <1>1 DEF WriterActs
  <2>6. RP!GetIInv'
    BY <2>3, <2>4, <2>5, ChanExtended
  <2>7. QED
    BY <2>2, <2>6
<1>2. CASE ReaderActs \/ WriterSendsUrgent
  <2>1. RP!GetNext
    BY <1>2, SameReader DEF ReaderActs, WriterSendsUrgent
  <2>2. RP!GetIInv'
    BY <2>1, RP!GetShapeStep, RP!SplitStep, StreamConstants DEF RP!GetIInv
  <2>3. UNCHANGED <<writerVars, wire, fin>> /\ chan' \in Seq(WP!Bytes)
    <3>1. CASE ReaderActs
      BY <3>1, ReaderEffect
    <3>2. CASE WriterSendsUrgent
      BY <3>2, SharedTypes DEF WriterSendsUrgent, Reader!PeerSendsUrgent
    <3>3. QED
      BY <1>2, <3>1, <3>2
  <2>4. WP!PutShape' /\ WP!StreamIntegrity'
    BY <2>3, ChanDrained
  <2>5. QED
    BY <2>2, <2>4
<1>3. CASE UNCHANGED vars
  <2>1. WP!PutShape' /\ WP!StreamIntegrity'
    <3>1. UNCHANGED <<writerVars, wire, fin>> /\ chan' \in Seq(WP!Bytes)
      BY <1>3, SharedTypes DEF vars
    <3>2. QED
      BY <3>1, ChanDrained
  <2>2. RP!GetIInv'
    <3>1. UNCHANGED RP!getVars
      BY <1>3 DEF vars, readerVars, RP!getVars
    <3>2. QED
      BY <3>1, RP!GetShapeStep, RP!SplitStep, StreamConstants DEF RP!GetIInv
  <2>3. QED
    BY <2>1, <2>2
<1>4. QED
  BY <1>1, <1>2, <1>3 DEF Next

\* What has been delivered is the front of what the kernel took, and that is
\* the front of what was stored.
LEMMA NothingAltered ==
  ASSUME PairInv
  PROVE  /\ IsPrefix(delivered, wire)
         /\ IsPrefix(wire, accepted)
         /\ putOn => wire \o WP!Unsent = accepted
         /\ getOn => (delivered \o get) \o chan = wire
<1>. USE DEF PairInv
<1>1. RP!DeliveryIntegrity
  BY RP!SplitGivesIntegrity, StreamConstants DEF RP!GetIInv, RP!GetShape
<1>2. /\ delivered \in Seq(Nat) /\ get \in Seq(Nat) /\ chan \in Seq(Nat)
      /\ wire \in Seq(Nat) /\ accepted \in Seq(Nat) /\ put \in Seq(Nat)
      /\ wlen \in Nat
  BY SharedTypes
<1>3. getOn => (delivered \o get) \o chan = wire
  BY <1>1 DEF RP!DeliveryIntegrity
<1>4. IsPrefix(delivered, wire)
  <2>1. CASE getOn
    <3>1. (delivered \o get) \o chan = delivered \o (get \o chan)
      <4>1. delivered \in Seq(Nat) /\ get \in Seq(Nat) /\ chan \in Seq(Nat)
        BY <1>2
      <4>. HIDE DEF PairInv
      <4>2. QED
        BY ONLY <4>1, JoinBytes
    <3>2. get \o chan \in Seq(Nat)
      BY <1>2, ConcatProperties
    <3>3. wire = delivered \o (get \o chan)
      BY <1>3, <2>1, <3>1
    <3>4. QED
      BY <1>2, <3>2, <3>3, ConcatHasPrefix
  <2>2. CASE ~getOn
    BY <1>1, <2>2 DEF RP!DeliveryIntegrity, RP!IsPrefix, IsPrefix
  <2>3. QED
    BY <2>1, <2>2
<1>5. putOn => wire \o WP!Unsent = accepted
  BY DEF WP!StreamIntegrity
<1>6. IsPrefix(wire, accepted)
  <2>1. CASE putOn
    <3>1. WP!Unsent \in Seq(Nat)
      <4>1. wlen \in 0 .. Len(put)
        BY <1>2, LenProperties DEF WP!PutShape, WP!PutInBounds
      <4>2. Drop(put, wlen) \in Seq(Nat)
        BY <1>2, <4>1, DropProps
      <4>3. QED
        BY <1>2, <4>2 DEF WP!Unsent, WP!Drop, Drop
    <3>2. QED
      BY <1>2, <1>5, <2>1, <3>1, ConcatHasPrefix
  <2>2. CASE ~putOn
    BY <2>2 DEF WP!StreamIntegrity, WP!IsPrefix, IsPrefix
  <2>3. QED
    BY <2>1, <2>2
<1>7. QED
  BY <1>3, <1>4, <1>5, <1>6

LEMMA PairInductive == ASSUME W = 1 PROVE Spec => []PairInv
<1>1. Init => PairInv
  BY PairInit
<1>2. PairInv /\ [Next]_vars => PairInv'
  BY PairStep
<1>3. QED
  BY <1>1, <1>2, PTL DEF Spec
-----------------------------------------------------------------------------
(* The theorems.                                                           *)

\* Between characters of one byte the reader gets nothing but what was stored,
\* in order and without a gap: what the wide instance does not do.
THEOREM NarrowStream == ASSUME W = 1 PROVE Spec => []WideStream
<1>1. PairInv => WideStream
  <2>. SUFFICES ASSUME PairInv PROVE IsPrefix(delivered, accepted)
    BY DEF WideStream
  <2>1. IsPrefix(delivered, wire) /\ IsPrefix(wire, accepted)
    BY NothingAltered
  <2>2. delivered \in Seq(Nat) /\ wire \in Seq(Nat) /\ accepted \in Seq(Nat)
    BY SharedTypes DEF PairInv
  <2>3. QED
    BY <2>1, <2>2, PrefixTransitive
<1>2. QED
  BY <1>1, PairInductive, PTL

\* After a sync that returned 0 nothing stored is left in the writer's area:
\* whatever the interleaving, the reader has it, holds it or can read it.
THEOREM StreamFlushed == ASSUME W = 1 PROVE Spec => []FlushedIsReadable
<1>1. PairInv => FlushedIsReadable
  <2>. SUFFICES ASSUME PairInv, pop = "sync", presult = "ok", putOn, getOn
                PROVE  (delivered \o get) \o chan = accepted
    BY DEF FlushedIsReadable
  <2>1. put = <<>> /\ ppc # "write"
    BY DEF PairInv, WP!PutShape, WP!PutControl
  <2>2. wire \o <<>> = accepted
    BY <2>1, NothingAltered DEF WP!Unsent
  <2>3. wire = accepted
    BY <2>2, SharedTypes, ConcatEmptySeq DEF PairInv
  <2>4. QED
    BY <2>3, NothingAltered
<1>2. QED
  BY <1>1, PairInductive, PTL

StreamOrder ==
  /\ delivered \in Seq(Nat) /\ wire \in Seq(Nat) /\ accepted \in Seq(Nat)
  /\ putOn \in BOOLEAN
  /\ IsPrefix(delivered, wire)
  /\ IsPrefix(wire, accepted)

LEMMA PairOrder == PairInv => StreamOrder
BY SharedTypes, NothingAltered DEF PairInv, StreamOrder

\* Every step of the two programs extends the stream, receives from its front,
\* cuts its tail when the writer shuts down, or leaves it alone.
LEMMA StreamStep ==
  ASSUME W = 1, PairInv, StreamOrder, StreamOrder', [Next]_vars
  PROVE  [Stream!StreamNext]_(Stream!streamVars)
<1>. USE DEF Stream!streamVars
<1>1. /\ IsPrefix(delivered, wire) /\ IsPrefix(wire, accepted)
      /\ IsPrefix(delivered', wire') /\ IsPrefix(wire', accepted')
  BY DEF StreamOrder
<1>2. /\ delivered \in Seq(Nat) /\ wire \in Seq(Nat) /\ accepted \in Seq(Nat)
      /\ delivered' \in Seq(Nat) /\ wire' \in Seq(Nat)
      /\ accepted' \in Seq(Nat)
  BY DEF StreamOrder
<1>0. putOn \in BOOLEAN /\ putOn' \in BOOLEAN
  BY DEF StreamOrder
<1>3. CASE WriterActs
  <2>1. PICK b \in Seq(Nat) : accepted' = accepted \o b
    BY <1>3, WriterEffect DEF PairInv
  <2>2. /\ ~putOn => wire' = wire
        /\ putOn' = putOn \/ (~putOn' /\ UNCHANGED <<accepted, wire>>)
    BY <1>3, WriterEffect DEF PairInv
  <2>3. UNCHANGED delivered
    BY <1>3 DEF WriterActs, readerVars
  <2>4. CASE putOn /\ putOn'
    <3>1. Carried = accepted /\ Carried' = accepted'
      BY <2>4 DEF Carried
    <3>2. accepted' = accepted \/ IsStrictPrefix(accepted, accepted')
      BY <1>2, <2>1, LongerByConcat
    <3>3. CASE accepted' = accepted
      BY <2>3, <2>4, <3>1, <3>3
    <3>4. CASE IsStrictPrefix(accepted, accepted')
      <4>1. Stream!Extend
        BY <2>3, <2>4, <3>1, <3>4
           DEF Stream!Extend, Stream!IsStrictPrefix, Stream!IsPrefix,
               IsStrictPrefix, IsPrefix
      <4>2. QED
        BY <4>1 DEF Stream!StreamNext
    <3>5. QED
      BY <3>2, <3>3, <3>4
  <2>5. CASE putOn /\ ~putOn'
    <3>1. UNCHANGED <<accepted, wire>>
      BY <2>2, <2>5
    <3>2. Carried = accepted /\ Carried' = wire
      BY <2>5, <3>1 DEF Carried
    <3>3. putOn' = FALSE /\ IsPrefix(delivered, wire)
      BY <1>0, <1>1, <2>5
    <3>4. Stream!Truncate
      BY <1>1, <2>3, <2>5, <3>1, <3>2, <3>3, Zenon
         DEF Stream!Truncate, Stream!IsPrefix, IsPrefix
    <3>5. QED
      BY <3>4 DEF Stream!StreamNext
  <2>6. CASE ~putOn
    <3>1. wire' = wire /\ ~putOn'
      BY <2>2, <2>6
    <3>2. Carried' = Carried /\ putOn' = putOn
      BY <1>0, <2>6, <3>1 DEF Carried
    <3>3. QED
      BY <2>3, <3>2
  <2>7. QED
    BY <2>4, <2>5, <2>6
<1>4. CASE ReaderActs
  <2>1. PICK d \in Seq(Nat) : delivered' = delivered \o d
    BY <1>4, ReaderEffect DEF PairInv
  <2>2. UNCHANGED <<putOn, accepted, wire>>
    BY <1>4, ReaderEffect DEF PairInv, writerVars
  <2>3. Carried' = Carried /\ putOn' = putOn
    BY <2>2 DEF Carried
  <2>4. IsPrefix(delivered', Carried)
    <3>1. IsPrefix(delivered', wire)
      BY <1>1, <2>2
    <3>2. IsPrefix(delivered', accepted)
      BY <1>1, <1>2, <3>1, PrefixTransitive
    <3>3. QED
      BY <3>1, <3>2 DEF Carried
  <2>5. delivered' = delivered \/ IsStrictPrefix(delivered, delivered')
    BY <1>2, <2>1, LongerByConcat
  <2>6. CASE delivered' = delivered
    BY <2>3, <2>6
  <2>7. CASE IsStrictPrefix(delivered, delivered')
    <3>1. Stream!Receive
      BY <2>3, <2>4, <2>7, Zenon
         DEF Stream!Receive, Stream!IsStrictPrefix, Stream!IsPrefix,
             IsStrictPrefix, IsPrefix
    <3>2. QED
      BY <3>1 DEF Stream!StreamNext
  <2>8. QED
    BY <2>5, <2>6, <2>7
<1>5. CASE WriterSendsUrgent \/ UNCHANGED vars
  <2>1. UNCHANGED <<putOn, accepted, wire, delivered>>
    BY <1>5 DEF WriterSendsUrgent, Reader!PeerSendsUrgent, Reader!gareaVars,
                vars, writerVars, readerVars
  <2>2. QED
    BY <2>1 DEF Carried
<1>6. QED
  BY <1>3, <1>4, <1>5 DEF Next

\* The pair implements ByteStream: over every interleaving of the two programs,
\* short writes and reads, failures, timeouts and shutdowns, the reader
\* receives the stored bytes in order, and only a tail nobody has received is
\* ever dropped, when the writer shuts its direction down.
THEOREM StreamRefines == ASSUME W = 1 PROVE Spec => RefinesByteStream
<1>1. Init => Stream!StreamInit
  BY DEF Init, Writer!PutInit, Reader!GetInit, Stream!StreamInit, Carried
<1>2. PairInv /\ StreamOrder /\ StreamOrder' /\ [Next]_vars
        => [Stream!StreamNext]_(Stream!streamVars)
  BY StreamStep
<1>3. QED
  BY <1>1, <1>2, PairOrder, PairInductive, PTL DEF Spec, RefinesByteStream, Stream!StreamSpec
=============================================================================
