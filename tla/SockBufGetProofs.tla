-------------------------- MODULE SockBufGetProofs --------------------------
(***************************************************************************)
(* Theorems about the input half of a narrow sockbuf (W = 1), for every    *)
(* size of the get area and any behaviour of the peer.                     *)
(***************************************************************************)
EXTENDS SockBufGet, ByteSeqProofs

-----------------------------------------------------------------------------
(* Where a call in progress can stand.                                     *)

GetControl ==
  /\ gpc \in {"select", "mark", "read"} => getOn /\ get = <<>>
  /\ gpc # "idle" => gresult = "none" /\ gop \in {"sgetn", "sbumpc", "sgetc"}
  /\ gpc = "copy" => gop = "sgetn"

GetShape == GetTypeOK /\ GetInBounds /\ GetControl

LEMMA NarrowArea ==
  ASSUME W = 1, NEW k \in Nat, chan \in Seq(GetBytes)
  PROVE  Filled(k) = Take(chan, k) \o <<>> /\ ReadLimit = BufSize
<1>1. [i \in 1 .. k * (W - 1) |-> Garbage] = <<>>
  <2>1. k * (W - 1) = 0
    OBVIOUS
  <2>2. 1 .. k * (W - 1) = {}
    BY <2>1
  <2>3. QED
    BY <2>2
<1>2. Filled(k) = Take(chan, k) \o <<>>
  BY <1>1, Zenon DEF Filled
<1>3. ReadLimit = BufSize
  BY GetConstants DEF ReadLimit
<1>4. QED
  BY <1>2, <1>3

LEMMA FilledProps ==
  ASSUME W = 1, GetTypeOK, NEW k \in Nat, k <= Len(chan)
  PROVE  /\ Filled(k) = Take(chan, k)
         /\ Filled(k) \in Seq(GetBytes)
         /\ Len(Filled(k)) = k
<1>1. chan \in Seq(GetBytes) /\ k \in 0 .. Len(chan)
  BY LenProperties DEF GetTypeOK
<1>2. Take(chan, k) \in Seq(GetBytes) /\ Len(Take(chan, k)) = k
  BY <1>1, TakeProps
<1>3. Filled(k) = Take(chan, k) \o <<>>
  BY <1>1, NarrowArea
<1>4. QED
  BY <1>2, <1>3, ConcatEmptySeq

\* What a call copies comes off the front of the area.
LEMMA DeliverProps ==
  ASSUME GetTypeOK, NEW area \in Seq(GetBytes), NEW n \in 0 .. Len(area),
         Deliver(area, n)
  PROVE  /\ delivered' \in Seq(GetBytes)
         /\ get' \in Seq(GetBytes) /\ Len(get') = Len(area) - n
         /\ delivered' \o get' = delivered \o area
<1>1. Take(area, n) \in Seq(GetBytes) /\ Drop(area, n) \in Seq(GetBytes)
      /\ Len(Drop(area, n)) = Len(area) - n
  BY TakeProps, DropProps
<1>2. delivered \in Seq(GetBytes)
  BY DEF GetTypeOK
<1>3. delivered' = delivered \o Take(area, n) /\ get' = Drop(area, n)
  BY DEF Deliver
<1>4. delivered \o Take(area, n) \in Seq(GetBytes)
  BY <1>1, <1>2, ConcatProperties
<1>5. (delivered \o Take(area, n)) \o Drop(area, n) = delivered \o area
  BY <1>2, JoinCut
<1>6. delivered' \o get' = delivered \o area
  BY <1>3, <1>5, Zenon
<1>7. QED
  BY <1>1, <1>3, <1>4, <1>6

LEMMA GetShapeInit == ASSUME W = 1, GetInit PROVE GetShape
<1>1. <<>> \in Seq(GetBytes) /\ Len(<<>>) = 0 /\ BufSize * W = BufSize
  BY EmptySeq, GetConstants
<1>2. getOn \in BOOLEAN /\ oob \in BOOLEAN /\ fin \in BOOLEAN
  BY DEF GetInit
<1>3. GetTypeOK
  BY <1>1, <1>2 DEF GetInit, GetTypeOK
<1>4. GetInBounds
  BY <1>1, GetConstants DEF GetInit, GetInBounds
<1>5. GetControl
  BY DEF GetInit, GetControl
<1>6. QED
  BY <1>3, <1>4, <1>5 DEF GetShape

LEMMA GetShapeStep ==
  ASSUME W = 1, GetShape, [GetNext]_getVars
  PROVE  GetShape'
<1>. USE DEF GetShape
<1>1. /\ BufSize * W = BufSize /\ BufSize \in Nat \ {0} /\ ReadLimit = BufSize
      /\ \A n \in Nat : n * W = n
      /\ MaxWire \in Nat /\ MaxGet \in Nat /\ Waits \subseteq Int
  BY GetConstants DEF ReadLimit
<1>2. /\ get \in Seq(GetBytes) /\ Len(get) \in Nat
      /\ Len(get) <= (IF getOn THEN BufSize ELSE 0)
      /\ chan \in Seq(GetBytes) /\ Len(chan) \in Nat
      /\ wire \in Seq(GetBytes) /\ Len(wire) \in Nat
      /\ <<>> \in Seq(GetBytes) /\ Len(<<>>) = 0
      /\ want \in Nat
  BY <1>1, LenProperties, EmptySeq DEF GetTypeOK, GetInBounds
\* A call that starts, ends or moves on without touching the areas.
<1>3. ASSUME UNCHANGED <<getOn, get, delivered, rtmo, oob, taken, wire, chan, mark, fin>>,
             gpc' \in {"idle", "copy", "select", "mark", "read"},
             gop' \in {"none", "sgetn", "sbumpc", "sgetc", "shutdown"},
             gresult' \in {"none", "ok", "eof", "timeout", "oob", "error"},
             want' \in Nat, GetControl'
      PROVE  GetShape'
  BY <1>1, <1>3 DEF GetTypeOK, GetInBounds
<1>4. ASSUME NEW n \in 1 .. MaxGet, Sgetn(n)
      PROVE  GetShape'
  BY <1>1, <1>3, <1>4
     DEF Sgetn, GBegin, GContinue, GetControl, gareaVars, goptVars, netVars
<1>5. CASE XsgetnCopiesAll
  <2>1. want \in 0 .. Len(get) /\ Deliver(get, want) /\ getOn' = getOn
    BY <1>2, <1>5 DEF XsgetnCopiesAll
  <2>2. /\ delivered' \in Seq(GetBytes) /\ get' \in Seq(GetBytes)
        /\ Len(get') = Len(get) - want
    BY <1>2, <2>1, DeliverProps
  <2>3. /\ gpc' = "idle" /\ gresult' = "ok" /\ want' = 0 /\ gop' = gop
        /\ UNCHANGED <<getOn, rtmo, oob, taken, wire, chan, mark, fin>>
    BY <1>5 DEF XsgetnCopiesAll, GEnd, goptVars, netVars
  <2>4. GetTypeOK'
    BY <2>2, <2>3 DEF GetTypeOK
  <2>5. GetInBounds'
    BY <1>1, <1>2, <2>2, <2>3 DEF GetInBounds
  <2>6. GetControl'
    BY <2>3 DEF GetControl
  <2>7. QED
    BY <2>4, <2>5, <2>6
<1>6. CASE XsgetnCopiesPart
  <2>1. Len(get) \in 0 .. Len(get) /\ Deliver(get, Len(get))
    BY <1>2, <1>6 DEF XsgetnCopiesPart
  <2>2. /\ delivered' \in Seq(GetBytes) /\ get' \in Seq(GetBytes)
        /\ Len(get') = 0
    BY <1>2, <2>1, DeliverProps
  <2>3. get' = <<>>
    BY <2>2, EmptySeq
  <2>4. /\ UNCHANGED <<getOn, rtmo, oob, gop, taken, wire, chan, mark, fin>>
        /\ gpc = "copy" /\ Len(get) < want
        /\ \/ getOn /\ gpc' = "select" /\ gresult' = "none" /\ want' = want - Len(get)
           \/ gpc' = "idle" /\ gresult' = "eof" /\ want' = 0
    BY <1>6 DEF XsgetnCopiesPart, GContinue, GEnd, goptVars, netVars
  <2>5. want' \in Nat
    BY <1>2, <2>4
  <2>6. GetTypeOK'
    BY <2>2, <2>4, <2>5 DEF GetTypeOK
  <2>7. GetInBounds'
    BY <1>1, <2>2, <2>4 DEF GetInBounds
  <2>8. GetControl'
    BY <2>3, <2>4 DEF GetControl
  <2>9. QED
    BY <2>6, <2>7, <2>8
<1>7. CASE Sbumpc
  <2>1. CASE get # <<>>
    <3>1. 1 \in 0 .. Len(get) /\ Deliver(get, 1)
      BY <1>2, <1>7, <2>1, EmptySeq DEF Sbumpc
    <3>2. /\ delivered' \in Seq(GetBytes) /\ get' \in Seq(GetBytes)
          /\ Len(get') = Len(get) - 1
      BY <1>2, <3>1, DeliverProps
    <3>3. /\ gpc' = "idle" /\ gresult' = "ok" /\ want' = 0 /\ gop' = "sbumpc"
          /\ UNCHANGED <<getOn, rtmo, oob, taken, wire, chan, mark, fin>>
      BY <1>7, <2>1 DEF Sbumpc, GBegin, GEnd, goptVars, netVars
    <3>4. GetTypeOK'
      BY <3>2, <3>3 DEF GetTypeOK
    <3>5. GetInBounds'
      BY <1>1, <1>2, <3>2, <3>3 DEF GetInBounds
    <3>6. GetControl'
      BY <3>3 DEF GetControl
    <3>7. QED
      BY <3>4, <3>5, <3>6
  <2>2. CASE get = <<>>
    BY <1>1, <1>3, <1>7, <2>2
       DEF Sbumpc, GBegin, GEnd, GContinue, GetControl, goptVars, netVars
  <2>3. QED
    BY <2>1, <2>2
<1>8. CASE Sgetc
  BY <1>3, <1>8
     DEF Sgetc, GBegin, GEnd, GContinue, GetControl, gareaVars, goptVars, netVars
<1>9. CASE ReadReady
  BY <1>2, <1>3, <1>9
     DEF ReadReady, GetControl, GetTypeOK, gareaVars, goptVars, netVars
<1>10. CASE ReadTimesOut \/ ReadEof \/ ReadFails
  BY <1>3, <1>10
     DEF ReadTimesOut, ReadEof, ReadFails, GEnd, GetControl, GetTypeOK, gareaVars,
         goptVars, netVars
<1>11. CASE OobCheck
  BY <1>2, <1>3, <1>11
     DEF OobCheck, GEnd, GetControl, GetTypeOK, gareaVars, goptVars, netVars
<1>12. ASSUME NEW k \in 1 .. MaxWire, ReadSome(k)
       PROVE  GetShape'
  <2>1. /\ k \in Nat /\ k <= Len(chan) /\ k <= BufSize /\ gpc = "read"
        /\ k \in 0 .. Len(chan) /\ 1 \in 0 .. k
    BY <1>1, <1>2, <1>12 DEF ReadSome
  <2>2. /\ Filled(k) = Take(chan, k) /\ Filled(k) \in Seq(GetBytes)
        /\ Len(Filled(k)) = k
    BY <2>1, FilledProps
  <2>3. Drop(chan, k) \in Seq(GetBytes) /\ taken \o Take(chan, k) \in Seq(GetBytes)
    BY <1>2, <2>1, <2>2, DropProps, ConcatProperties DEF GetTypeOK
  <2>4. /\ getOn /\ getOn' /\ UNCHANGED <<rtmo, oob, gop, wire, mark, fin>>
        /\ chan' = Drop(chan, k) /\ taken' = taken \o Take(chan, k)
    BY <1>12, <2>1 DEF ReadSome, GetControl, goptVars
  <2>5. /\ get' \in Seq(GetBytes) /\ Len(get') <= BufSize
        /\ delivered' \in Seq(GetBytes)
    <3>1. CASE Deliver(Filled(k), 1)
      BY <1>1, <2>1, <2>2, <3>1, DeliverProps
    <3>2. CASE get' = Filled(k) /\ delivered' = delivered
      BY <2>1, <2>2, <3>2 DEF GetTypeOK
    <3>3. QED
      BY <1>12, <3>1, <3>2 DEF ReadSome
  <2>6. /\ want' \in Nat
        /\ \/ gpc' = "copy" /\ gresult' = "none" /\ gop = "sgetn"
           \/ gpc' = "idle" /\ gresult' = "ok"
    BY <1>2, <1>12 DEF ReadSome, GContinue, GEnd
  <2>7. getOn' \in BOOLEAN
    BY <1>12 DEF ReadSome, GetTypeOK
  <2>8. GetTypeOK'
    BY <2>3, <2>4, <2>5, <2>6, <2>7 DEF GetTypeOK
  <2>9. GetInBounds'
    BY <1>1, <2>4, <2>5 DEF GetInBounds
  <2>10. GetControl'
    BY <2>4, <2>6 DEF GetControl
  <2>11. QED
    BY <2>8, <2>9, <2>10
<1>13. ASSUME NEW wp \in Waits, RecvTimeout(wp)
       PROVE  GetShape'
  <2>1. rtmo' \in Nat \cup {-1}
    BY <1>1, <1>13 DEF RecvTimeout
  <2>2. QED
    BY <1>13, <2>1
       DEF RecvTimeout, GetTypeOK, GetInBounds, GetControl, gareaVars, gcallVars,
           netVars
<1>14. ASSUME NEW b \in BOOLEAN, SetOob(b)
       PROVE  GetShape'
  BY <1>14
     DEF SetOob, GetTypeOK, GetInBounds, GetControl, gareaVars, gcallVars, netVars
<1>15. CASE ShutRead
  <2>1. getOn' = FALSE /\ get' = <<>> /\ gpc' = "idle" /\ want' = 0
        /\ gop' = "shutdown" /\ gresult' \in {"ok", "error"}
        /\ UNCHANGED <<rtmo, oob, delivered, taken, wire, chan, mark, fin>>
    BY <1>15 DEF ShutRead, GBegin, GEnd, goptVars, netVars
  <2>2. getOn' \in BOOLEAN
    BY <2>1
  <2>3. GetTypeOK'
    BY <1>2, <2>1, <2>2 DEF GetTypeOK
  <2>4. GetInBounds' /\ GetControl'
    BY <1>2, <2>1 DEF GetInBounds, GetControl
  <2>5. QED
    BY <2>3, <2>4
<1>16. ASSUME NEW k \in 1 .. MaxWire, PeerSends(k)
       PROVE  GetShape'
  <2>. DEFINE new == [i \in 1 .. k |-> Len(wire) + i]
  <2>1. \A i \in 1 .. k : Len(wire) + i \in GetBytes
    BY <1>2 DEF GetBytes
  <2>2. k \in Nat
    BY <1>1
  <2>3. new \in Seq(GetBytes)
    BY <2>1, <2>2
  <2>4. wire' = wire \o new /\ chan' = chan \o new
    BY <1>16 DEF PeerSends
  <2>5. wire' \in Seq(GetBytes) /\ chan' \in Seq(GetBytes)
    <3>. HIDE DEF new
    <3>. QED  BY <1>2, <2>3, <2>4, ConcatProperties
  <2>6. QED
    BY <1>16, <2>5
       DEF PeerSends, GetTypeOK, GetInBounds, GetControl, gareaVars, gcallVars,
           goptVars
<1>17. CASE PeerSendsUrgent
  BY <1>2, <1>17
     DEF PeerSendsUrgent, GetTypeOK, GetInBounds, GetControl, gareaVars, gcallVars,
         goptVars
<1>18. CASE PeerCloses
  <2>1. fin' \in BOOLEAN
    BY <1>18 DEF PeerCloses
  <2>2. QED
    BY <1>18, <2>1
       DEF PeerCloses, GetTypeOK, GetInBounds, GetControl, gareaVars, gcallVars,
           goptVars
<1>19. CASE UNCHANGED getVars
  BY <1>19 DEF getVars, GetTypeOK, GetInBounds, GetControl
<1>20. QED
  BY <1>4, <1>5, <1>6, <1>7, <1>8, <1>9, <1>10, <1>11, <1>12, <1>13, <1>14, <1>15,
     <1>16, <1>17, <1>18, <1>19
     DEF GetNext, GetStep, GetCall, GetPeer

-----------------------------------------------------------------------------
(* Where the bytes are.  A call in progress moves bytes from the get area  *)
(* to the caller without changing their concatenation; a read moves them   *)
(* from the kernel into an empty area; only shutdown(shut_read) drops any. *)

Split ==
  /\ taken \o chan = wire
  /\ IF getOn THEN delivered \o get = taken
     ELSE \E t \in Seq(GetBytes) : taken = (delivered \o get) \o t

GetIInv == GetShape /\ Split

LEMMA NothingDelivered ==
  ASSUME NEW d \in Seq(GetBytes)
  PROVE  d \o <<>> = d
BY ConcatEmptySeq

LEMMA SplitInit == ASSUME GetInit PROVE Split
<1>1. <<>> \o <<>> = <<>>
  <2>1. <<>> \in Seq(GetBytes)
    BY EmptySeq
  <2>2. QED
    BY <2>1, NothingDelivered
<1>2. <<>> \in Seq(GetBytes)
  BY EmptySeq
<1>3. taken \o chan = wire
  BY <1>1 DEF GetInit
<1>4. CASE getOn
  BY <1>1, <1>3, <1>4 DEF GetInit, Split
<1>5. CASE ~getOn
  <2>1. taken = (delivered \o get) \o <<>>
    BY <1>1 DEF GetInit
  <2>2. QED
    BY <1>2, <1>3, <1>5, <2>1 DEF Split
<1>6. QED
  BY <1>4, <1>5

LEMMA SplitStep ==
  ASSUME W = 1, GetIInv, [GetNext]_getVars
  PROVE  Split'
<1>. USE DEF GetIInv, GetShape
<1>1. /\ get \in Seq(GetBytes) /\ delivered \in Seq(GetBytes)
      /\ taken \in Seq(GetBytes) /\ wire \in Seq(GetBytes) /\ chan \in Seq(GetBytes)
      /\ Len(get) \in Nat /\ want \in Nat
  BY LenProperties DEF GetTypeOK
\* Bytes may move between the area and the caller.
<1>2. ASSUME delivered' \o get' = delivered \o get,
             UNCHANGED <<getOn, taken, wire, chan>>
      PROVE  Split'
  <2>1. (delivered \o get)' = delivered \o get
    BY <1>2
  <2>2. (taken \o chan)' = wire'
    BY <1>2 DEF Split
  <2>3. CASE getOn
    BY <1>2, <2>1, <2>2, <2>3 DEF Split
  <2>4. CASE ~getOn
    BY <1>2, <2>1, <2>2, <2>4 DEF Split
  <2>5. QED
    BY <2>3, <2>4
<1>3. ASSUME UNCHANGED <<getOn, get, delivered, taken, wire, chan>>
      PROVE  Split'
  BY <1>2, <1>3
<1>4. ASSUME NEW n \in 0 .. Len(get), Deliver(get, n),
             UNCHANGED <<getOn, taken, wire, chan>>
      PROVE  Split'
  BY <1>1, <1>2, <1>4, DeliverProps
<1>5. CASE XsgetnCopiesAll
  <2>1. want \in 0 .. Len(get)
    BY <1>1, <1>5 DEF XsgetnCopiesAll
  <2>2. QED
    BY <1>4, <1>5, <2>1 DEF XsgetnCopiesAll, netVars
<1>6. CASE XsgetnCopiesPart
  <2>1. Len(get) \in 0 .. Len(get)
    BY <1>1
  <2>2. QED
    BY <1>4, <1>6, <2>1 DEF XsgetnCopiesPart, netVars
<1>7. CASE Sbumpc
  <2>1. CASE get # <<>>
    <3>1. 1 \in 0 .. Len(get)
      BY <1>1, <2>1, EmptySeq
    <3>2. QED
      BY <1>4, <1>7, <2>1, <3>1 DEF Sbumpc, netVars
  <2>2. CASE get = <<>>
    BY <1>3, <1>7, <2>2 DEF Sbumpc, netVars
  <2>3. QED
    BY <2>1, <2>2
<1>8. ASSUME NEW k \in 1 .. MaxWire, ReadSome(k)
      PROVE  Split'
  <2>1. /\ k \in Nat /\ k <= Len(chan) /\ getOn /\ get = <<>>
        /\ k \in 0 .. Len(chan) /\ 1 \in 0 .. k
    BY <1>1, <1>8, LenProperties, GetConstants DEF ReadSome, GetControl
  <2>2. /\ Filled(k) = Take(chan, k) /\ Filled(k) \in Seq(GetBytes)
        /\ Len(Filled(k)) = k
    BY <2>1, FilledProps
  <2>3. taken' = taken \o Take(chan, k) /\ chan' = Drop(chan, k)
        /\ wire' = wire /\ getOn' = getOn
    BY <1>8 DEF ReadSome
  <2>4. (taken \o Take(chan, k)) \o Drop(chan, k) = wire
    BY <1>1, <2>1, JoinCut DEF Split
  <2>5. taken' \o chan' = wire'
    BY <2>3, <2>4, Zenon
  <2>6. delivered \o <<>> = taken
    BY <2>1 DEF Split
  <2>7. delivered = taken
    BY <1>1, <2>6, NothingDelivered
  <2>8. delivered' \o get' = delivered \o Filled(k)
    <3>1. CASE Deliver(Filled(k), 1)
      BY <2>1, <2>2, <3>1, DeliverProps
    <3>2. CASE get' = Filled(k) /\ delivered' = delivered
      BY <3>2
    <3>3. QED
      BY <1>8, <3>1, <3>2 DEF ReadSome
  <2>9. delivered' \o get' = taken'
    BY <2>2, <2>3, <2>7, <2>8, Zenon
  <2>10. QED
    BY <2>1, <2>3, <2>5, <2>9 DEF Split
<1>9. CASE ShutRead
  <2>1. getOn' = FALSE /\ get' = <<>> /\ UNCHANGED <<delivered, taken, wire, chan>>
    BY <1>9 DEF ShutRead, netVars
  <2>2. taken' \o chan' = wire'
    BY <2>1 DEF Split
  <2>3. PICK t \in Seq(GetBytes) : taken = delivered \o t
    <3>1. CASE getOn
      BY <1>1, <3>1 DEF Split
    <3>2. CASE ~getOn
      <4>1. get = <<>>
        BY <1>1, <3>2, EmptySeq DEF GetInBounds
      <4>2. delivered \o get = delivered
        BY <1>1, <4>1, NothingDelivered
      <4>3. QED
        BY <3>2, <4>2 DEF Split
    <3>3. QED
      BY <3>1, <3>2
  <2>4. delivered' \o get' = delivered
    BY <1>1, <2>1, NothingDelivered
  <2>5. taken' = (delivered' \o get') \o t
    BY <2>1, <2>3, <2>4, Zenon
  <2>6. QED
    BY <2>1, <2>2, <2>5 DEF Split
<1>10. ASSUME NEW k \in 1 .. MaxWire, PeerSends(k)
       PROVE  Split'
  <2>. DEFINE new == [i \in 1 .. k |-> Len(wire) + i]
  <2>1. \A i \in 1 .. k : Len(wire) + i \in GetBytes
    BY <1>1, LenProperties DEF GetBytes
  <2>2. k \in Nat
    BY GetConstants
  <2>3. new \in Seq(GetBytes)
    BY <2>1, <2>2
  <2>4. wire' = wire \o new /\ chan' = chan \o new
    BY <1>10 DEF PeerSends
  <2>. HIDE DEF new
  <2>5. (taken \o chan) \o new = taken \o (chan \o new)
    <3>1. \A a, b, c \in Seq(GetBytes) : (a \o b) \o c = a \o (b \o c)
      BY JoinAssoc
    <3>2. QED
      BY <1>1, <2>3, <3>1, Zenon
  <2>6. taken \o chan = wire
    BY DEF Split
  <2>7. taken' = taken /\ UNCHANGED <<getOn, get, delivered>>
    BY <1>10 DEF PeerSends, gareaVars
  <2>8. taken' \o chan' = wire'
    BY <2>4, <2>5, <2>6, <2>7, Zenon
  <2>9. CASE getOn
    BY <2>7, <2>8, <2>9 DEF Split
  <2>10. CASE ~getOn
    BY <2>7, <2>8, <2>10 DEF Split
  <2>11. QED
    BY <2>9, <2>10
<1>11. CASE ReadReady \/ ReadTimesOut \/ OobCheck \/ ReadEof \/ ReadFails
  BY <1>3, <1>11
     DEF ReadReady, ReadTimesOut, OobCheck, ReadEof, ReadFails, gareaVars, netVars
<1>12. CASE (\E n \in 1 .. MaxGet : Sgetn(n)) \/ Sgetc
            \/ (\E wp \in Waits : RecvTimeout(wp)) \/ \E b \in BOOLEAN : SetOob(b)
  BY <1>3, <1>12 DEF Sgetn, Sgetc, RecvTimeout, SetOob, gareaVars, netVars
<1>13. CASE PeerSendsUrgent \/ PeerCloses \/ UNCHANGED getVars
  BY <1>3, <1>13 DEF PeerSendsUrgent, PeerCloses, getVars, gareaVars
<1>14. QED
  BY <1>5, <1>6, <1>7, <1>8, <1>9, <1>10, <1>11, <1>12, <1>13
     DEF GetNext, GetStep, GetCall, GetPeer

\* Whatever the area and the kernel hold, the caller has a prefix of the wire.
LEMMA SplitGivesIntegrity ==
  ASSUME GetTypeOK, GetInBounds, Split
  PROVE  DeliveryIntegrity
<1>1. /\ get \in Seq(GetBytes) /\ delivered \in Seq(GetBytes)
      /\ chan \in Seq(GetBytes) /\ Len(get) \in Nat
  BY LenProperties DEF GetTypeOK
<1>2. CASE getOn
  <2>1. delivered \o get = taken /\ taken \o chan = wire
    BY <1>2 DEF Split
  <2>2. (delivered \o get) \o chan = wire
    BY <2>1, Zenon
  <2>3. QED
    BY <1>2, <2>2 DEF DeliveryIntegrity
<1>3. CASE ~getOn
  <2>1. get = <<>>
    BY <1>1, <1>3, EmptySeq DEF GetInBounds
  <2>2. delivered \o get = delivered
    BY <1>1, <2>1, NothingDelivered
  <2>3. PICK t \in Seq(GetBytes) : taken = delivered \o t
    BY <1>3, <2>2 DEF Split
  <2>4. (delivered \o t) \o chan = delivered \o (t \o chan)
    BY <1>1, JoinAssoc
  <2>5. t \o chan \in Seq(GetBytes)
    BY <1>1, ConcatProperties
  <2>6. taken \o chan = wire
    BY DEF Split
  <2>7. wire = delivered \o (t \o chan)
    BY <2>3, <2>4, <2>6, Zenon
  <2>8. IsPrefix(delivered, delivered \o (t \o chan))
    BY <1>1, <2>5, ConcatHasPrefix
  <2>9. QED
    BY <1>3, <2>7, <2>8 DEF DeliveryIntegrity
<1>4. QED
  BY <1>2, <1>3

\* Before a read the area is empty: callers have all that left the kernel.
LEMMA NothingHeldBack ==
  ASSUME GetIInv, getOn, get = <<>>
  PROVE  delivered = taken
<1>1. delivered \in Seq(GetBytes)
  BY DEF GetIInv, GetShape, GetTypeOK
<1>2. delivered \o get = taken
  BY DEF GetIInv, Split
<1>3. delivered \o get = delivered
  BY <1>1, NothingDelivered
<1>4. QED
  BY <1>2, <1>3

-----------------------------------------------------------------------------
(* The theorems.                                                           *)

LEMMA GetInductive == ASSUME W = 1 PROVE GetSpec => []GetIInv
<1>1. GetInit => GetIInv
  BY GetShapeInit, SplitInit DEF GetIInv
<1>2. GetIInv /\ [GetNext]_getVars => GetIInv'
  BY GetShapeStep, SplitStep DEF GetIInv
<1>3. QED
  BY <1>1, <1>2, PTL DEF GetSpec

\* Type correctness of the input half.
THEOREM GetTypeCorrect == ASSUME W = 1 PROVE GetSpec => []GetTypeOK
<1>1. GetIInv => GetTypeOK
  BY DEF GetIInv, GetShape
<1>2. QED
  BY <1>1, GetInductive, PTL

\* setg after a read of any length leaves egptr() inside the buffer that
\* ends at rep->gend, and shutdown(shut_read) leaves an empty area.
THEOREM GetBounds == ASSUME W = 1 PROVE GetSpec => []GetInBounds
<1>1. GetIInv => GetInBounds
  BY DEF GetIInv, GetShape
<1>2. QED
  BY <1>1, GetInductive, PTL

\* No input call loses, repeats or reorders a byte of the stream, whatever the
\* peer sends and wherever a call is cut off by an error, a timeout or sockoob.
THEOREM GetIntegrity == ASSUME W = 1 PROVE GetSpec => []DeliveryIntegrity
<1>1. GetIInv => DeliveryIntegrity
  BY SplitGivesIntegrity DEF GetIInv, GetShape
<1>2. QED
  BY <1>1, GetInductive, PTL

\* eof and a short count are reported only when the peer has closed and every
\* byte it sent has reached a caller.
THEOREM GetEofAtEnd == ASSUME W = 1 PROVE GetSpec => []EofOnlyAtEnd
<1>1. GetInit => EofOnlyAtEnd
  BY DEF GetInit, EofOnlyAtEnd
<1>2. ASSUME GetIInv, EofOnlyAtEnd, [GetNext]_getVars
      PROVE  EofOnlyAtEnd'
  <2>1. CASE ReadEof
    <3>1. gpc = "read" /\ chan = <<>> /\ fin
          /\ UNCHANGED <<getOn, delivered, wire, fin>>
      BY <2>1 DEF ReadEof, gareaVars, netVars
    <3>2. getOn /\ get = <<>> /\ taken \in Seq(GetBytes) /\ taken \o chan = wire
      BY <1>2, <3>1 DEF GetIInv, GetShape, GetControl, GetTypeOK, Split
    <3>3. taken \o chan = taken
      BY <3>1, <3>2, NothingDelivered
    <3>4. delivered = taken
      BY <1>2, <3>2, NothingHeldBack
    <3>5. QED
      BY <3>1, <3>2, <3>3, <3>4 DEF EofOnlyAtEnd
  <2>2. ASSUME NEW k \in 1 .. MaxWire, ReadSome(k)
        PROVE  EofOnlyAtEnd'
    BY <2>2 DEF ReadSome, GContinue, GEnd, EofOnlyAtEnd
  <2>3. CASE XsgetnCopiesAll \/ XsgetnCopiesPart \/ ReadTimesOut \/ ReadFails
    BY <2>3 DEF XsgetnCopiesAll, XsgetnCopiesPart, ReadTimesOut, ReadFails,
                GContinue, GEnd, EofOnlyAtEnd
  <2>4. CASE ReadReady
    BY <1>2, <2>4 DEF ReadReady, EofOnlyAtEnd, gareaVars, netVars
  <2>5. CASE OobCheck
    BY <1>2, <2>5 DEF OobCheck, GEnd, EofOnlyAtEnd, gareaVars, netVars
  <2>6. CASE Sbumpc
    BY <1>2, <2>6 DEF Sbumpc, GContinue, GEnd, EofOnlyAtEnd
  <2>7. CASE Sgetc \/ ShutRead
    BY <2>7 DEF Sgetc, ShutRead, GContinue, GEnd, EofOnlyAtEnd, gareaVars
  <2>8. CASE \E n \in 1 .. MaxGet : Sgetn(n)
    BY <2>8 DEF Sgetn, GContinue, EofOnlyAtEnd
  <2>9. CASE (\E wp \in Waits : RecvTimeout(wp)) \/ \E b \in BOOLEAN : SetOob(b)
    BY <1>2, <2>9
       DEF RecvTimeout, SetOob, EofOnlyAtEnd, gareaVars, gcallVars, netVars
  <2>10. CASE (\E k \in 1 .. MaxWire : PeerSends(k)) \/ PeerSendsUrgent \/ PeerCloses
    BY <1>2, <2>10
       DEF PeerSends, PeerSendsUrgent, PeerCloses, EofOnlyAtEnd, gareaVars,
           gcallVars
  <2>11. CASE UNCHANGED getVars
    BY <1>2, <2>11 DEF getVars, EofOnlyAtEnd
  <2>12. QED
    BY <1>2, <2>1, <2>2, <2>3, <2>4, <2>5, <2>6, <2>7, <2>8, <2>9, <2>10, <2>11
       DEF GetNext, GetStep, GetCall, GetPeer
<1>3. QED
  BY <1>1, <1>2, GetInductive, PTL DEF GetSpec

\* A sockoob that reaches the caller finds it with every byte before the urgent
\* mark and none behind it.  That a read at the mark throws is not claimed.
THEOREM GetOobAtMark == ASSUME W = 1 PROVE GetSpec => OobOnlyAtMark
<1>. DEFINE AtTheMark == gresult' = "oob" /\ gpc # "idle" =>
                           Len(delivered) = mark /\ UNCHANGED <<delivered, get, taken>>
<1>1. ASSUME GetIInv, [GetNext]_getVars
      PROVE  AtTheMark
  <2>1. gpc # "idle" => gresult # "oob"
    BY <1>1 DEF GetIInv, GetShape, GetControl
  <2>2. CASE OobCheck
    <3>1. gpc = "mark" /\ UNCHANGED <<delivered, get, taken>>
      BY <2>2 DEF OobCheck, gareaVars
    <3>2. getOn /\ get = <<>>
      BY <1>1, <3>1 DEF GetIInv, GetShape, GetControl
    <3>3. delivered = taken
      BY <1>1, <3>2, NothingHeldBack
    <3>4. gresult' = "oob" => mark = Len(taken)
      BY <2>1, <2>2, <3>1 DEF OobCheck, AtMark
    <3>5. QED
      BY <3>1, <3>3, <3>4
  <2>3. ASSUME NEW k \in 1 .. MaxWire, ReadSome(k)
        PROVE  AtTheMark
    BY <2>3 DEF ReadSome, GContinue, GEnd
  <2>4. CASE XsgetnCopiesAll \/ XsgetnCopiesPart \/ ReadTimesOut \/ ReadFails
             \/ ReadEof
    BY <2>4 DEF XsgetnCopiesAll, XsgetnCopiesPart, ReadTimesOut, ReadFails, ReadEof,
                GContinue, GEnd
  <2>5. CASE ReadReady
    BY <2>1, <2>5 DEF ReadReady
  <2>6. CASE GetCall
    BY <2>6 DEF GetCall, Sgetn, Sbumpc, Sgetc, ShutRead, GBegin, RecvTimeout, SetOob
  <2>7. CASE GetPeer
    BY <2>1, <2>7 DEF GetPeer, PeerSends, PeerSendsUrgent, PeerCloses, gcallVars
  <2>8. CASE UNCHANGED getVars
    BY <2>1, <2>8 DEF getVars
  <2>9. QED
    BY <1>1, <2>2, <2>3, <2>4, <2>5, <2>6, <2>7, <2>8 DEF GetNext, GetStep
<1>2. GetIInv /\ [GetNext]_getVars => [AtTheMark]_getVars
  BY <1>1
<1>3. QED
  BY <1>2, GetInductive, PTL DEF GetSpec, OobOnlyAtMark
=============================================================================
