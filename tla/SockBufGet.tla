----------------------------- MODULE SockBufGet -----------------------------
(***************************************************************************)
(* The input half of basic_sockbuf (src/socket++/sockstream.cpp): the get  *)
(* area between gptr() and egptr(), the streambuf calls that consume it    *)
(* (xsgetn, uflow, underflow), read with its timeout and its out-of-band   *)
(* check, and shutdown(shut_read).                                         *)
(*                                                                         *)
(* Bytes, characters and the channel are those of SockBufPut.  A read goes *)
(* through up to three system calls (select, ioctl(SIOCATMARK), ::read);   *)
(* the peer may send, send urgent data or close between any two of them.   *)
(***************************************************************************)
EXTENDS ByteSeqs, SequencesExt

CONSTANTS
  BufSize,    \* BUFSIZ: the characters the get area holds
  W,          \* sizeof(char_type)
  MaxWire,    \* bound: the bytes the peer sends in one behaviour
  MaxGet,     \* bound: the characters one sgetn call asks for
  Waits       \* the arguments recvtimeout is called with

ASSUME GetConstants ==
  /\ BufSize \in Nat \ {0}
  /\ W \in Nat \ {0}
  /\ MaxWire \in Nat
  /\ MaxGet \in Nat
  /\ Waits \subseteq Int

VARIABLES
  getOn,      \* eback() # 0
  get,        \* the bytes of [gptr(), egptr())
  rtmo,       \* rep->rtmo
  oob,        \* rep->oob
  gpc,        \* where the input call in progress stands
  gop,        \* the last input call started
  want,       \* how many bytes it still has to copy to the caller
  gresult,    \* how the last input call ended
  delivered,  \* history: the bytes copied to callers, in order
  taken,      \* history: the bytes ::read has returned, in order
  wire,       \* history: the bytes the peer has sent, in order
  chan,       \* the bytes in the kernel, not yet read
  mark,       \* the stream position of the urgent mark, -1 if there is none
  fin         \* the peer has closed its sending direction

gareaVars == <<getOn, get, delivered>>
gcallVars == <<gpc, gop, want, gresult>>
goptVars == <<rtmo, oob>>
netVars == <<wire, chan, mark, fin>>
getVars == <<getOn, get, rtmo, oob, gpc, gop, want, gresult, delivered,
             taken, wire, chan, mark, fin>>

\* What a byte of the get area that no ::read has written looks like.
Garbage == 0

GetInit ==
  /\ getOn = TRUE
  /\ get = <<>>
  /\ rtmo = -1
  /\ oob = FALSE
  /\ gpc = "idle"
  /\ gop = "none"
  /\ want = 0
  /\ gresult = "none"
  /\ delivered = <<>>
  /\ taken = <<>>
  /\ wire = <<>>
  /\ chan = <<>>
  /\ mark = -1
  /\ fin = FALSE

-----------------------------------------------------------------------------
(* How an input call starts, hands bytes to the caller and ends.           *)

GBegin(call) ==
  /\ gpc = "idle"
  /\ gop' = call

GEnd(result) ==
  /\ gpc' = "idle"
  /\ gresult' = result
  /\ want' = 0

GContinue(pc, bytes) ==
  /\ gpc' = pc
  /\ gresult' = "none"
  /\ want' = bytes

\* Slip: the copied bytes stay in the get area (gbump forgotten).
DeliverNoBump(area, n) ==
  /\ delivered' = delivered \o Take(area, n)
  /\ get' = area

\* Copy the first n bytes of area to the caller; they leave the get area.
Deliver(area, n) ==
  /\ delivered' = delivered \o Take(area, n)
  /\ get' = Drop(area, n)

-----------------------------------------------------------------------------
(* sgetn, sbumpc (uflow) and sgetc (underflow).                            *)

Sgetn(n) ==
  /\ GBegin("sgetn")
  /\ GContinue("copy", n * W)
  /\ UNCHANGED <<gareaVars, goptVars, taken, netVars>>

XsgetnCopiesAll ==
  /\ gpc = "copy"
  /\ Len(get) >= want
  /\ Deliver(get, want)
  /\ GEnd("ok")
  /\ UNCHANGED <<getOn, goptVars, gop, taken, netVars>>

\* Copy what there is, then underflow(): eof if reading is shut down.
XsgetnCopiesPart ==
  /\ gpc = "copy"
  /\ Len(get) < want
  /\ Deliver(get, Len(get))
  /\ IF getOn THEN GContinue("select", want - Len(get)) ELSE GEnd("eof")
  /\ UNCHANGED <<getOn, goptVars, gop, taken, netVars>>

Sbumpc ==
  /\ GBegin("sbumpc")
  /\ IF get # <<>> THEN Deliver(get, W) /\ GEnd("ok")
     ELSE /\ IF getOn THEN GContinue("select", W) ELSE GEnd("eof")
          /\ UNCHANGED <<get, delivered>>
  /\ UNCHANGED <<getOn, goptVars, taken, netVars>>

Sgetc ==
  /\ GBegin("sgetc")
  /\ IF get # <<>> THEN GEnd("ok")
     ELSE IF getOn THEN GContinue("select", 0) ELSE GEnd("eof")
  /\ UNCHANGED <<gareaVars, goptVars, taken, netVars>>

-----------------------------------------------------------------------------
(* underflow's call of read.                                               *)

Readable == chan # <<>> \/ fin

\* Slip: is_readready's 0 does not stop the read.
ReadReadyIgnored ==
  /\ gpc = "select"
  /\ gpc' = IF oob THEN "mark" ELSE "read"
  /\ UNCHANGED <<gareaVars, goptVars, gop, want, gresult, taken, netVars>>

\* select is called only when a timeout is set, ioctl only when oob is.
ReadReady ==
  /\ gpc = "select"
  /\ rtmo = -1 \/ Readable
  /\ gpc' = IF oob THEN "mark" ELSE "read"
  /\ UNCHANGED <<gareaVars, goptVars, gop, want, gresult, taken, netVars>>

\* Slip: a timeout is reported the way the end of the stream is.
ReadTimesOutAsEof ==
  /\ gpc = "select"
  /\ rtmo # -1 /\ ~Readable
  /\ GEnd("eof")
  /\ UNCHANGED <<gareaVars, goptVars, gop, taken, netVars>>

ReadTimesOut ==
  /\ gpc = "select"
  /\ rtmo # -1 /\ ~Readable
  /\ GEnd("timeout")
  /\ UNCHANGED <<gareaVars, goptVars, gop, taken, netVars>>

\* Slip: a mark somewhere ahead counts as a mark here.
MarkAhead == mark >= Len(taken)
AtMark == mark = Len(taken)

OobCheck ==
  /\ gpc = "mark"
  /\ IF AtMark THEN GEnd("oob")
     ELSE gpc' = "read" /\ UNCHANGED <<want, gresult>>
  /\ UNCHANGED <<gareaVars, goptVars, gop, taken, netVars>>

\* ::read is given gend - eback() bytes of room; the kernel stops a read that
\* starts before the urgent mark at the mark.
ReadLimit == BufSize * W
BeforeMark(k) == mark > Len(taken) => Len(taken) + k <= mark

\* setg(eback(), eback(), eback() + rlen): the byte count rlen becomes a
\* character count, so for W > 1 the area ends beyond the bytes read.
Filled(k) == Take(chan, k) \o [i \in 1 .. k * (W - 1) |-> Garbage]

ReadSome(k) ==
  /\ gpc = "read"
  /\ k <= Len(chan) /\ k <= ReadLimit /\ BeforeMark(k)
  /\ taken' = taken \o Take(chan, k)
  /\ chan' = Drop(chan, k)
  /\ \/ gop = "sgetn" /\ get' = Filled(k) /\ GContinue("copy", want)
        /\ UNCHANGED delivered
     \/ gop = "sbumpc" /\ Deliver(Filled(k), W) /\ GEnd("ok")
     \/ gop = "sgetc" /\ get' = Filled(k) /\ GEnd("ok") /\ UNCHANGED delivered
  /\ UNCHANGED <<getOn, goptVars, gop, wire, mark, fin>>

\* Slip: underflow tries again when ::read returns 0.
ReadEofRetries ==
  /\ gpc = "read"
  /\ chan = <<>> /\ fin
  /\ gpc' = "select"
  /\ UNCHANGED <<gareaVars, goptVars, gop, want, gresult, taken, netVars>>

\* ::read returns 0: underflow returns eof, xsgetn the count it has so far.
ReadEof ==
  /\ gpc = "read"
  /\ chan = <<>> /\ fin
  /\ GEnd("eof")
  /\ UNCHANGED <<gareaVars, goptVars, gop, taken, netVars>>

\* select, ioctl or ::read returns -1.
ReadFails ==
  /\ \/ gpc = "select" /\ rtmo # -1
     \/ gpc \in {"mark", "read"}
  /\ GEnd("error")
  /\ UNCHANGED <<gareaVars, goptVars, gop, taken, netVars>>

-----------------------------------------------------------------------------
(* recvtimeout, oob, shutdown(shut_read).                                  *)

RecvTimeout(wp) ==
  /\ gpc = "idle"
  /\ rtmo' = IF wp < 0 THEN -1 ELSE wp
  /\ UNCHANGED <<gareaVars, gcallVars, oob, taken, netVars>>

SetOob(b) ==
  /\ gpc = "idle"
  /\ oob' = b
  /\ UNCHANGED <<gareaVars, gcallVars, rtmo, taken, netVars>>

\* The get area goes first, with what it holds; ::shutdown may then fail.
ShutRead ==
  /\ GBegin("shutdown")
  /\ getOn' = FALSE
  /\ get' = <<>>
  /\ GEnd("ok") \/ GEnd("error")
  /\ UNCHANGED <<goptVars, delivered, taken, netVars>>

-----------------------------------------------------------------------------
(* The peer: the environment of this module.                               *)

PeerSends(k) ==
  /\ ~fin
  /\ Len(wire) + k <= MaxWire
  /\ LET new == [i \in 1 .. k |-> Len(wire) + i]
     IN  wire' = wire \o new /\ chan' = chan \o new
  /\ UNCHANGED <<gareaVars, goptVars, gcallVars, taken, mark, fin>>

\* An urgent byte: the mark is where the stream ends now.
PeerSendsUrgent ==
  /\ ~fin
  /\ mark' = Len(wire)
  /\ UNCHANGED <<gareaVars, goptVars, gcallVars, taken, wire, chan, fin>>

PeerCloses ==
  /\ fin' = TRUE
  /\ UNCHANGED <<gareaVars, goptVars, gcallVars, taken, wire, chan, mark>>

-----------------------------------------------------------------------------
GetStep ==
  \/ XsgetnCopiesAll \/ XsgetnCopiesPart
  \/ ReadReady \/ ReadTimesOut \/ OobCheck
  \/ \E k \in 1 .. MaxWire : ReadSome(k)
  \/ ReadEof

GetCall ==
  \/ \E n \in 1 .. MaxGet : Sgetn(n)
  \/ Sbumpc \/ Sgetc \/ ShutRead
  \/ \E wp \in Waits : RecvTimeout(wp)
  \/ \E b \in BOOLEAN : SetOob(b)

GetPeer ==
  \/ \E k \in 1 .. MaxWire : PeerSends(k)
  \/ PeerSendsUrgent \/ PeerCloses

GetNext == GetStep \/ ReadFails \/ GetCall \/ GetPeer

GetSpec == GetInit /\ [][GetNext]_getVars

\* The thread runs; ::read and select return when there is something to read.
ReaderRuns == WF_getVars(GetStep)
GetThreadSpec == GetSpec /\ ReaderRuns
-----------------------------------------------------------------------------
GetBytes == Nat

GetTypeOK ==
  /\ getOn \in BOOLEAN
  /\ get \in Seq(GetBytes)
  /\ rtmo \in Nat \cup {-1}
  /\ oob \in BOOLEAN
  /\ gpc \in {"idle", "copy", "select", "mark", "read"}
  /\ gop \in {"none", "sgetn", "sbumpc", "sgetc", "shutdown"}
  /\ want \in Nat
  /\ gresult \in {"none", "ok", "eof", "timeout", "oob", "error"}
  /\ delivered \in Seq(GetBytes)
  /\ taken \in Seq(GetBytes)
  /\ wire \in Seq(GetBytes)
  /\ chan \in Seq(GetBytes)
  /\ mark \in Nat \cup {-1}
  /\ fin \in BOOLEAN

\* What callers got, then what the get area holds, then what the kernel holds
\* is what the peer sent, byte for byte: over short reads, timeouts, errors
\* and out-of-band exceptions in the middle of a call nothing is lost,
\* repeated or reordered.  shutdown(shut_read) may cut the stream short.
DeliveryIntegrity ==
  IF getOn THEN delivered \o get \o chan = wire
           ELSE IsPrefix(delivered, wire)

\* The get area stays inside the buffer that ends at rep->gend.
GetInBounds == Len(get) <= (IF getOn THEN BufSize * W ELSE 0)

\* A call that returns eof or a short count does so at the end of the stream:
\* the peer has closed and everything it sent has been delivered.
EofOnlyAtEnd ==
  gresult = "eof" /\ getOn => fin /\ delivered = wire

\* sockoob is thrown only at the mark: everything before it has been delivered
\* and nothing behind it has left the kernel.
OobOnlyAtMark ==
  [][gresult' = "oob" /\ gpc # "idle" =>
       Len(delivered) = mark /\ UNCHANGED <<delivered, get, taken>>]_getVars

\* Every input call returns or throws once the peer has closed: also an sgetn
\* that asks for more than the stream still holds.
GetCallsReturn == gpc # "idle" /\ fin ~> gpc = "idle"

\* With a receive timeout set every input call returns or throws, whatever
\* the peer does (socket++.texi:510).
RecvTimeoutBounds == gpc # "idle" /\ rtmo # -1 ~> gpc = "idle"

\* With rep->oob set a read never passes the urgent mark (sockstream.h:224).
OobNeverSkipped ==
  [][oob /\ Len(taken) <= mark => Len(taken') <= mark]_getVars
=============================================================================
