----------------------------- MODULE SockBufPut -----------------------------
(***************************************************************************)
(* The output half of basic_sockbuf (src/socket++/sockstream.cpp): the put *)
(* area between pbase() and epptr(), the streambuf calls that fill it      *)
(* (xsputn, overflow), the calls that empty it (sync and the write loop),  *)
(* the send timeout and shutdown(shut_write).                              *)
(*                                                                         *)
(* Everything is held in bytes.  A character is W consecutive bytes and    *)
(* every character the caller hands over is fresh: its bytes are the next  *)
(* W numbers.  The kernel's side of the connection is the byte sequence    *)
(* chan, which holds at most ChanCap bytes and which the peer drains.      *)
(* Each system call is a step of its own, so the peer can run between any  *)
(* two of them; the code between two system calls is one step.             *)
(***************************************************************************)
EXTENDS ByteSeqs, SequencesExt

CONSTANTS
  BufSize,    \* BUFSIZ: the characters the put area holds
  W,          \* sizeof(char_type): 1 for sockbuf, more for the wchar_t buffer
  ChanCap,    \* the bytes the kernel buffers before ::write has to wait
  MaxBytes,   \* bound: the bytes the caller hands over in one behaviour
  MaxPut,     \* bound: the characters of one sputn call
  Waits       \* the arguments sendtimeout is called with

ASSUME PutConstants ==
  /\ BufSize \in Nat \ {0}
  /\ W \in Nat \ {0}
  /\ ChanCap \in Nat \ {0}
  /\ MaxBytes \in Nat
  /\ MaxPut \in Nat
  /\ Waits \subseteq Int

VARIABLES
  putOn,      \* pbase() # 0
  put,        \* the bytes of [pbase(), pptr())
  stmo,       \* rep->stmo
  ppc,        \* where the output call in progress stands
  pop,        \* the last output call started
  rest,       \* the part of its argument that is not in the put area yet
  wlen,       \* write's wlen: the bytes of the put area this write has sent
  presult,    \* how the last output call ended
  handed,     \* how many bytes the caller has handed over
  accepted,   \* history: the bytes copied into the put area, in order
  refused,    \* history: the bytes of calls that ended before copying them
  wire,       \* history: the bytes ::write has taken, in order
  chan,       \* the bytes in the kernel, not yet read by the peer
  fin         \* ::shutdown has closed the sending direction

callVars == <<ppc, pop, rest, wlen, presult, refused>>
areaVars == <<putOn, put, accepted>>
chanVars == <<wire, chan, fin>>
putVars == <<putOn, put, stmo, ppc, pop, rest, wlen, presult, handed,
             accepted, refused, wire, chan, fin>>

\* The byte image of n characters the caller has not handed over before.
Fresh(n) == [i \in 1 .. n * W |-> handed + i]

\* epptr() - pptr(), in bytes; both pointers are 0 once writing is shut down.
Room == IF putOn THEN BufSize * W - Len(put) ELSE 0

PutInit ==
  /\ putOn = TRUE
  /\ put = <<>>
  /\ stmo = -1
  /\ ppc = "idle"
  /\ pop = "none"
  /\ rest = <<>>
  /\ wlen = 0
  /\ presult = "none"
  /\ handed = 0
  /\ accepted = <<>>
  /\ refused = {}
  /\ wire = <<>>
  /\ chan = <<>>
  /\ fin = FALSE

-----------------------------------------------------------------------------
(* How an output call starts, stores characters and ends.                  *)

Begin(call, n) ==
  /\ ppc = "idle"
  /\ handed + n * W <= MaxBytes
  /\ pop' = call
  /\ handed' = handed + n * W

Store(bytes) ==
  /\ put' = put \o bytes
  /\ accepted' = accepted \o bytes

\* The call is over; left are the bytes of its argument it did not copy.
End(result, left) ==
  /\ ppc' = "idle"
  /\ presult' = result
  /\ refused' = refused \cup ToSet(left)
  /\ rest' = <<>>
  /\ wlen' = 0

\* The call goes on at step pc with left still to be copied.
Continue(pc, left) ==
  /\ ppc' = pc
  /\ presult' = "none"
  /\ rest' = left
  /\ wlen' = 0
  /\ UNCHANGED refused

-----------------------------------------------------------------------------
(* sputc, that is overflow(c) when the put area is full; xsputn; pubsync.  *)

SputcStores ==
  /\ Begin("sputc", 1)
  /\ Room > 0
  /\ Store(Fresh(1))
  /\ End("ok", <<>>)
  /\ UNCHANGED <<putOn, stmo, chanVars>>

OverflowSyncs ==
  /\ Begin("sputc", 1)
  /\ putOn /\ Room = 0
  /\ Continue("select", Fresh(1))
  /\ UNCHANGED <<areaVars, stmo, chanVars>>

OverflowDisabled ==
  /\ Begin("sputc", 1)
  /\ ~putOn
  /\ End("eof", Fresh(1))
  /\ UNCHANGED <<areaVars, stmo, chanVars>>

Sputn(n) ==
  /\ Begin("sputn", n)
  /\ Continue("copy", Fresh(n))
  /\ UNCHANGED <<areaVars, stmo, chanVars>>

XsputnFits ==
  /\ ppc = "copy"
  /\ Len(rest) <= Room
  /\ Store(rest)
  /\ End("ok", <<>>)
  /\ UNCHANGED <<putOn, stmo, pop, handed, chanVars>>

\* Slip: after filling the area xsputn starts over with all of s.
XsputnRestarts ==
  /\ ppc = "copy"
  /\ Len(rest) > Room
  /\ Store(Take(rest, Room))
  /\ IF putOn THEN Continue("select", rest) ELSE End("eof", rest)
  /\ UNCHANGED <<putOn, stmo, pop, handed, chanVars>>

\* Fill the area, then overflow(): eof if writing is shut down, else sync.
XsputnFills ==
  /\ ppc = "copy"
  /\ Len(rest) > Room
  /\ Store(Take(rest, Room))
  /\ IF putOn THEN Continue("select", Drop(rest, Room))
              ELSE End("eof", Drop(rest, Room))
  /\ UNCHANGED <<putOn, stmo, pop, handed, chanVars>>

\* Slip: a single buffered character is taken for an empty area.
SyncSkipsLast ==
  /\ Begin("sync", 0)
  /\ IF Len(put) <= W THEN End("ok", <<>>) ELSE Continue("select", <<>>)
  /\ UNCHANGED <<areaVars, stmo, chanVars>>

Sync ==
  /\ Begin("sync", 0)
  /\ IF put = <<>> THEN End("ok", <<>>) ELSE Continue("select", <<>>)
  /\ UNCHANGED <<areaVars, stmo, chanVars>>

-----------------------------------------------------------------------------
(* sync's call of write: the timeout, the loop of ::write, the two ways out.*)

\* sync passes pptr() - pbase(), a number of characters, as a byte count.
WriteLen == Len(put) \div W

WriteReady ==
  /\ ppc = "select"
  /\ stmo = -1 \/ Len(chan) < ChanCap
  /\ ppc' = "write"
  /\ UNCHANGED <<areaVars, stmo, pop, rest, wlen, presult, handed, refused,
                 chanVars>>

\* is_writeready returned 0, or select itself failed.
WriteTimesOut ==
  /\ ppc = "select"
  /\ stmo # -1 /\ Len(chan) = ChanCap
  /\ End("timeout", rest)
  /\ UNCHANGED <<areaVars, stmo, pop, handed, chanVars>>

SelectFails ==
  /\ ppc = "select"
  /\ stmo # -1
  /\ End("error", rest)
  /\ UNCHANGED <<areaVars, stmo, pop, handed, chanVars>>

\* Slip: pbuf is not advanced by wlen (the bug NEWS reports for 1.12.11).
ChunkNotAdvanced(k) == SubSeq(put, 1, k)

\* The k bytes at pbuf + wlen.
Chunk(k) == SubSeq(put, wlen + 1, wlen + k)

\* Slip: ::write is called only when the kernel has room for the whole rest.
WriteWhole(k) ==
  /\ ppc = "write"
  /\ k = WriteLen - wlen /\ k > 0
  /\ Len(chan) + k <= ChanCap
  /\ wire' = wire \o Chunk(k)
  /\ chan' = chan \o Chunk(k)
  /\ wlen' = wlen + k
  /\ UNCHANGED <<areaVars, stmo, ppc, pop, rest, presult, handed, refused, fin>>

\* ::write takes k bytes: fewer than asked for if a signal interrupts it, if
\* the socket is non-blocking or if the kernel has room for no more.
WriteSome(k) ==
  /\ ppc = "write"
  /\ k <= WriteLen - wlen
  /\ Len(chan) + k <= ChanCap
  /\ wire' = wire \o Chunk(k)
  /\ chan' = chan \o Chunk(k)
  /\ wlen' = wlen + k
  /\ UNCHANGED <<areaVars, stmo, ppc, pop, rest, presult, handed, refused, fin>>

\* Slip: the characters are not moved to the front.
UnwrittenNotMoved == put

\* sync's handler of the int that write throws: the unwritten characters go
\* to the front of the area.
Unwritten == IF wlen = 0 THEN put ELSE Drop(put, wlen * W)

WriteFails ==
  /\ ppc = "write"
  /\ wlen < WriteLen
  /\ put' = Unwritten
  /\ End("error", rest)
  /\ UNCHANGED <<putOn, stmo, pop, handed, accepted, chanVars>>

\* sync empties the area and returns 0 to the call that needed it: overflow
\* then stores its character and xsputn goes on with what is left.
SyncReturns ==
  /\ ppc = "write"
  /\ wlen = WriteLen
  /\ \/ pop = "sync" /\ put' = <<>> /\ End("ok", <<>>) /\ UNCHANGED accepted
     \/ /\ pop = "sputc"
        /\ put' = rest
        /\ accepted' = accepted \o rest
        /\ End("ok", <<>>)
     \/ pop = "sputn" /\ put' = <<>> /\ Continue("copy", rest)
        /\ UNCHANGED accepted
  /\ UNCHANGED <<putOn, stmo, pop, handed, chanVars>>

-----------------------------------------------------------------------------
(* sendtimeout, shutdown(shut_write) and the peer.                         *)

SendTimeout(wp) ==
  /\ ppc = "idle"
  /\ stmo' = IF wp < 0 THEN -1 ELSE wp
  /\ UNCHANGED <<areaVars, callVars, handed, chanVars>>

\* Slip: the put area survives shutdown(shut_write).
ShutWriteKeepsArea ==
  /\ Begin("shutdown", 0)
  /\ \/ fin' = TRUE /\ End("ok", <<>>)
     \/ End("error", <<>>) /\ UNCHANGED fin
  /\ UNCHANGED <<areaVars, stmo, wire, chan>>

\* The put area goes first, with what it holds; ::shutdown may then fail.
ShutWrite ==
  /\ Begin("shutdown", 0)
  /\ putOn' = FALSE
  /\ put' = <<>>
  /\ \/ fin' = TRUE /\ End("ok", <<>>)
     \/ End("error", <<>>) /\ UNCHANGED fin
  /\ UNCHANGED <<stmo, accepted, wire, chan>>

PeerReads(k) ==
  /\ k <= Len(chan)
  /\ chan' = Drop(chan, k)
  /\ UNCHANGED <<areaVars, stmo, callVars, handed, wire, fin>>

-----------------------------------------------------------------------------
\* What the calling thread does on its own once a call has started.
PutStep ==
  \/ XsputnFits \/ XsputnFills
  \/ WriteReady \/ WriteTimesOut
  \/ \E k \in 1 .. ChanCap : WriteSome(k)
  \/ SyncReturns

PutFault == SelectFails \/ WriteFails

PutCall ==
  \/ SputcStores \/ OverflowSyncs \/ OverflowDisabled
  \/ \E n \in 1 .. MaxPut : Sputn(n)
  \/ Sync \/ ShutWrite
  \/ \E wp \in Waits : SendTimeout(wp)

PutNext ==
  \/ PutStep \/ PutFault \/ PutCall
  \/ \E k \in 1 .. ChanCap : PeerReads(k)

PutSpec == PutInit /\ [][PutNext]_putVars

\* The thread runs, select and ::write return when the kernel has room.
ThreadRuns == WF_putVars(PutStep)
\* The peer goes on reading.
PeerRuns == WF_putVars(\E k \in 1 .. ChanCap : PeerReads(k))

PutFairSpec == PutSpec /\ ThreadRuns /\ PeerRuns
PutThreadSpec == PutSpec /\ ThreadRuns
-----------------------------------------------------------------------------
Bytes == Nat \ {0}

PutTypeOK ==
  /\ putOn \in BOOLEAN
  /\ put \in Seq(Bytes)
  /\ stmo \in Nat \cup {-1}
  /\ ppc \in {"idle", "copy", "select", "write"}
  /\ pop \in {"none", "sputc", "sputn", "sync", "shutdown"}
  /\ rest \in Seq(Bytes)
  /\ wlen \in Nat
  /\ presult \in {"none", "ok", "eof", "timeout", "error"}
  /\ handed \in Nat
  /\ accepted \in Seq(Bytes)
  /\ refused \in SUBSET Bytes
  /\ wire \in Seq(Bytes)
  /\ chan \in Seq(Bytes)
  /\ fin \in BOOLEAN

\* The bytes of the put area that ::write has not taken.
Unsent == IF ppc = "write" THEN Drop(put, wlen) ELSE put

\* What has gone to the kernel, followed by what is still in the put area, is
\* what the callers stored, byte for byte: over partial writes, errors in the
\* middle of a flush, timeouts and retries nothing is lost, repeated or
\* reordered.  shutdown(shut_write) may cut the stream short, never alter it.
StreamIntegrity ==
  IF putOn THEN wire \o Unsent = accepted
           ELSE IsPrefix(wire, accepted)

\* No call stores a character beyond epptr(), and write is never asked for
\* bytes beyond pptr().
PutInBounds ==
  /\ Len(put) <= (IF putOn THEN BufSize * W ELSE 0)
  /\ wlen <= Len(put)

\* Every byte a caller handed over is in the stream exactly once, or belongs
\* to a call that threw or returned a short count, or is still to be copied by
\* the call in progress; the stream keeps the order of the calls.
EveryByteAccounted ==
  /\ 1 .. handed = ToSet(accepted) \cup refused \cup ToSet(rest)
  /\ \A i, j \in DOMAIN accepted : i < j => accepted[i] < accepted[j]
  /\ ToSet(accepted) \cap (refused \cup ToSet(rest)) = {}

\* When sync returns 0 everything stored so far is in the kernel.
SyncFlushes ==
  pop = "sync" /\ presult = "ok" /\ putOn => wire = accepted

\* Once ::shutdown has closed the direction no call reaches ::write again.
SilentAfterShutdown == [][fin => wire' = wire]_putVars

\* Every output call returns or throws, as long as the peer reads.
CallsReturn == ppc # "idle" ~> ppc = "idle"

\* With a send timeout set, an output call returns even if the peer stops
\* reading (socket++.texi:522).
SendTimeoutBounds == ppc # "idle" /\ stmo # -1 ~> ppc = "idle"
=============================================================================
