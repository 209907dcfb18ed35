----------------------------- MODULE SockStream -----------------------------
(***************************************************************************)
(* Two sockbufs at the ends of one connection: the put half of the writing *)
(* one and the get half of the reading one, joined by the kernel's channel.*)
(* The environment action of each half (the peer that reads, the peer that *)
(* sends) is the other half here.  The two programs interleave freely.     *)
(***************************************************************************)
EXTENDS Integers, Sequences, SequencesExt

CONSTANTS BufSize, W, ChanCap, MaxBytes, MaxPut, MaxGet, Waits

ASSUME StreamConstants ==
  /\ BufSize \in Nat \ {0}
  /\ W \in Nat \ {0}
  /\ ChanCap \in Nat \ {0}
  /\ MaxBytes \in Nat
  /\ MaxPut \in Nat
  /\ MaxGet \in Nat
  /\ Waits \subseteq Int

VARIABLES
  putOn, put, stmo, ppc, pop, rest, wlen, presult, handed, accepted, refused,
  getOn, get, rtmo, oob, gpc, gop, want, gresult, delivered, taken, mark,
  wire, chan, fin

Writer == INSTANCE SockBufPut
Reader == INSTANCE SockBufGet WITH MaxWire <- MaxBytes

writerVars == <<putOn, put, stmo, ppc, pop, rest, wlen, presult, handed,
                accepted, refused>>
readerVars == <<getOn, get, rtmo, oob, gpc, gop, want, gresult, delivered,
                taken>>
vars == <<writerVars, readerVars, mark, wire, chan, fin>>

Init == Writer!PutInit /\ Reader!GetInit

WriterActs ==
  /\ Writer!PutStep \/ Writer!PutFault \/ Writer!PutCall
  /\ UNCHANGED <<readerVars, mark>>

\* send(buf, 1, msg_oob) of the writer, which leaves the put area alone.
WriterSendsUrgent ==
  /\ ppc = "idle"
  /\ Reader!PeerSendsUrgent
  /\ UNCHANGED writerVars

ReaderActs ==
  /\ Reader!GetStep \/ Reader!ReadFails \/ Reader!GetCall
  /\ UNCHANGED writerVars

Next == WriterActs \/ WriterSendsUrgent \/ ReaderActs

Spec == Init /\ [][Next]_vars
-----------------------------------------------------------------------------
\* The pair refines the byte stream: a tail of the put area that
\* shutdown(shut_write) drops is cut from the stream.
Carried == IF putOn THEN accepted ELSE wire
Stream == INSTANCE ByteStream WITH
            sent <- Carried, received <- delivered, open <- putOn
RefinesByteStream == Stream!StreamSpec

\* A flush that returned has put everything stored so far where the reader
\* gets it: what the reader has, holds and can read is all of it.
FlushedIsReadable ==
  pop = "sync" /\ presult = "ok" /\ putOn /\ getOn =>
    delivered \o get \o chan = accepted

\* The characters between pbase() and pptr() are the unflushed ones, and those
\* between gptr() and egptr() the unread ones (sockstream.cpp:35 and 44), for a
\* character type of any width: the reader gets nothing but what was stored.
WideStream == IsPrefix(delivered, accepted)
=============================================================================
