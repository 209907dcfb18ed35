---------------------------- MODULE StringFrames ----------------------------
(***************************************************************************)
(* The transfers of basic_sockbuf that go past its areas                   *)
(* (src/socket++/sockstream.cpp:478-711): the plain ones (write, send,     *)
(* sendto, recv, recvfrom) and the strings and wide strings, which send    *)
(* puts behind a header with their length and recv takes off again.        *)
(*                                                                         *)
(* Two programs at the ends of a connection follow one protocol: the i-th  *)
(* thing sent, and the i-th received, is of kind Protocol[i].  A byte is   *)
(* <<i, part, k>>: the k-th byte of the "head" or the "data" of the i-th.  *)
(* The system calls of a transfer (select, ::send or ::recv of the header, *)
(* ::send or ::recv of the data) interleave with the other end's.          *)
(***************************************************************************)
EXTENDS ByteSeqs, SequencesExt

CONSTANTS
  Protocol,   \* the kind of each transfer: "plain", "string" or "wstring"
  Lengths,    \* the lengths a string can have, in characters
  PlainLen,   \* the number of bytes of every plain transfer
  HeaderSize, \* sizeof(unsigned long)
  WCharSize,  \* sizeof(wchar_t)
  ChanCap,    \* the bytes the kernel holds between the two ends
  SendWait,   \* rep->stmo of the sender, -1 for none
  RecvWait    \* rep->rtmo of the receiver, -1 for none

Kinds == {"plain", "string", "wstring"}

ASSUME FrameConstants ==
  /\ Protocol \in Seq(Kinds)
  /\ Lengths \subseteq Nat
  /\ PlainLen \in Nat /\ HeaderSize \in Nat \ {0} /\ WCharSize \in Nat \ {0}
  /\ ChanCap \in Nat \ {0}
  /\ SendWait \in Int /\ RecvWait \in Int

VARIABLES
  spc,        \* where the send call in progress stands
  sizes,      \* the data bytes of each transfer begun, in order
  wlen,       \* the data bytes ::send has taken in the last call
  sresult,    \* how the last send call ended
  chan,       \* the bytes in the kernel
  fin,        \* the sending program has closed its end
  rpc,        \* where the recv call in progress stands
  rsize,      \* the size the recv call in progress asks for
  got,        \* what each recv call gave: the size asked for and the bytes
  rresult,    \* how the last recv call ended
  split       \* history: a ::send took a header only in part

sendVars == <<spc, sizes, wlen, sresult>>
recvVars == <<rpc, rsize, got, rresult>>
frameVars == <<sendVars, chan, fin, recvVars, split>>

FramesInit ==
  /\ spc = "idle" /\ sizes = <<>> /\ wlen = 0 /\ sresult = "none"
  /\ chan = <<>> /\ fin = FALSE
  /\ rpc = "idle" /\ rsize = 0 /\ got = <<>> /\ rresult = "none"
  /\ split = FALSE

Part(i, part, n) == [k \in 1..n |-> <<i, part, k>>]
DataOf(i) == Part(i, "data", sizes[i])
HeadOf(i) == Part(i, "head", HeaderSize)

-----------------------------------------------------------------------------
(* Sending.                                                                *)

\* The bytes that a transfer of kind k and n characters has to carry.
DataSize(k, n) ==
  CASE k = "plain" -> PlainLen
    [] k = "string" -> n
    [] k = "wstring" -> n * WCharSize

AfterWait(kind) == IF kind = "plain" THEN "data" ELSE "head"

\* A program whose call threw a count gives up: it cannot tell what the other
\* end has of the frame.  One whose call timed out may call again.
Send(n) ==
  /\ spc = "idle" /\ ~fin
  /\ sresult \notin {"thrown"}
  /\ Len(sizes) < Len(Protocol)
  /\ sizes' = Append(sizes, DataSize(Protocol[Len(sizes) + 1], n))
  /\ wlen' = 0
  /\ sresult' = "none"
  /\ spc' = IF SendWait # -1 THEN "select"
            ELSE AfterWait(Protocol[Len(sizes) + 1])
  /\ UNCHANGED <<chan, fin, recvVars, split>>

Current == Len(sizes)

SendReady ==
  /\ spc = "select"
  /\ Len(chan) < ChanCap
  /\ spc' = AfterWait(Protocol[Current])
  /\ UNCHANGED <<sizes, wlen, sresult, chan, fin, recvVars, split>>

\* is_writeready ran out of time: nothing of the transfer has been sent.
SendTimesOut ==
  /\ spc = "select"
  /\ Len(chan) = ChanCap
  /\ spc' = "idle" /\ sresult' = "timeout"
  /\ sizes' = Front(sizes)
  /\ UNCHANGED <<wlen, chan, fin, recvVars, split>>

\* What the header says: the length of the data in bytes.
Announced(i) == sizes[i]

\* One ::send of the header; whether it took all of it is not looked at.
SendHeader ==
  /\ spc = "head"
  /\ \E n \in 1..HeaderSize :
       /\ Len(chan) + n <= ChanCap
       /\ chan' = chan \o Take(HeadOf(Current), n)
       /\ split' = (split \/ n < HeaderSize)
  /\ spc' = "data"
  /\ UNCHANGED <<sizes, wlen, sresult, fin, recvVars>>

\* Slip: the rest is sent from the start of the data again.
NextDataFromStart(n) == Take(DataOf(Current), n)

\* pbuf + wlen, for n bytes.
NextData(n) == SubSeq(DataOf(Current), wlen + 1, wlen + n)

\* One ::send of the data loop; a short count goes round the loop again.
SendData ==
  /\ spc = "data" /\ wlen < sizes[Current]
  /\ \E n \in 1..(sizes[Current] - wlen) :
       /\ Len(chan) + n <= ChanCap
       /\ chan' = chan \o NextData(n)
       /\ wlen' = wlen + n
  /\ UNCHANGED <<spc, sizes, sresult, fin, recvVars, split>>

SendReturns ==
  /\ spc = "data" /\ wlen = sizes[Current]
  /\ spc' = "idle" /\ sresult' = "ok"
  /\ UNCHANGED <<sizes, wlen, chan, fin, recvVars, split>>

\* A ::send of the header or the data that fails: the call throws wlen.
SendFails ==
  /\ spc \in {"head", "data"}
  /\ spc = "data" => wlen < sizes[Current]
  /\ spc' = "idle" /\ sresult' = "thrown"
  /\ UNCHANGED <<sizes, wlen, chan, fin, recvVars, split>>

SenderCloses ==
  /\ spc = "idle" /\ ~fin
  /\ fin' = TRUE
  /\ UNCHANGED <<sendVars, chan, recvVars, split>>

-----------------------------------------------------------------------------
(* Receiving.                                                              *)

Readable == chan # <<>> \/ fin

RecvBegins(kind) ==
  /\ rsize' = IF kind = "plain" THEN PlainLen ELSE 0
  /\ rresult' = "none"

\* The program follows the protocol as long as every call gave it the whole
\* of what it asked for.
Recv ==
  /\ rpc = "idle" /\ rresult \in {"none", "ok", "timeout"}
  /\ Len(got) < Len(Protocol)
  /\ RecvBegins(Protocol[Len(got) + 1])
  /\ rpc' = IF RecvWait # -1 THEN "select"
            ELSE AfterWait(Protocol[Len(got) + 1])
  /\ UNCHANGED <<sendVars, chan, fin, got, split>>

RecvReady ==
  /\ rpc = "select" /\ Readable
  /\ rpc' = AfterWait(Protocol[Len(got) + 1])
  /\ UNCHANGED <<sendVars, chan, fin, rsize, got, rresult, split>>

\* is_readready ran out of time (or atmark() made recv throw sockoob):
\* nothing has been taken from the kernel.
RecvTimesOut ==
  /\ rpc = "select" /\ ~Readable
  /\ rpc' = "idle" /\ rresult' = "timeout"
  /\ UNCHANGED <<sendVars, chan, fin, rsize, got, split>>

RecvEnds(result) == rpc' = "idle" /\ rresult' = result

\* The size that n bytes, taken for a header, stand for.
SizesIn(bytes) ==
  IF \E i \in DOMAIN sizes : bytes = HeadOf(i)
  THEN {Announced(i) : i \in {j \in DOMAIN sizes : bytes = HeadOf(j)}}
  ELSE {DataSize(k, n) : k \in Kinds, n \in Lengths}

\* Slip: a header that came in part is waited for, but what came is dropped.
RecvHeaderAgain ==
  /\ rpc = "head"
  /\ \E n \in 0..HeaderSize :
       /\ IF n = 0 THEN fin /\ chan = <<>> ELSE n <= Len(chan)
       /\ chan' = Drop(chan, n)
       /\ CASE n = 0 -> RecvEnds("eof") /\ UNCHANGED rsize
            [] n \in 1..(HeaderSize - 1) -> UNCHANGED <<rpc, rsize, rresult>>
            [] n = HeaderSize -> /\ rsize' \in SizesIn(Take(chan, n))
                                 /\ rpc' = "data" /\ UNCHANGED rresult
  /\ UNCHANGED <<sendVars, fin, got, split>>

\* One ::recv of the header: nothing is the end, a part of it is an error.
RecvHeader ==
  /\ rpc = "head"
  /\ \E n \in 0..HeaderSize :
       /\ IF n = 0 THEN fin /\ chan = <<>> ELSE n <= Len(chan)
       /\ chan' = Drop(chan, n)
       /\ CASE n = 0 -> RecvEnds("eof") /\ UNCHANGED rsize
            [] n \in 1..(HeaderSize - 1) -> RecvEnds("thrown") /\ UNCHANGED rsize
            [] n = HeaderSize -> /\ rsize' \in SizesIn(Take(chan, n))
                                 /\ rpc' = "data" /\ UNCHANGED rresult
  /\ UNCHANGED <<sendVars, fin, got, split>>

\* One ::recv of the data, however much of it comes: the call returns the
\* count, which the caller of recv(string) can hold against buf.size().
RecvData ==
  /\ rpc = "data"
  /\ \E n \in 0..rsize :
       /\ IF n = 0 THEN rsize = 0 \/ (fin /\ chan = <<>>) ELSE n <= Len(chan)
       /\ chan' = Drop(chan, n)
       /\ got' = Append(got, [size |-> rsize, bytes |-> Take(chan, n)])
       /\ RecvEnds(IF n = rsize THEN "ok" ELSE "short")
  /\ UNCHANGED <<sendVars, fin, rsize, split>>

\* A ::recv that fails: the strings' recv throws for the header but returns
\* -1 for the data; the plain ones throw.
RecvFails ==
  /\ rpc \in {"head", "data"}
  /\ RecvEnds(IF rpc = "data" /\ Protocol[Len(got) + 1] # "plain"
              THEN "minus one" ELSE "thrown")
  /\ UNCHANGED <<sendVars, chan, fin, rsize, got, split>>

-----------------------------------------------------------------------------
SendStep == SendReady \/ SendHeader \/ SendData \/ SendReturns
RecvStep == RecvReady \/ RecvHeader \/ RecvData

FramesNext ==
  \/ \E n \in Lengths : Send(n)
  \/ SendStep \/ SendTimesOut \/ SendFails \/ SenderCloses
  \/ Recv \/ RecvStep \/ RecvTimesOut \/ RecvFails

\* A thread that is inside a call and can go on does; the receiving program
\* makes its next call.
FramesSpec ==
  /\ FramesInit /\ [][FramesNext]_frameVars
  /\ WF_frameVars(SendStep) /\ WF_frameVars(RecvStep) /\ WF_frameVars(Recv)
-----------------------------------------------------------------------------
Whole(g) == Len(g.bytes) = g.size

\* The calls that gave the whole of what they asked for, up to the first that
\* did not.
Given == {i \in DOMAIN got : \A k \in 1..i : Whole(got[k])}
Told == rresult \in {"eof", "thrown", "short", "minus one"}

\* The pair implements a queue of messages: what recv gives as whole are the
\* strings the other program sent, each once and in order, however ::send and
\* ::recv cut them up and wherever a call times out, fails or comes short,
\* until a header is sent in part, which send does not notice.
Queue == INSTANCE MessageQueue WITH
           offered <- [i \in DOMAIN sizes |-> DataOf(i)],
           taken <- [i \in Given |-> got[i].bytes],
           broken <- split
RefinesMessageQueue == Queue!QueueSpec

\* When every call of the sender has returned without an error, the receiver
\* gets everything or one of its calls tells it that it did not: the two never
\* wait for each other with a frame half read.
FramesArrive ==
  (Len(sizes) = Len(Protocol) /\ sresult = "ok" /\ ~split)
    ~> (Len(got) = Len(Protocol) \/ Told)

\* Upon error, send throws the number of bytes written so far
\* (sockstream.cpp:616): after it threw 0 none of the frame has been sent.
ThrownCountIsWritten ==
  sresult = "thrown" /\ wlen = 0 =>
    \A k \in DOMAIN chan : chan[k][1] # Current
=============================================================================
