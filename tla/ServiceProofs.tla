--------------------------- MODULE ServiceProofs ---------------------------
(***************************************************************************)
(* What the services on top of the streams promise, for every value of the *)
(* constants:                                                              *)
(*   - the echo server implements a byte stream from each client to itself,*)
(*     for every set of clients, line length, buffer and connection;       *)
(*   - brackets restore the options of a socket, for every number of       *)
(*     callers and of brackets they nest;                                  *)
(*   - the smtp client stays in step with its server, for every message,   *)
(*     and the text of one arrives whole, for every cut into pieces;       *)
(*   - what an ftp operation returns is the server's last word on it, and a*)
(*     file stored is stored whole, for every length of session and file.  *)
(***************************************************************************)
EXTENDS EchoService, SockOptions, SmtpClient, FtpClient, ByteSeqProofs,
  FiniteSetTheorems

-----------------------------------------------------------------------------
(* The echo service.                                                       *)

Bytes == Seq(Nat)

EchoShape ==
  /\ backlog \in Seq(Clients) /\ served \in SUBSET Clients
  /\ \A c, d \in served : c = d
  /\ ebuf \in Bytes
  /\ said \in [Clients -> Bytes] /\ heard \in [Clients -> Bytes]
  /\ up \in [Clients -> Bytes] /\ down \in [Clients -> Bytes]

\* Before the first accept nothing has come back, and between a write and the
\* next read serve() holds nothing.
Quiet ==
  /\ spc \in {"start", "bound", "accept"} =>
       /\ served = {} /\ ebuf = <<>>
       /\ \A c \in Clients : /\ heard[c] = <<>> /\ down[c] = <<>>
                             /\ up[c] = said[c]
  /\ spc = "read" => ebuf = <<>>

\* Where the bytes of the client served are, from those it has read back to
\* those the server has not read.
Conserved ==
  \A c \in served : said[c] = (heard[c] \o down[c]) \o (ebuf \o up[c])

\* Also when the server has gone, what lies in `down' goes on from what the
\* client has read.
BackIsPrefix ==
  \A c \in Clients :
    \E rest \in Bytes : said[c] = (heard[c] \o down[c]) \o rest

EchoInv == EchoShape /\ Quiet /\ Conserved /\ BackIsPrefix

LEMMA EchoInitInv == EchoInit => EchoInv
<1>. SUFFICES ASSUME EchoInit PROVE EchoInv
  OBVIOUS
<1>0. <<>> \in Bytes
  BY DEF Bytes
<1>1. EchoShape
  BY <1>0 DEF EchoInit, EchoShape
<1>2. Quiet /\ Conserved
  BY DEF EchoInit, Quiet, Conserved
<1>3. (<<>> \o <<>>) \o <<>> = <<>>
  OBVIOUS
<1>4. BackIsPrefix
  BY <1>0, <1>3 DEF EchoInit, BackIsPrefix
<1>. QED  BY <1>1, <1>2, <1>4 DEF EchoInv

-----------------------------------------------------------------------------
(* Facts about one transfer.                                               *)

LEMMA JoinInBytes ==
  \A s, t \in Bytes : s \o t \in Bytes
BY DEF Bytes

LEMMA AssocIn ==
  ASSUME NEW S
  PROVE  \A a, b, c \in Seq(S) : (a \o b) \o c = a \o (b \o c)
BY JoinAssoc

LEMMA BytesAssoc ==
  \A a, b, c \in Bytes : (a \o b) \o c = a \o (b \o c)
BY AssocIn DEF Bytes

LEMMA CutInBytes ==
  ASSUME NEW s \in Bytes, NEW n \in Nat, n <= Len(s)
  PROVE  /\ Take(s, n) \in Bytes /\ Drop(s, n) \in Bytes
         /\ Take(s, n) \o Drop(s, n) = s
<1>0. n \in 0 .. Len(s)
  BY LenProperties DEF Bytes
<1>. QED  BY <1>0, TakeProps, DropProps, TakeDrop DEF Bytes

LEMMA StrictlyLonger ==
  ASSUME NEW s \in Bytes, NEW t \in Bytes, Len(t) > 0
  PROVE  IsStrictPrefix(s, s \o t)
<1>1. IsPrefix(s, s \o t)
  BY ConcatHasPrefix DEF Bytes
<1>2. Len(s \o t) = Len(s) + Len(t) /\ Len(s) \in Nat /\ Len(t) \in Nat
  BY ConcatProperties, LenProperties DEF Bytes
<1>3. s # s \o t
  BY <1>2
<1>. QED  BY <1>1, <1>3 DEF IsStrictPrefix

-----------------------------------------------------------------------------
(* The steps that move no bytes.                                           *)

StreamsKept == UNCHANGED <<said, heard, up, down>>

LEMMA BackKept ==
  ASSUME BackIsPrefix, StreamsKept
  PROVE  BackIsPrefix'
BY DEF BackIsPrefix, StreamsKept

LEMMA ServerStays ==
  ASSUME EchoInv, StreamsKept, UNCHANGED <<served, ebuf>>,
         backlog' \in Seq(Clients),
         \/ spc' = spc
         \/ spc' \in {"bound", "accept"} /\ spc \in {"start", "bound", "accept"}
         \/ spc' = "sleep"
  PROVE  EchoInv'
<1>1. EchoShape'
  BY DEF EchoInv, EchoShape, StreamsKept
<1>2. Quiet'
  BY DEF EchoInv, Quiet, StreamsKept
<1>3. Conserved'
  BY DEF EchoInv, Conserved, StreamsKept
<1>4. BackIsPrefix'
  BY BackKept DEF EchoInv
<1>. QED  BY <1>1, <1>2, <1>3, <1>4 DEF EchoInv

\* When the server goes, what it held is lost; what came back stays.
LEMMA ServerGone ==
  ASSUME EchoInv, StreamsKept, Gone
  PROVE  EchoInv'
<1>0. <<>> \in Bytes /\ <<>> \in Seq(Clients)
  BY DEF Bytes
<1>1. EchoShape'
  BY <1>0 DEF EchoInv, EchoShape, StreamsKept, Gone
<1>2. Quiet' /\ Conserved'
  BY DEF Quiet, Conserved, Gone
<1>3. BackIsPrefix'
  BY BackKept DEF EchoInv
<1>. QED  BY <1>1, <1>2, <1>3 DEF EchoInv

LEMMA FirstAccepted ==
  ASSUME EchoInv, ServerAccepts
  PROVE  EchoInv'
<1>. DEFINE c == Head(backlog)
<1>0. c \in Clients /\ Tail(backlog) \in Seq(Clients)
  BY HeadTailProperties DEF EchoInv, EchoShape, ServerAccepts
<1>1. EchoShape'
  BY <1>0 DEF EchoInv, EchoShape, ServerAccepts, echoClients
<1>2. Quiet'
  BY DEF EchoInv, ServerAccepts, Quiet
<1>3. Conserved'
  <2>1. /\ heard[c] = <<>> /\ down[c] = <<>> /\ ebuf = <<>> /\ up[c] = said[c]
        /\ said[c] \in Bytes
    BY <1>0 DEF EchoInv, EchoShape, Quiet, ServerAccepts
  <2>2. said[c] = (<<>> \o <<>>) \o (<<>> \o said[c])
    BY <2>1, ConcatEmptySeq DEF Bytes
  <2>3. said[c] = (heard[c] \o down[c]) \o (ebuf \o up[c])
    BY <2>1, <2>2
  <2>. QED  BY <2>3 DEF ServerAccepts, Conserved, echoClients
<1>4. BackIsPrefix'
  BY BackKept DEF EchoInv, ServerAccepts, echoClients, StreamsKept
<1>. QED  BY <1>1, <1>2, <1>3, <1>4 DEF EchoInv

-----------------------------------------------------------------------------
(* The steps that move bytes.                                              *)

\* From the connection into serve()'s buffer.
LEMMA ReadsKeep ==
  ASSUME EchoInv, NEW c \in Clients, NEW n \in 1 .. EchoLen, ServerReads(c, n)
  PROVE  EchoInv'
<1>0. n \in Nat /\ n <= Len(up[c]) /\ c \in served /\ ebuf = <<>>
  BY DEF ServerReads, EchoInv, Quiet
<1>1. up[c] \in Bytes /\ heard[c] \in Bytes /\ down[c] \in Bytes
  BY DEF EchoInv, EchoShape
<1>2. Take(up[c], n) \in Bytes /\ Drop(up[c], n) \in Bytes
  BY <1>0, <1>1, CutInBytes
<1>3. Take(up[c], n) \o Drop(up[c], n) = <<>> \o up[c]
  <2>1. Take(up[c], n) \o Drop(up[c], n) = up[c]
    BY <1>0, <1>1, CutInBytes
  <2>2. <<>> \o up[c] = up[c]
    BY <1>1, ConcatEmptySeq DEF Bytes
  <2>. QED  BY <2>1, <2>2
<1>4. EchoShape'
  BY <1>2 DEF EchoInv, EchoShape, ServerReads, echoClients
<1>5. Quiet'
  BY DEF ServerReads, Quiet
<1>6. Conserved'
  <2>1. said[c] = (heard[c] \o down[c]) \o (ebuf \o up[c])
    BY <1>0 DEF EchoInv, Conserved
  <2>2. /\ up'[c] = Drop(up[c], n) /\ ebuf' = Take(up[c], n)
    BY DEF ServerReads, EchoInv, EchoShape
  <2>3. said[c] = (heard[c] \o down[c]) \o (ebuf' \o up'[c])
    BY <1>0, <1>3, <2>1, <2>2, Zenon
  <2>4. \A d \in served : d = c
    BY <1>0 DEF EchoInv, EchoShape
  <2>. QED  BY <2>3, <2>4 DEF ServerReads, Conserved, echoClients
<1>7. BackIsPrefix'
  BY DEF EchoInv, BackIsPrefix, ServerReads, echoClients
<1>. QED  BY <1>4, <1>5, <1>6, <1>7 DEF EchoInv

\* From there back into the connection.
LEMMA WritesKeep ==
  ASSUME EchoInv, NEW c \in Clients, NEW n \in 1 .. EchoLen, ServerWrites(c, n)
  PROVE  EchoInv'
<1>0. n \in Nat /\ n <= Len(ebuf) /\ c \in served /\ spc = "write"
  BY DEF ServerWrites
<1>1. /\ ebuf \in Bytes /\ up[c] \in Bytes /\ down[c] \in Bytes
      /\ heard[c] \in Bytes
  BY DEF EchoInv, EchoShape
<1>. DEFINE t == Take(ebuf, n)
            r == Drop(ebuf, n)
<1>2. t \in Bytes /\ r \in Bytes /\ t \o r = ebuf
  BY <1>0, <1>1, CutInBytes
<1>3. /\ ebuf' = r /\ down'[c] = down[c] \o t
      /\ \A d \in Clients : d # c => down'[d] = down[d]
  BY DEF ServerWrites, Unechoed, EchoInv, EchoShape
<1>. HIDE DEF t, r
<1>4. down[c] \o t \in Bytes
  BY <1>1, <1>2, JoinInBytes
<1>5. PICK back \in Bytes : back = heard[c] \o down[c]
  BY <1>1, JoinInBytes
<1>6. said[c] = (heard[c] \o down'[c]) \o (ebuf' \o up[c])
  <2>1. said[c] = back \o (ebuf \o up[c])
    BY <1>0, <1>5 DEF EchoInv, Conserved
  <2>2. PICK ahead \in Bytes : ahead = r \o up[c]
    BY <1>1, <1>2, JoinInBytes
  <2>3. (t \o r) \o up[c] = t \o (r \o up[c])
    <3>1. \A a, b \in Bytes : (t \o a) \o b = t \o (a \o b)
      BY <1>2, BytesAssoc
    <3>. QED  BY <1>1, <1>2, <3>1, Zenon
  <2>4. ebuf \o up[c] = t \o ahead
    BY <1>2, <2>2, <2>3
  <2>5. back \o (t \o ahead) = (back \o t) \o ahead
    BY <1>2, <1>5, <2>2, BytesAssoc
  <2>6. (heard[c] \o down[c]) \o t = heard[c] \o (down[c] \o t)
    <3>1. \A a, b \in Bytes : (a \o b) \o t = a \o (b \o t)
      BY <1>2, BytesAssoc
    <3>. QED  BY <1>1, <3>1, Zenon
  <2>7. back \o t = heard[c] \o down'[c]
    BY <1>3, <1>5, <2>6
  <2>8. said[c] = (heard[c] \o down'[c]) \o ahead
    BY <2>1, <2>4, <2>5, <2>7
  <2>. QED  BY <1>3, <2>2, <2>8
<1>7. EchoShape'
  BY <1>2, <1>4 DEF EchoInv, EchoShape, ServerWrites, Unechoed, echoClients, t, r
<1>8. Quiet'
  <2>1. spc' = "read" => n = Len(ebuf)
    BY DEF ServerWrites
  <2>2. n = Len(ebuf) => r = <<>>
    BY <1>1, DropEverything DEF Bytes, r
  <2>3. spc' \in {"read", "write"}
    BY DEF ServerWrites
  <2>. QED  BY <1>3, <2>1, <2>2, <2>3 DEF Quiet
<1>9. Conserved'
  <2>1. \A d \in served : d = c
    BY <1>0 DEF EchoInv, EchoShape
  <2>. QED  BY <1>6, <2>1 DEF ServerWrites, Conserved, echoClients
<1>10. BackIsPrefix'
  <2>1. r \o up[c] \in Bytes
    BY <1>1, <1>2, JoinInBytes
  <2>2. \E rest \in Bytes : said[c] = (heard[c] \o down'[c]) \o rest
    BY <1>3, <1>6, <2>1
  <2>. QED  BY <1>3, <2>2 DEF EchoInv, BackIsPrefix, ServerWrites, echoClients
<1>. QED  BY <1>7, <1>8, <1>9, <1>10 DEF EchoInv

\* A client sends more of a line.
LEMMA SaysMore ==
  ASSUME EchoInv, NEW c \in Clients, NEW n \in 1 .. Room, ClientWrites(c, n)
  PROVE  /\ EchoInv'
         /\ Promise!Says(c)
<1>. DEFINE m == [i \in 1 .. n |-> Len(said[c]) + i]
<1>1. /\ said[c] \in Bytes /\ up[c] \in Bytes /\ heard[c] \in Bytes
      /\ down[c] \in Bytes /\ ebuf \in Bytes
  BY DEF EchoInv, EchoShape
<1>2. n \in Nat /\ n > 0
  BY EchoConstants
<1>3. m \in Bytes /\ Len(m) = n
  <2>1. Len(said[c]) \in Nat
    BY <1>1, LenProperties DEF Bytes
  <2>2. \A i \in 1 .. n : Len(said[c]) + i \in Nat
    BY <1>2, <2>1
  <2>. QED  BY <1>2, <2>2 DEF Bytes
<1>4. /\ said' = [said EXCEPT ![c] = @ \o m] /\ up' = [up EXCEPT ![c] = @ \o m]
      /\ UNCHANGED <<heard, down, spc, backlog, served, ebuf>>
  BY DEF ClientWrites, echoServer
<1>. HIDE DEF m
<1>5. /\ said[c] \o m \in Bytes /\ up[c] \o m \in Bytes
  BY <1>1, <1>3, JoinInBytes
<1>6. /\ said'[c] = said[c] \o m /\ up'[c] = up[c] \o m
      /\ \A d \in Clients : d # c => said'[d] = said[d] /\ up'[d] = up[d]
  BY <1>4 DEF EchoInv, EchoShape
<1>7. EchoShape'
  BY <1>4, <1>5 DEF EchoInv, EchoShape
<1>8. Quiet'
  BY <1>4, <1>6 DEF EchoInv, Quiet
<1>9. Conserved'
  <2>. SUFFICES ASSUME NEW d \in served
                PROVE  said'[d] = (heard[d] \o down[d]) \o (ebuf \o up'[d])
    BY <1>4 DEF Conserved
  <2>1. d \in Clients /\ said[d] = (heard[d] \o down[d]) \o (ebuf \o up[d])
    BY DEF EchoInv, EchoShape, Conserved
  <2>2. CASE d # c
    BY <1>6, <2>1, <2>2
  <2>3. CASE d = c
    <3>1. PICK back \in Bytes : back = heard[c] \o down[c]
      BY <1>1, JoinInBytes
    <3>2. PICK ahead \in Bytes : ahead = ebuf \o up[c]
      BY <1>1, JoinInBytes
    <3>3. (back \o ahead) \o m = back \o (ahead \o m)
      BY <1>3, <3>1, <3>2, BytesAssoc
    <3>4. (ebuf \o up[c]) \o m = ebuf \o (up[c] \o m)
      <4>1. \A a, b \in Bytes : (a \o b) \o m = a \o (b \o m)
        BY <1>3, BytesAssoc
      <4>. QED  BY <1>1, <4>1, Zenon
    <3>5. ahead \o m = ebuf \o up'[c]
      BY <1>6, <3>2, <3>4
    <3>6. said'[c] = (back \o ahead) \o m
      BY <1>6, <2>1, <2>3, <3>1, <3>2
    <3>. QED  BY <2>3, <3>1, <3>3, <3>5, <3>6
  <2>. QED  BY <2>2, <2>3
<1>10. BackIsPrefix'
  <2>. SUFFICES ASSUME NEW d \in Clients
                PROVE  \E rest \in Bytes : said'[d] = (heard[d] \o down[d]) \o rest
    BY <1>4 DEF BackIsPrefix
  <2>1. PICK rest \in Bytes : said[d] = (heard[d] \o down[d]) \o rest
    BY DEF EchoInv, BackIsPrefix
  <2>2. CASE d # c
    BY <1>6, <2>1, <2>2
  <2>3. CASE d = c
    <3>1. heard[c] \o down[c] \in Bytes /\ rest \o m \in Bytes
      BY <1>1, <1>3, <2>1, JoinInBytes
    <3>2. \A h \in Bytes : (h \o rest) \o m = h \o (rest \o m)
      BY <1>3, <2>1, BytesAssoc
    <3>3. ((heard[c] \o down[c]) \o rest) \o m
            = (heard[c] \o down[c]) \o (rest \o m)
      BY <3>1, <3>2, Zenon
    <3>. QED  BY <1>6, <2>1, <2>3, <3>1, <3>3, Zenon
  <2>. QED  BY <2>2, <2>3
<1>11. Promise!Says(c)
  <2>1. IsStrictPrefix(said[c], said'[c])
    BY <1>1, <1>2, <1>3, <1>6, StrictlyLonger
  <2>2. said' = [said EXCEPT ![c] = said'[c]]
    BY <1>4, <1>6
  <2>. QED  BY <1>4, <2>1, <2>2 
          DEF Promise!Says, Promise!IsStrictPrefix, Promise!IsPrefix,
              IsStrictPrefix, IsPrefix
<1>. QED  BY <1>7, <1>8, <1>9, <1>10, <1>11 DEF EchoInv

\* A client reads more of what has come back.
LEMMA HearsMore ==
  ASSUME EchoInv, NEW c \in Clients, NEW n \in 1 .. Room, ClientReads(c, n)
  PROVE  /\ EchoInv'
         /\ Promise!Hears(c)
<1>1. /\ said[c] \in Bytes /\ up[c] \in Bytes /\ heard[c] \in Bytes
      /\ down[c] \in Bytes /\ ebuf \in Bytes
  BY DEF EchoInv, EchoShape
<1>2. n \in Nat /\ n > 0 /\ n <= Len(down[c])
  BY EchoConstants DEF ClientReads
<1>. DEFINE t == Take(down[c], n)
            r == Drop(down[c], n)
<1>3. t \in Bytes /\ r \in Bytes /\ (heard[c] \o t) \o r = heard[c] \o down[c]
  <2>1. t \in Bytes /\ r \in Bytes /\ t \o r = down[c]
    BY <1>1, <1>2, CutInBytes
  <2>. HIDE DEF t, r
  <2>2. (heard[c] \o t) \o r = heard[c] \o (t \o r)
    BY <1>1, <2>1, BytesAssoc
  <2>. QED  BY <2>1, <2>2
<1>4. Len(t) = n
  BY <1>1, <1>2, TakeProps DEF Bytes
<1>5. /\ heard' = [heard EXCEPT ![c] = @ \o t] /\ down' = [down EXCEPT ![c] = r]
      /\ UNCHANGED <<said, up, spc, backlog, served, ebuf>>
  BY DEF ClientReads, echoServer
<1>. HIDE DEF t, r
<1>6. heard[c] \o t \in Bytes
  BY <1>1, <1>3, JoinInBytes
<1>7. /\ heard'[c] = heard[c] \o t /\ down'[c] = r
      /\ \A d \in Clients : d # c => heard'[d] = heard[d] /\ down'[d] = down[d]
  BY <1>5 DEF EchoInv, EchoShape
<1>8. \A d \in Clients : heard'[d] \o down'[d] = heard[d] \o down[d]
  BY <1>3, <1>7
<1>9. EchoShape'
  BY <1>3, <1>5, <1>6 DEF EchoInv, EchoShape
<1>10. Quiet'
  <2>1. spc \notin {"start", "bound", "accept"}
    <3>1. Len(<<>>) = 0
      OBVIOUS
    <3>. QED  BY <1>2, <3>1 DEF EchoInv, Quiet
  <2>. QED  BY <1>5, <2>1 DEF EchoInv, Quiet
<1>11. Conserved'
  BY <1>5, <1>8 DEF EchoInv, EchoShape, Conserved
<1>12. BackIsPrefix'
  BY <1>5, <1>8 DEF EchoInv, BackIsPrefix
<1>13. Promise!Hears(c)
  <2>1. IsStrictPrefix(heard[c], heard'[c])
    BY <1>1, <1>2, <1>3, <1>4, <1>7, StrictlyLonger
  <2>2. heard' = [heard EXCEPT ![c] = heard'[c]]
    BY <1>5, <1>7
  <2>3. IsPrefix(heard'[c], said[c])
    <3>1. PICK rest \in Bytes : said[c] = (heard[c] \o down[c]) \o rest
      BY DEF EchoInv, BackIsPrefix
    <3>2. said[c] = ((heard[c] \o t) \o r) \o rest
      BY <1>3, <3>1
    <3>3. \A x \in Bytes : (x \o r) \o rest = x \o (r \o rest)
      BY <1>3, <3>1, BytesAssoc
    <3>4. said[c] = (heard[c] \o t) \o (r \o rest)
      BY <1>6, <3>2, <3>3, Zenon
    <3>5. r \o rest \in Bytes
      BY <1>3, <3>1, JoinInBytes
    <3>6. IsPrefix(heard[c] \o t, (heard[c] \o t) \o (r \o rest))
      BY <1>6, <3>5, ConcatHasPrefix DEF Bytes
    <3>. QED  BY <1>7, <3>4, <3>6
  <2>. QED  BY <1>5, <2>1, <2>2, <2>3 
          DEF Promise!Hears, Promise!IsStrictPrefix, Promise!IsPrefix,
              IsStrictPrefix, IsPrefix
<1>. QED  BY <1>9, <1>10, <1>11, <1>12, <1>13 DEF EchoInv

-----------------------------------------------------------------------------
(* Every step keeps the invariant and is a step of the promise.            *)

LEMMA EchoStep ==
  ASSUME EchoInv, [EchoNext]_echoVars
  PROVE  EchoInv' /\ [Promise!PromiseNext]_(Promise!promiseVars)
<1>1. ASSUME StreamsKept, EchoInv'
      PROVE  EchoInv' /\ [Promise!PromiseNext]_(Promise!promiseVars)
  BY <1>1 DEF StreamsKept, Promise!promiseVars
<1>2. CASE UNCHANGED echoVars
  <2>1. EchoInv'
    BY <1>2, ServerStays
       DEF echoVars, echoServer, echoClients, StreamsKept, EchoInv, EchoShape
  <2>. QED  BY <1>1, <1>2, <2>1 DEF echoVars, echoClients, StreamsKept
<1>3. CASE ServerBinds
  <2>1. StreamsKept
    BY <1>3 DEF ServerBinds, StreamsKept, echoClients
  <2>2. EchoInv'
    BY <1>3, <2>1, ServerStays, ServerGone DEF ServerBinds, EchoInv, EchoShape
  <2>. QED  BY <1>1, <2>1, <2>2
<1>4. CASE ServerListens
  <2>1. StreamsKept
    BY <1>4 DEF ServerListens, StreamsKept, echoClients
  <2>2. EchoInv'
    BY <1>4, <2>1, ServerStays, ServerGone DEF ServerListens, EchoInv, EchoShape
  <2>. QED  BY <1>1, <2>1, <2>2
<1>5. CASE ServerAccepts
  <2>1. StreamsKept
    BY <1>5 DEF ServerAccepts, StreamsKept, echoClients
  <2>. QED  BY <1>1, <1>5, <2>1, FirstAccepted
<1>6. CASE ServerAcceptFails \/ ServerExits
  <2>1. StreamsKept /\ Gone
    BY <1>6 DEF ServerAcceptFails, ServerExits, StreamsKept, echoClients
  <2>. QED  BY <1>1, <2>1, ServerGone
<1>7. ASSUME NEW c \in Clients, ServerReadsEof(c)
      PROVE  EchoInv' /\ [Promise!PromiseNext]_(Promise!promiseVars)
  <2>1. StreamsKept
    BY <1>7 DEF ServerReadsEof, StreamsKept, echoClients
  <2>2. EchoInv'
    BY <1>7, <2>1, ServerStays DEF ServerReadsEof, EchoInv, EchoShape
  <2>. QED  BY <1>1, <2>1, <2>2
<1>8. ASSUME NEW c \in Clients, ServerFails(c)
      PROVE  EchoInv' /\ [Promise!PromiseNext]_(Promise!promiseVars)
  <2>1. StreamsKept
    BY <1>8 DEF ServerFails, StreamsKept, echoClients
  <2>. QED  BY <1>1, <1>8, <2>1, ServerGone DEF ServerFails
<1>9. ASSUME NEW c \in Clients, NEW n \in 1 .. EchoLen, ServerReads(c, n)
      PROVE  EchoInv' /\ [Promise!PromiseNext]_(Promise!promiseVars)
  BY <1>9, ReadsKeep DEF ServerReads, echoClients, Promise!promiseVars
<1>10. ASSUME NEW c \in Clients, NEW n \in 1 .. EchoLen, ServerWrites(c, n)
       PROVE  EchoInv' /\ [Promise!PromiseNext]_(Promise!promiseVars)
  BY <1>10, WritesKeep DEF ServerWrites, echoClients, Promise!promiseVars
<1>11. ASSUME NEW c \in Clients, ClientConnects(c)
       PROVE  EchoInv' /\ [Promise!PromiseNext]_(Promise!promiseVars)
  <2>1. StreamsKept
    BY <1>11 DEF ClientConnects, StreamsKept
  <2>2. backlog' \in Seq(Clients)
    BY <1>11, AppendProperties DEF ClientConnects, EchoInv, EchoShape
  <2>3. EchoInv'
    BY <1>11, <2>1, <2>2, ServerStays DEF ClientConnects
  <2>. QED  BY <1>1, <2>1, <2>3
<1>12. ASSUME NEW c \in Clients,
              ClientRefused(c) \/ ClientKilled(c) \/ ClientReset(c)
       PROVE  EchoInv' /\ [Promise!PromiseNext]_(Promise!promiseVars)
  <2>1. StreamsKept /\ UNCHANGED echoServer
    BY <1>12 DEF ClientRefused, ClientKilled, ClientReset, StreamsKept
  <2>2. EchoInv'
    BY <2>1, ServerStays DEF echoServer, EchoInv, EchoShape
  <2>. QED  BY <1>1, <2>1, <2>2
<1>13. ASSUME NEW c \in Clients, NEW n \in 1 .. Room, ClientWrites(c, n)
       PROVE  EchoInv' /\ [Promise!PromiseNext]_(Promise!promiseVars)
  BY <1>13, SaysMore DEF Promise!PromiseNext
<1>14. ASSUME NEW c \in Clients, NEW n \in 1 .. Room, ClientReads(c, n)
       PROVE  EchoInv' /\ [Promise!PromiseNext]_(Promise!promiseVars)
  BY <1>14, HearsMore DEF Promise!PromiseNext
<1>. QED
  BY <1>2, <1>3, <1>4, <1>5, <1>6, <1>7, <1>8, <1>9, <1>10, <1>11, <1>12,
     <1>13, <1>14 DEF EchoNext, ServerGoesOn, ClientGoesOn

\* The echo service keeps its promise, for any number of clients and any
\* size of lines, buffer and connections, and wherever the network cuts the
\* bytes.
THEOREM EchoKeepsPromise == EchoSpec => EchoIsStream
<1>1. EchoInit => EchoInv
  BY EchoInitInv
<1>2. EchoInit => Promise!PromiseInit
  BY DEF EchoInit, Promise!PromiseInit
<1>3. EchoInv /\ [EchoNext]_echoVars
        => EchoInv' /\ [Promise!PromiseNext]_(Promise!promiseVars)
  BY EchoStep
<1>. QED  BY <1>1, <1>2, <1>3, PTL DEF EchoSpec, EchoIsStream, Promise!PromiseSpec

-----------------------------------------------------------------------------
(* Socket options.                                                         *)

Bracket == [opt : Options, old : Int]
Call == [opt : Options, new : Int, opens : BOOLEAN, old : Int]

OptionTypeOK ==
  /\ used \subseteq Options /\ crossed \subseteq Options
  /\ setting \in [Options -> Int]
  /\ opc \in [Callers -> {"idle", "got"}]
  /\ arg \in [Callers -> {<<>>} \cup Call]
  /\ \A k \in Callers : opc[k] = "got" => arg[k] \in Call
  /\ open \in [Callers -> Seq(Bracket)]

\* A bracket is open on o; the bracket at i is the outermost on o.
On(q, o) == \E i \in DOMAIN q : q[i].opt = o
First(q, o, i) == q[i].opt = o /\ \A j \in 1 .. (i - 1) : q[j].opt # o

Uses(k, o) == BracketOn(k, o) \/ (opc[k] = "got" /\ arg[k].opt = o)

\* One caller at a time uses an option that is not crossed.
Alone ==
  \A o \in Options \ crossed : \A j, k \in Callers :
    Uses(j, o) /\ Uses(k, o) => j = k

\* The outermost bracket on an option remembers its first value.
FirstOld ==
  \A k \in Callers : \A o \in Options \ (Sizes \cup crossed) :
    \A i \in DOMAIN open[k] : First(open[k], o, i) => open[k][i].old = Initial(o)

\* Between getsockopt and setsockopt the old value is still right.
Between ==
  \A k \in Callers : opc[k] = "got" =>
    /\ arg[k].opens /\ arg[k].opt \notin Sizes \cup crossed
         /\ ~BracketOn(k, arg[k].opt)
         => /\ setting[arg[k].opt] = Initial(arg[k].opt)
            /\ arg[k].old = Initial(arg[k].opt)
    /\ ~arg[k].opens => /\ open[k] # <<>> /\ arg[k].opt = Last(open[k]).opt
                        /\ arg[k].new = Last(open[k]).old

OptionIInv == OptionTypeOK /\ Alone /\ FirstOld /\ Between /\ BracketsRestore

LEMMA FirstValues ==
  /\ \A o \in Options : Initial(o) \in Int
  /\ \A o \in Options, v \in Int : Stored(o, v) \in Int
  /\ \A o \in Options \ Sizes : Stored(o, Initial(o)) = Initial(o)
  /\ \A o \in Options : Arguments(o) \subseteq Int
<1>1. ASSUME NEW o \in Options
      PROVE  Initial(o) \in Int /\ Arguments(o) \subseteq Int
             /\ (o \notin Sizes => Stored(o, Initial(o)) = Initial(o))
  BY DEF Options, InKernel, InRecord, Flags, Lingers, Pgrps, Sizes, Timeouts, Oob,
         Initial, Arguments, Stored
<1>2. ASSUME NEW o \in Options, NEW v \in Int
      PROVE  Stored(o, v) \in Int
  BY OptionConstants DEF Options, InKernel, InRecord, Flags, Lingers, Pgrps, Sizes, Timeouts, Oob,
         Stored
<1>3. QED
  BY <1>1, <1>2

LEMMA BracketPushed ==
  ASSUME NEW q \in Seq(Bracket), NEW b \in Bracket
  PROVE  /\ Append(q, b) \in Seq(Bracket)
         /\ \A o : On(Append(q, b), o) <=> On(q, o) \/ b.opt = o
         /\ \A o : \A i \in DOMAIN Append(q, b) : First(Append(q, b), o, i) =>
              \/ i \in DOMAIN q /\ First(q, o, i) /\ Append(q, b)[i] = q[i]
              \/ ~On(q, o) /\ b.opt = o /\ Append(q, b)[i] = b
<1>1. PICK r : r = Append(q, b)
  OBVIOUS
<1>2. /\ r \in Seq(Bracket) /\ Len(q) \in Nat /\ Len(r) = Len(q) + 1
      /\ \A i \in 1 .. Len(q) : r[i] = q[i]
      /\ r[Len(q) + 1] = b
  BY <1>1, AppendProperties, LenProperties
<1>3. DOMAIN q = 1 .. Len(q) /\ DOMAIN r = 1 .. (Len(q) + 1)
  BY <1>2, LenProperties
<1>4. ASSUME NEW o PROVE On(r, o) <=> On(q, o) \/ b.opt = o
  <2>1. \A i \in DOMAIN q : i \in DOMAIN r
    BY <1>2, <1>3
  <2>2. Len(q) + 1 \in DOMAIN r
    BY <1>2, <1>3
  <2>3. \A i \in DOMAIN r : i \in DOMAIN q \/ i = Len(q) + 1
    BY <1>2, <1>3
  <2>4. QED
    BY <1>2, <1>3, <2>1, <2>2, <2>3 DEF On
<1>5. ASSUME NEW o, NEW i \in DOMAIN r, First(r, o, i)
      PROVE  \/ i \in DOMAIN q /\ First(q, o, i) /\ r[i] = q[i]
             \/ ~On(q, o) /\ b.opt = o /\ r[i] = b
  <2>1. CASE i = Len(q) + 1
    <3>1. \A j \in 1 .. Len(q) : j \in 1 .. (i - 1)
      BY <1>2, <2>1
    <3>2. QED
      BY <1>2, <1>3, <1>5, <2>1, <3>1 DEF First, On
  <2>2. CASE i # Len(q) + 1
    <3>1. i \in 1 .. Len(q)
      BY <1>2, <1>3, <2>2
    <3>2. \A j \in 1 .. (i - 1) : j \in 1 .. Len(q)
      BY <1>2, <3>1
    <3>3. QED
      BY <1>2, <1>3, <1>5, <3>1, <3>2 DEF First
  <2>3. QED
    BY <2>1, <2>2
<1>6. QED
  BY <1>1, <1>2, <1>4, <1>5

LEMMA BracketPopped ==
  ASSUME NEW q \in Seq(Bracket), q # <<>>
  PROVE  /\ Front(q) \in Seq(Bracket)
         /\ Last(q) \in Bracket /\ Last(q) = q[Len(q)] /\ Len(q) \in DOMAIN q
         /\ \A o : On(Front(q), o) => On(q, o)
         /\ \A o : On(q, o) /\ ~On(Front(q), o) => First(q, o, Len(q))
         /\ \A o : \A i \in DOMAIN Front(q) : First(Front(q), o, i) =>
              i \in DOMAIN q /\ First(q, o, i) /\ Front(q)[i] = q[i]
<1>1. PICK r : r = Front(q)
  OBVIOUS
<1>2. Len(q) \in Nat /\ DOMAIN q = 1 .. Len(q) /\ Len(q) # 0
  BY LenProperties, EmptySeq
<1>3. Len(q) - 1 \in 0 .. Len(q)
  BY <1>2
<1>4. /\ r \in Seq(Bracket) /\ Len(r) = Len(q) - 1
      /\ \A i \in 1 .. (Len(q) - 1) : r[i] = q[i]
  <2>1. \A i \in 1 .. (Len(q) - 1) : q[i] \in Bracket
    BY <1>2, ElementOfSeq
  <2>2. QED
    BY <1>1, <1>2, <1>3, <2>1, SubSeqProperties DEF Front
<1>5. DOMAIN r = 1 .. (Len(q) - 1)
  BY <1>4, LenProperties
<1>6. Len(q) \in DOMAIN q /\ Last(q) = q[Len(q)] /\ Last(q) \in Bracket
  BY <1>2, ElementOfSeq DEF Last
<1>7. \A i \in DOMAIN r : i \in DOMAIN q /\ r[i] = q[i]
  BY <1>2, <1>4, <1>5
<1>8. \A i \in DOMAIN q : i \in DOMAIN r \/ i = Len(q)
  BY <1>2, <1>5
<1>9. ASSUME NEW o, On(q, o), ~On(r, o) PROVE First(q, o, Len(q))
  BY <1>4, <1>5, <1>7, <1>8, <1>9 DEF First, On
<1>10. ASSUME NEW o, NEW i \in DOMAIN r, First(r, o, i)
       PROVE  First(q, o, i)
  <2>1. \A j \in 1 .. (i - 1) : j \in DOMAIN r
    BY <1>2, <1>5, <1>10
  <2>2. QED
    BY <1>7, <1>10, <2>1 DEF First
<1>11. QED
  BY <1>1, <1>4, <1>6, <1>7, <1>9, <1>10 DEF On

\* What setopt, and the exchange of a field, do to the invariant: k sets o,
\* which it opens a bracket on, or closes its innermost bracket, which is on o.
LEMMA SetterKeeps ==
  ASSUME OptionIInv, OptionTypeOK', NEW k \in Callers, NEW o \in Options,
         NEW new \in Int, NEW old \in Int, NEW opens \in BOOLEAN,
         setting' = [setting EXCEPT ![o] = Stored(o, new)],
         Brackets(k, o, old, opens),
         crossed \subseteq crossed',
         opc' = [opc EXCEPT ![k] = "idle"],
         \A j \in Callers \ {k} : arg'[j] = arg[j],
         opc[k] = "got" => arg[k].opt = o,
         o \notin crossed' => \A j \in Callers \ {k} : ~Uses(j, o),
         opens /\ o \notin Sizes \cup crossed' /\ ~BracketOn(k, o)
           => old = Initial(o),
         ~opens => /\ open[k] # <<>> /\ o = Last(open[k]).opt
                   /\ new = Last(open[k]).old
  PROVE  Alone' /\ FirstOld' /\ Between' /\ BracketsRestore'
<1>1. /\ \A j \in Callers : open[j] \in Seq(Bracket)
      /\ \A p \in Options \ {o} : setting'[p] = setting[p]
      /\ setting'[o] = Stored(o, new)
      /\ opc'[k] = "idle" /\ \A j \in Callers \ {k} : opc'[j] = opc[j]
  BY DEF OptionIInv, OptionTypeOK
<1>2. \A j \in Callers \ {k} : open'[j] = open[j]
  BY DEF OptionIInv, OptionTypeOK, Brackets
<1>3. PICK b : b = [opt |-> o, old |-> old]
  OBVIOUS
<1>4. b \in Bracket /\ b.opt = o /\ b.old = old
  BY <1>3 DEF Bracket
<1>5. PICK q : q = open[k]
  OBVIOUS
<1>6. PICK r : r = open'[k]
  OBVIOUS
<1>7. r = IF opens THEN Append(q, b) ELSE Front(q)
  BY <1>3, <1>5, <1>6 DEF OptionIInv, OptionTypeOK, Brackets
<1>8. q \in Seq(Bracket)
  BY <1>1, <1>5
<1>9. \A p : On(r, p) => On(q, p) \/ p = o
  BY <1>4, <1>7, <1>8, BracketPushed, BracketPopped, <1>5
<1>10. \A p : On(q, p) /\ ~On(r, p) =>
         ~opens /\ p = o /\ First(q, o, Len(q)) /\ q[Len(q)].old = new /\ Len(q) \in DOMAIN q
  <2>1. CASE opens
    BY <1>4, <1>7, <1>8, <2>1, BracketPushed
  <2>2. CASE ~opens
    <3>1. /\ r = Front(q) /\ q # <<>> /\ o = q[Len(q)].opt /\ new = q[Len(q)].old
          /\ Len(q) \in DOMAIN q
      BY <1>5, <1>7, <1>8, <2>2, BracketPopped
    <3>2. \A p : On(q, p) /\ ~On(Front(q), p) => First(q, p, Len(q))
      BY <1>8, <3>1, BracketPopped
    <3>3. \A p : First(q, p, Len(q)) => q[Len(q)].opt = p
      BY DEF First
    <3>4. SUFFICES ASSUME NEW p, On(q, p), ~On(r, p) PROVE p = o /\ First(q, o, Len(q))
      BY <2>2, <3>1
    <3>5. QED
      BY <3>1, <3>2, <3>3, <3>4
  <2>3. QED
    BY <2>1, <2>2
<1>11. \A p : \A i \in DOMAIN r : First(r, p, i) =>
         \/ i \in DOMAIN q /\ First(q, p, i) /\ r[i] = q[i]
         \/ opens /\ p = o /\ ~On(q, o) /\ r[i] = b
  <2>1. CASE opens
    BY <1>4, <1>7, <1>8, <2>1, BracketPushed
  <2>2. CASE ~opens
    BY <1>5, <1>7, <1>8, <2>2, BracketPopped
  <2>3. QED
    BY <2>1, <2>2
<1>12. \A p : BracketOn(k, p) <=> On(q, p)
  BY <1>5 DEF BracketOn, On
<1>13. \A p : BracketOn(k, p)' <=> On(r, p)
  BY <1>6 DEF BracketOn, On
<1>14. \A j \in Callers \ {k} : \A p : BracketOn(j, p)' <=> BracketOn(j, p)
  BY <1>2 DEF BracketOn
<1>15. \A j \in Callers \ {k} : \A p : Uses(j, p)' <=> Uses(j, p)
  BY <1>1, <1>14 DEF Uses
<1>16. \A p : Uses(k, p)' => Uses(k, p) \/ p = o
  BY <1>1, <1>9, <1>12, <1>13 DEF Uses
<1>17. Alone'
  <2>1. SUFFICES ASSUME NEW p \in Options \ crossed', NEW i \in Callers, NEW j \in Callers,
                        Uses(i, p)', Uses(j, p)'
                 PROVE  i = j
    BY DEF Alone
  <2>2. p \in Options \ crossed
    OBVIOUS
  <2>3. CASE p = o
    BY <1>15, <2>1, <2>3
  <2>4. CASE p # o
    <3>1. Uses(i, p) /\ Uses(j, p)
      BY <1>15, <1>16, <2>1, <2>4
    <3>2. QED
      BY <2>2, <3>1 DEF OptionIInv, Alone
  <2>5. QED
    BY <2>3, <2>4
<1>18. FirstOld'
  <2>1. SUFFICES ASSUME NEW j \in Callers, NEW p \in Options \ (Sizes \cup crossed'),
                        NEW i \in DOMAIN open'[j], First(open'[j], p, i)
                 PROVE  open'[j][i].old = Initial(p)
    BY DEF FirstOld, First
  <2>2. p \in Options \ (Sizes \cup crossed)
    OBVIOUS
  <2>3. CASE j # k
    BY <1>2, <2>1, <2>2, <2>3 DEF OptionIInv, FirstOld
  <2>4. CASE j = k
    <3>1. i \in DOMAIN r /\ First(r, p, i) /\ open'[j][i] = r[i]
      BY <1>6, <2>1, <2>4
    <3>2. CASE i \in DOMAIN q /\ First(q, p, i) /\ r[i] = q[i]
      BY <1>5, <2>2, <3>1, <3>2 DEF OptionIInv, FirstOld
    <3>3. CASE opens /\ p = o /\ ~On(q, o) /\ r[i] = b
      BY <1>4, <1>12, <3>1, <3>3
    <3>4. QED
      BY <1>11, <3>1, <3>2, <3>3
  <2>5. QED
    BY <2>3, <2>4
<1>19. Between'
  <2>1. SUFFICES ASSUME NEW j \in Callers, opc'[j] = "got"
                 PROVE  /\ arg'[j].opens /\ arg'[j].opt \notin Sizes \cup crossed'
                             /\ ~BracketOn(j, arg[j].opt)'
                             => /\ setting'[arg'[j].opt] = Initial(arg'[j].opt)
                                /\ arg'[j].old = Initial(arg'[j].opt)
                        /\ ~arg'[j].opens => /\ open'[j] # <<>>
                                             /\ arg'[j].opt = Last(open'[j]).opt
                                             /\ arg'[j].new = Last(open'[j]).old
    BY DEF Between
  <2>2. j # k /\ opc[j] = "got" /\ arg'[j] = arg[j] /\ open'[j] = open[j]
    BY <1>1, <1>2, <2>1
  <2>3. arg[j].opt \in Options
    BY <2>2 DEF OptionIInv, OptionTypeOK, Call
  <2>4. \A p : BracketOn(j, p)' <=> BracketOn(j, p)
    BY <1>14, <2>2
  <2>5. arg[j].opt \notin crossed' => setting'[arg[j].opt] = setting[arg[j].opt]
    BY <1>1, <2>2, <2>3 DEF Uses
  <2>6. /\ arg[j].opens /\ arg[j].opt \notin Sizes \cup crossed
             /\ ~BracketOn(j, arg[j].opt)
             => /\ setting[arg[j].opt] = Initial(arg[j].opt)
                /\ arg[j].old = Initial(arg[j].opt)
        /\ ~arg[j].opens => /\ open[j] # <<>> /\ arg[j].opt = Last(open[j]).opt
                            /\ arg[j].new = Last(open[j]).old
    BY <2>2 DEF OptionIInv, Between
  <2>7. BracketOn(j, arg[j].opt)' <=> BracketOn(j, arg[j].opt)
    BY <2>2 DEF BracketOn
  <2>8. QED
    BY <2>2, <2>5, <2>6, <2>7
<1>20. BracketsRestore'
  <2>1. SUFFICES ASSUME NEW p \in Options \ (Sizes \cup crossed'),
                        \A j \in Callers : ~BracketOn(j, p)'
                                           /\ ~(opc'[j] = "got" /\ arg'[j].opt = p)
                 PROVE  setting'[p] = Initial(p)
    BY DEF BracketsRestore, BracketOn
  <2>2. p \in Options \ (Sizes \cup crossed)
    OBVIOUS
  <2>3. ~On(r, p)
    BY <1>13, <2>1
  <2>4. CASE On(q, p)
    <3>1. p = o /\ First(q, o, Len(q)) /\ q[Len(q)].old = new /\ Len(q) \in DOMAIN q
      BY <1>10, <2>3, <2>4
    <3>2. new = Initial(o)
      BY <1>5, <2>2, <3>1 DEF OptionIInv, FirstOld
    <3>3. QED
      BY <1>1, <2>2, <3>1, <3>2, FirstValues
  <2>5. CASE ~On(q, p)
    <3>1. p # o
      <4>1. CASE opens
        BY <1>4, <1>7, <1>8, <2>3, <4>1, BracketPushed
      <4>2. CASE ~opens
        <5>1. o = q[Len(q)].opt /\ Len(q) \in DOMAIN q
          BY <1>5, <1>8, <4>2, BracketPopped
        <5>2. QED
          BY <2>5, <5>1 DEF On
      <4>3. QED
        BY <4>1, <4>2
    <3>2. \A j \in Callers : ~BracketOn(j, p) /\ ~(opc[j] = "got" /\ arg[j].opt = p)
      BY <1>1, <1>12, <1>14, <2>1, <2>5, <3>1
    <3>3. setting[p] = Initial(p)
      BY <2>2, <3>2 DEF OptionIInv, BracketsRestore
    <3>4. QED
      BY <1>1, <3>1, <3>3
  <2>6. QED
    BY <2>4, <2>5
<1>21. QED
  BY <1>17, <1>18, <1>19, <1>20

\* A setter a caller may call.
LEMMA SetterTyped ==
  ASSUME OptionTypeOK, NEW k \in Callers, NEW set \in Setters(k)
  PROVE  /\ set.opt \in Options /\ set.new \in Int /\ set.opens \in BOOLEAN
         /\ ~set.opens => /\ open[k] # <<>> /\ set.opt = Last(open[k]).opt
                          /\ set.new = Last(open[k]).old
<1>1. CASE \E o \in used : \E v \in Arguments(o) :
             set = [opt |-> o, new |-> v, opens |-> TRUE]
  BY <1>1, FirstValues DEF OptionTypeOK
<1>2. CASE open[k] # <<>> /\ set = [opt |-> Last(open[k]).opt, new |-> Last(open[k]).old,
                                    opens |-> FALSE]
  <2>1. open[k] \in Seq(Bracket)
    BY DEF OptionTypeOK
  <2>2. Last(open[k]) \in Bracket
    BY <1>2, <2>1, BracketPopped
  <2>3. QED
    BY <1>2, <2>2 DEF Bracket
<1>3. QED
  BY <1>1, <1>2 DEF Setters

LEMMA BracketsTyped ==
  ASSUME OptionTypeOK, NEW k \in Callers, NEW o \in Options, NEW old \in Int,
         NEW opens \in BOOLEAN, ~opens => open[k] # <<>>, Brackets(k, o, old, opens)
  PROVE  open' \in [Callers -> Seq(Bracket)]
<1>1. PICK b : b = [opt |-> o, old |-> old]
  OBVIOUS
<1>2. b \in Bracket
  BY <1>1 DEF Bracket
<1>3. open[k] \in Seq(Bracket)
  BY DEF OptionTypeOK
<1>4. opens => Append(open[k], b) \in Seq(Bracket)
  BY <1>2, <1>3, BracketPushed
<1>5. ~opens => Front(open[k]) \in Seq(Bracket)
  BY <1>3, BracketPopped
<1>6. open' = [open EXCEPT ![k] = IF opens THEN Append(open[k], b) ELSE Front(open[k])]
  BY <1>1 DEF Brackets
<1>7. PICK r : r = IF opens THEN Append(open[k], b) ELSE Front(open[k])
  OBVIOUS
<1>8. r \in Seq(Bracket)
  BY <1>4, <1>5, <1>7
<1>9. open' = [open EXCEPT ![k] = r]
  BY <1>6, <1>7
<1>10. QED
  BY <1>8, <1>9 DEF OptionTypeOK

LEMMA GetOptKeeps ==
  ASSUME OptionIInv, NEW k \in Callers, NEW set \in Setters(k), GetOpt(k, set)
  PROVE  OptionIInv'
<1>1. set.opt \in Options /\ set.new \in Int /\ set.opens \in BOOLEAN
      /\ (~set.opens => /\ open[k] # <<>> /\ set.opt = Last(open[k]).opt
                        /\ set.new = Last(open[k]).old)
  BY SetterTyped DEF OptionIInv
<1>2. PICK o \in Options : o = set.opt
  BY <1>1
<1>3. PICK c : c = [opt |-> set.opt, new |-> set.new, opens |-> set.opens,
                    old |-> setting[set.opt]]
  OBVIOUS
<1>4. setting[o] \in Int
  BY DEF OptionIInv, OptionTypeOK
<1>5. /\ c \in Call /\ c.opt = o /\ c.opens = set.opens /\ c.old = setting[o]
      /\ c.new = set.new
  BY <1>1, <1>2, <1>3, <1>4 DEF Call
<1>6. /\ opc[k] = "idle" /\ opc' = [opc EXCEPT ![k] = "got"]
      /\ arg' = [arg EXCEPT ![k] = c]
      /\ UNCHANGED <<used, setting, open>>
  BY <1>3 DEF GetOpt, Old
<1>7. /\ crossed \subseteq crossed' /\ crossed' \subseteq Options
      /\ o \notin crossed' => \A j \in Callers \ {k} : ~Uses(j, o)
  <2>1. crossed' = crossed \cup (IF OthersUse(k, o) THEN {o} ELSE {})
    BY <1>2 DEF GetOpt, Notes
  <2>2. ~OthersUse(k, o) => \A j \in Callers \ {k} : ~Uses(j, o)
    BY DEF OthersUse, Uses
  <2>3. QED
    BY <2>1, <2>2 DEF OptionIInv, OptionTypeOK
<1>8. OptionTypeOK'
  BY <1>5, <1>6, <1>7 DEF OptionIInv, OptionTypeOK
<1>9. \A j \in Callers \ {k} : opc'[j] = opc[j] /\ arg'[j] = arg[j]
  BY <1>6 DEF OptionIInv, OptionTypeOK
<1>10. opc'[k] = "got" /\ arg'[k] = c
  BY <1>6 DEF OptionIInv, OptionTypeOK
<1>11. \A j, p : BracketOn(j, p)' <=> BracketOn(j, p)
  BY <1>6 DEF BracketOn
<1>12. /\ \A j \in Callers \ {k} : \A p : Uses(j, p)' <=> Uses(j, p)
       /\ \A p : Uses(k, p)' <=> Uses(k, p) \/ p = o
  BY <1>5, <1>6, <1>9, <1>10, <1>11 DEF Uses
<1>13. Alone'
  <2>1. SUFFICES ASSUME NEW p \in Options \ crossed', NEW i \in Callers, NEW j \in Callers,
                        Uses(i, p)', Uses(j, p)'
                 PROVE  i = j
    BY DEF Alone
  <2>2. p \in Options \ crossed
    BY <1>7
  <2>3. CASE p = o
    BY <1>7, <1>12, <2>1, <2>3
  <2>4. CASE p # o
    BY <1>12, <2>1, <2>2, <2>4 DEF OptionIInv, Alone
  <2>5. QED
    BY <2>3, <2>4
<1>14. FirstOld'
  BY <1>6, <1>7 DEF OptionIInv, FirstOld, First
<1>15. Between'
  <2>1. ASSUME NEW j \in Callers \ {k}, opc'[j] = "got"
        PROVE  /\ arg'[j].opens /\ arg'[j].opt \notin Sizes \cup crossed'
                    /\ ~BracketOn(j, arg[j].opt)
                    => /\ setting[arg'[j].opt] = Initial(arg'[j].opt)
                       /\ arg'[j].old = Initial(arg'[j].opt)
               /\ ~arg'[j].opens => /\ open[j] # <<>> /\ arg'[j].opt = Last(open[j]).opt
                                    /\ arg'[j].new = Last(open[j]).old
    BY <1>7, <1>9, <2>1 DEF OptionIInv, Between
  <2>2. c.opens /\ c.opt \notin Sizes \cup crossed' /\ ~BracketOn(k, c.opt)
          => setting[o] = Initial(o) /\ c.old = Initial(o)
    <3>1. SUFFICES ASSUME o \notin Sizes \cup crossed', ~BracketOn(k, o)
                   PROVE  setting[o] = Initial(o)
      BY <1>5
    <3>2. \A j \in Callers : ~BracketOn(j, o) /\ ~(opc[j] = "got" /\ arg[j].opt = o)
      BY <1>6, <1>7, <3>1 DEF Uses
    <3>3. QED
      BY <1>7, <3>1, <3>2 DEF OptionIInv, BracketsRestore
  <2>3. ~c.opens => open[k] # <<>> /\ c.opt = Last(open[k]).opt /\ c.new = Last(open[k]).old
    BY <1>1, <1>2, <1>5
  <2>4. ASSUME NEW j \in Callers, opc'[j] = "got"
        PROVE  /\ arg'[j].opens /\ arg'[j].opt \notin Sizes \cup crossed'
                    /\ ~BracketOn(j, arg'[j].opt)
                    => /\ setting[arg'[j].opt] = Initial(arg'[j].opt)
                       /\ arg'[j].old = Initial(arg'[j].opt)
               /\ ~arg'[j].opens => /\ open[j] # <<>> /\ arg'[j].opt = Last(open[j]).opt
                                    /\ arg'[j].new = Last(open[j]).old
    <3>1. CASE j = k
      BY <1>5, <1>10, <2>2, <2>3, <3>1
    <3>2. CASE j # k
      BY <1>9, <2>1, <2>4, <3>2
    <3>3. QED
      BY <3>1, <3>2
  <2>5. QED
    BY <1>6, <2>4 DEF Between, BracketOn
<1>16. BracketsRestore'
  <2>1. SUFFICES ASSUME NEW p \in Options \ (Sizes \cup crossed'),
                        \A j \in Callers : ~BracketOn(j, p)'
                                           /\ ~(opc'[j] = "got" /\ arg'[j].opt = p)
                 PROVE  setting[p] = Initial(p)
    BY <1>6 DEF BracketsRestore, BracketOn
  <2>2. \A j \in Callers : ~BracketOn(j, p) /\ ~(opc[j] = "got" /\ arg[j].opt = p)
    BY <1>6, <1>9, <1>11, <2>1
  <2>3. QED
    BY <1>7, <2>2 DEF OptionIInv, BracketsRestore
<1>17. QED
  BY <1>8, <1>13, <1>14, <1>15, <1>16 DEF OptionIInv

LEMMA SetOptKeeps ==
  ASSUME OptionIInv, NEW k \in Callers, SetOpt(k)
  PROVE  OptionIInv'
<1>1. PICK c : c = arg[k]
  OBVIOUS
<1>2. c \in Call /\ opc[k] = "got"
  BY <1>1 DEF SetOpt, OptionIInv, OptionTypeOK
<1>3. /\ c.opt \in Options /\ c.new \in Int /\ c.opens \in BOOLEAN /\ c.old \in Int
  BY <1>2 DEF Call
<1>4. /\ setting' = [setting EXCEPT ![c.opt] = Stored(c.opt, c.new)]
      /\ Brackets(k, c.opt, c.old, c.opens)
      /\ opc' = [opc EXCEPT ![k] = "idle"] /\ arg' = [arg EXCEPT ![k] = <<>>]
      /\ UNCHANGED <<used, crossed>>
  BY <1>1 DEF SetOpt
<1>5. ~c.opens => open[k] # <<>> /\ c.opt = Last(open[k]).opt /\ c.new = Last(open[k]).old
  BY <1>1, <1>2 DEF OptionIInv, Between
<1>6. c.opens /\ c.opt \notin Sizes \cup crossed' /\ ~BracketOn(k, c.opt)
        => c.old = Initial(c.opt)
  BY <1>1, <1>2, <1>4 DEF OptionIInv, Between
<1>7. c.opt \notin crossed' => \A j \in Callers \ {k} : ~Uses(j, c.opt)
  <2>1. Uses(k, c.opt)
    BY <1>1, <1>2 DEF Uses
  <2>2. QED
    BY <1>3, <1>4, <2>1 DEF OptionIInv, Alone
<1>8. open' \in [Callers -> Seq(Bracket)]
  BY <1>3, <1>4, <1>5, BracketsTyped DEF OptionIInv
<1>9. Stored(c.opt, c.new) \in Int
  BY <1>3, FirstValues
<1>10. OptionTypeOK'
  BY <1>3, <1>4, <1>8, <1>9 DEF OptionIInv, OptionTypeOK
<1>11. \A j \in Callers \ {k} : arg'[j] = arg[j]
  BY <1>4 DEF OptionIInv, OptionTypeOK
<1>12. crossed \subseteq crossed'
  BY <1>4
<1>13. opc[k] = "got" => arg[k].opt = c.opt
  BY <1>1
<1>14. Alone' /\ FirstOld' /\ Between' /\ BracketsRestore'
  BY <1>3, <1>4, <1>5, <1>6, <1>7, <1>10, <1>11, <1>12, <1>13, SetterKeeps
<1>15. QED
  BY <1>10, <1>14 DEF OptionIInv

LEMMA SetFieldKeeps ==
  ASSUME OptionIInv, NEW k \in Callers, NEW set \in Setters(k), SetField(k, set)
  PROVE  OptionIInv'
<1>1. set.opt \in Options /\ set.new \in Int /\ set.opens \in BOOLEAN
      /\ (~set.opens => /\ open[k] # <<>> /\ set.opt = Last(open[k]).opt
                        /\ set.new = Last(open[k]).old)
  BY SetterTyped DEF OptionIInv
<1>2. PICK o \in Options : o = set.opt
  BY <1>1
<1>3. /\ setting' = [setting EXCEPT ![o] = Stored(o, set.new)]
      /\ Brackets(k, o, setting[o], set.opens)
      /\ opc[k] = "idle" /\ UNCHANGED <<used, opc, arg>>
  BY <1>2 DEF SetField, Old
<1>4. opc' = [opc EXCEPT ![k] = "idle"] /\ \A j \in Callers \ {k} : arg'[j] = arg[j]
  BY <1>3 DEF OptionIInv, OptionTypeOK
<1>5. /\ crossed \subseteq crossed' /\ crossed' \subseteq Options
      /\ o \notin crossed' => \A j \in Callers \ {k} : ~Uses(j, o)
  <2>1. crossed' = crossed \cup (IF OthersUse(k, o) THEN {o} ELSE {})
    BY <1>2 DEF SetField, Notes
  <2>2. ~OthersUse(k, o) => \A j \in Callers \ {k} : ~Uses(j, o)
    BY DEF OthersUse, Uses
  <2>3. QED
    BY <2>1, <2>2 DEF OptionIInv, OptionTypeOK
<1>6. setting[o] \in Int
  BY DEF OptionIInv, OptionTypeOK
<1>7. open' \in [Callers -> Seq(Bracket)]
  BY <1>1, <1>3, <1>6, BracketsTyped DEF OptionIInv
<1>8. Stored(o, set.new) \in Int
  BY <1>1, FirstValues
<1>9. OptionTypeOK'
  BY <1>3, <1>5, <1>7, <1>8 DEF OptionIInv, OptionTypeOK
<1>10. o \notin Sizes \cup crossed' /\ ~BracketOn(k, o) => setting[o] = Initial(o)
  <2>1. SUFFICES ASSUME o \notin Sizes \cup crossed', ~BracketOn(k, o)
                 PROVE  setting[o] = Initial(o)
    OBVIOUS
  <2>2. \A j \in Callers : ~BracketOn(j, o) /\ ~(opc[j] = "got" /\ arg[j].opt = o)
    BY <1>3, <1>5, <2>1 DEF Uses
  <2>3. QED
    BY <1>5, <2>1, <2>2 DEF OptionIInv, BracketsRestore
<1>11. ~set.opens => open[k] # <<>> /\ o = Last(open[k]).opt /\ set.new = Last(open[k]).old
  BY <1>1, <1>2
<1>12. PICK old \in Int : old = setting[o]
  BY <1>6
<1>13. /\ Brackets(k, o, old, set.opens)
       /\ opc[k] = "got" => arg[k].opt = o
       /\ set.opens /\ o \notin Sizes \cup crossed' /\ ~BracketOn(k, o)
            => old = Initial(o)
  BY <1>3, <1>10, <1>12
<1>14. Alone' /\ FirstOld' /\ Between' /\ BracketsRestore'
  BY <1>1, <1>3, <1>4, <1>5, <1>9, <1>11, <1>13, SetterKeeps
<1>15. QED
  BY <1>9, <1>14 DEF OptionIInv

LEMMA SetOptThrowsKeeps ==
  ASSUME OptionIInv, NEW k \in Callers, SetOptThrows(k)
  PROVE  OptionIInv'
<1>1. /\ opc[k] = "got" /\ arg[k].opt \in Options
      /\ opc' = [opc EXCEPT ![k] = "idle"] /\ arg' = [arg EXCEPT ![k] = <<>>]
      /\ UNCHANGED <<used, setting, open, crossed>>
  BY DEF SetOptThrows, OptionIInv, OptionTypeOK, Call
<1>2. OptionTypeOK'
  BY <1>1 DEF OptionIInv, OptionTypeOK
<1>3. /\ \A j \in Callers \ {k} : opc'[j] = opc[j] /\ arg'[j] = arg[j]
      /\ opc'[k] = "idle"
  BY <1>1 DEF OptionIInv, OptionTypeOK
<1>4. \A j, p : BracketOn(j, p)' <=> BracketOn(j, p)
  BY <1>1 DEF BracketOn
<1>5. \A j \in Callers : \A p : Uses(j, p)' => Uses(j, p)
  BY <1>3, <1>4 DEF Uses
<1>6. Alone'
  BY <1>1, <1>5 DEF OptionIInv, Alone
<1>7. FirstOld'
  BY <1>1 DEF OptionIInv, FirstOld, First
<1>8. Between'
  <2>1. \A j \in Callers : opc'[j] = "got" => j # k /\ opc[j] = "got" /\ arg'[j] = arg[j]
    BY <1>3
  <2>2. QED
    BY <1>1, <2>1 DEF OptionIInv, Between, BracketOn
<1>9. BracketsRestore'
  <2>1. SUFFICES ASSUME NEW p \in Options \ (Sizes \cup crossed),
                        \A j \in Callers : ~BracketOn(j, p)'
                                           /\ ~(opc'[j] = "got" /\ arg'[j].opt = p)
                 PROVE  setting[p] = Initial(p)
    BY <1>1 DEF BracketsRestore, BracketOn
  <2>2. CASE p = arg[k].opt
    <3>1. ~BracketOn(k, p)
      BY <1>4, <2>1
    <3>2. open[k] # <<>> => Len(open[k]) \in DOMAIN open[k]
      BY DEF OptionIInv, OptionTypeOK
    <3>3. arg[k].opens
      BY <1>1, <2>2, <3>1, <3>2 DEF OptionIInv, Between, BracketOn, Last
    <3>4. QED
      BY <1>1, <2>1, <2>2, <3>1, <3>3 DEF OptionIInv, Between
  <2>3. CASE p # arg[k].opt
    <3>1. \A j \in Callers : ~BracketOn(j, p) /\ ~(opc[j] = "got" /\ arg[j].opt = p)
      BY <1>3, <1>4, <2>1, <2>3
    <3>2. QED
      BY <3>1 DEF OptionIInv, BracketsRestore
  <2>4. QED
    BY <2>2, <2>3
<1>10. QED
  BY <1>2, <1>6, <1>7, <1>8, <1>9 DEF OptionIInv

LEMMA OptionInitIInv == OptionInit => OptionIInv
<1>1. SUFFICES ASSUME OptionInit PROVE OptionIInv
  OBVIOUS
<1>2. OptionTypeOK
  <2>1. used \subseteq Options
    BY <1>1 DEF OptionInit, kSubset
  <2>2. setting \in [Options -> Int] /\ crossed \subseteq Options
    BY <1>1, FirstValues DEF OptionInit
  <2>3. open \in [Callers -> Seq(Bracket)]
    <3>1. <<>> \in Seq(Bracket)
      BY EmptySeq
    <3>2. QED
      BY <1>1, <3>1 DEF OptionInit
  <2>4. opc \in [Callers -> {"idle", "got"}] /\ arg \in [Callers -> {<<>>} \cup Call]
        /\ \A k \in Callers : opc[k] # "got"
    BY <1>1 DEF OptionInit
  <2>5. QED
    BY <2>1, <2>2, <2>3, <2>4 DEF OptionTypeOK
<1>3. /\ \A k \in Callers : open[k] = <<>> /\ opc[k] = "idle"
      /\ \A o \in Options : setting[o] = Initial(o)
  BY <1>1 DEF OptionInit
<1>4. \A k \in Callers : \A p : ~Uses(k, p)
  BY <1>3 DEF Uses, BracketOn
<1>5. Alone /\ Between /\ BracketsRestore
  BY <1>3, <1>4 DEF Alone, Between, BracketsRestore
<1>6. FirstOld
  BY <1>3 DEF FirstOld
<1>7. QED
  BY <1>2, <1>5, <1>6 DEF OptionIInv

LEMMA OptionStepIInv == OptionIInv /\ [OptionNext]_optionVars => OptionIInv'
<1>1. SUFFICES ASSUME OptionIInv, [OptionNext]_optionVars PROVE OptionIInv'
  OBVIOUS
<1>2. CASE UNCHANGED optionVars
  BY <1>1, <1>2 DEF optionVars, OptionIInv, OptionTypeOK, Alone, Uses, FirstOld, First,
                    Between, BracketsRestore, BracketOn
<1>3. CASE OptionNext
  BY <1>1, <1>3, GetOptKeeps, SetFieldKeeps, SetOptKeeps, SetOptThrowsKeeps DEF OptionNext
<1>4. QED
  BY <1>1, <1>2, <1>3

\* Callers that nest their brackets, use different options at a time and are
\* refused some get every option back to its first value.
THEOREM OptionsRestored == OptionSpec => []BracketsRestore
<1>1. OptionIInv => BracketsRestore
  BY DEF OptionIInv
<1>2. QED
  BY <1>1, OptionInitIInv, OptionStepIInv, PTL DEF OptionSpec

-----------------------------------------------------------------------------
(* The smtp client.                                                        *)

\* At most one command is unanswered, and then no reply is left over.
OneOutstanding ==
  \/ replies = <<>> /\ \E c \in {"helo", "command", "data", "text"} : unanswered = <<c>>
  \/ unanswered = <<>> /\ replies \in Layout \cup {<<>>}

InStep ==
  /\ mpc \in {"idle", "reply", "text", "astray"}
  /\ after \in {"greeting", "helo", "data", "end"}
  /\ mpc = "idle" =>
       /\ unanswered = <<>>
       /\ \/ after = "greeting" /\ replies \in Layout
          \/ after = "end" /\ replies = <<>>
  /\ mpc = "reply" /\ after = "helo" => unanswered = <<>> /\ replies \in Layout
  /\ mpc = "reply" /\ after \in {"data", "end"} => OneOutstanding
  /\ mpc = "reply" => after # "greeting"
  /\ mpc = "text" => unanswered = <<>> /\ replies = <<>> /\ after = "data"

\* What a server that has gone leaves behind is at most a part of a reply.
PartOfReply == Layout \cup {<<>>, <<"more">>}

LeftBehind ==
  /\ mpc \in {"idle", "reply", "text", "astray"}
  /\ after \in {"greeting", "helo", "data", "end"}
  /\ mpc = "reply" => after # "greeting"
  /\ mpc = "text" => after = "data"
  /\ mpc = "idle" => after \in {"greeting", "end"}
  /\ mpc # "astray" => replies \in PartOfReply
  /\ (mpc = "idle" /\ after = "end") \/ mpc = "text" => replies = <<>>

SmtpIInv == ~upset => (gone => LeftBehind) /\ (~gone => InStep)

\* What one or two elements may be cut to.
LEMMA CutsOf ==
  ASSUME NEW x, NEW y
  PROVE  /\ \A n \in 0..Len(<<x>>) : Take(<<x>>, n) \in {<<>>, <<x>>}
         /\ \A n \in 0..Len(<<x, y>>) : Take(<<x, y>>, n) \in {<<>>, <<x>>, <<x, y>>}
<1>1. PICK S : x \in S /\ y \in S
  <2>1. x \in {x, y} /\ y \in {x, y}
    OBVIOUS
  <2>2. QED
    BY <2>1
<1>2. PICK p \in Seq(S), q \in Seq(S) : p = <<x>> /\ q = <<x, y>>
  <2>1. <<x>> \in Seq(S) /\ <<x, y>> \in Seq(S)
    BY <1>1
  <2>2. QED
    BY <2>1
<1>3. /\ Len(p) = 1 /\ Len(q) = 2 /\ p[1] = x /\ q[1] = x /\ q[2] = y
      /\ 0..Len(p) = {0, 1} /\ 0..Len(q) = {0, 1, 2}
  BY <1>2
<1>4. /\ SubSeq(p, 1, 0) = <<>> /\ SubSeq(q, 1, 0) = <<>>
      /\ SubSeq(p, 1, 1) = p /\ SubSeq(q, 1, 2) = q
  BY <1>3, SubSeqEmpty, SubSeqFull
<1>5. SubSeq(q, 1, 1) = p
  <2>1. SubSeq(q, 1, 1) \in Seq(S) /\ Len(SubSeq(q, 1, 1)) = 1 /\ SubSeq(q, 1, 1)[1] = x
    <3>1. \A i \in 1..1 : q[i] \in S
      BY <1>1, <1>3
    <3>2. QED
      BY <1>3, <3>1, SubSeqProperties
  <2>2. QED
    BY <1>3, <2>1, SeqEqual
<1>6. QED
  BY <1>2, <1>3, <1>4, <1>5 DEF Take

LEMMA ReplyLayouts ==
  /\ \A r \in Layout : r # <<>> /\ r \in Seq({"last", "more"})
  /\ \A r \in Layout : Head(r) = "more" => Tail(r) \in Layout
  /\ \A r \in Layout : Head(r) # "more" => Tail(r) = <<>>
  /\ \A c : Head(<<c>>) = c /\ Tail(<<c>>) = <<>> /\ Append(<<>>, c) = <<c>> /\ <<c>> # <<>>
  /\ \A r \in PartOfReply : r # <<>> =>
       Tail(r) \in PartOfReply /\ (Head(r) # "more" => Tail(r) = <<>>)
  /\ \A r \in Layout \cup {<<>>} : \A n \in 0..Len(r) : Take(r, n) \in PartOfReply
  /\ \A n \in 0..Len(<<>>) : Take(<<>>, n) = <<>>
<1>1. \A r \in Layout : r = <<"last">> \/ r = <<"more", "last">>
  BY DEF Layout
<1>2. /\ <<"last">> # <<>> /\ <<"last">> \in Seq({"last", "more"})
      /\ Head(<<"last">>) = "last" /\ Tail(<<"last">>) = <<>>
  OBVIOUS
<1>3. /\ <<"more", "last">> # <<>> /\ <<"more", "last">> \in Seq({"last", "more"})
      /\ Head(<<"more", "last">>) = "more" /\ Tail(<<"more", "last">>) = <<"last">>
  OBVIOUS
<1>4. <<"last">> \in Layout
  BY DEF Layout
<1>5. \A c : Head(<<c>>) = c /\ Tail(<<c>>) = <<>> /\ Append(<<>>, c) = <<c>> /\ <<c>> # <<>>
  OBVIOUS
<1>6. /\ Head(<<"more">>) = "more" /\ Tail(<<"more">>) = <<>>
      /\ \A r \in PartOfReply : r = <<>> \/ r = <<"more">> \/ r \in Layout
  BY DEF PartOfReply
<1>7. \A r \in PartOfReply : r # <<>> =>
        Tail(r) \in PartOfReply /\ (Head(r) # "more" => Tail(r) = <<>>)
  BY <1>1, <1>2, <1>3, <1>4, <1>6 DEF PartOfReply
<1>8. \A n \in 0..Len(<<>>) : Take(<<>>, n) = <<>>
  BY DEF Take
<1>9. \A n \in 0..Len(<<"last">>) : Take(<<"last">>, n) \in {<<>>, <<"last">>}
  BY <1>2, CutsOf
<1>10. \A n \in 0..Len(<<"more", "last">>) :
         Take(<<"more", "last">>, n) \in {<<>>, <<"more">>, <<"more", "last">>}
  BY CutsOf
<1>11. \A r \in Layout \cup {<<>>} : \A n \in 0..Len(r) : Take(r, n) \in PartOfReply
  BY <1>8, <1>9, <1>10 DEF Layout, PartOfReply
<1>12. QED
  BY <1>1, <1>2, <1>3, <1>4, <1>5, <1>7, <1>8, <1>11

LEMMA NothingAdded ==
  ASSUME NEW r \in Seq({"last", "more"})
  PROVE  <<>> \o r = r /\ r \o <<>> = r /\ [i \in 1 .. 0 |-> "last"] = <<>>
<1>1. <<>> \o r = r /\ r \o <<>> = r
  BY ConcatEmptySeq
<1>2. [i \in 1 .. 0 |-> "last"] = <<>>
  OBVIOUS
<1>3. QED
  BY <1>1, <1>2

\* When the server has gone the client takes what there is, and goes on.
LEMMA GoneStays ==
  ASSUME gone, LeftBehind, [SmtpNext]_smtpVars
  PROVE  gone' /\ LeftBehind' /\ UNCHANGED upset
<1>1. CASE UNCHANGED smtpVars
  BY <1>1 DEF smtpVars, LeftBehind
<1>2. CASE Helo \/ Command \/ ReplyIsCut \/ CallThrows \/ EndText
  BY <1>2 DEF Helo, Command, ReplyIsCut, CallThrows, EndText, SendSmtpCmd, LeftBehind,
              PartOfReply
<1>3. CASE TakeReplyLine
  <2>1. /\ mpc = "reply" /\ replies # <<>> /\ replies' = Tail(replies)
        /\ UNCHANGED <<gone, upset>>
    BY <1>3 DEF TakeReplyLine
  <2>2. replies' \in PartOfReply /\ (Head(replies) # "more" => replies' = <<>>)
    BY <2>1, ReplyLayouts DEF LeftBehind
  <2>3. CASE Head(replies) = "more"
    BY <1>3, <2>1, <2>2, <2>3 DEF TakeReplyLine, LeftBehind
  <2>4. CASE Head(replies) # "more"
    <3>1. AfterReply(after) /\ replies' = <<>>
      BY <1>3, <2>2, <2>4 DEF TakeReplyLine
    <3>2. QED
      BY <2>1, <2>2, <3>1 DEF AfterReply, SendSmtpCmd, LeftBehind
  <2>5. QED
    BY <2>3, <2>4
<1>4. CASE EofEndsReply
  BY <1>4 DEF EofEndsReply, AfterReply, SendSmtpCmd, LeftBehind
<1>5. ASSUME NEW message, NEW garbage, Data(message, garbage)
      PROVE  gone' /\ LeftBehind' /\ UNCHANGED upset
  BY <1>5 DEF Data, SendSmtpCmd, LeftBehind
<1>6. ASSUME NEW n, ReadPiece(n) \/ SendChar
      PROVE  gone' /\ LeftBehind' /\ UNCHANGED upset
  BY <1>6 DEF ReadPiece, SendChar, LeftBehind
<1>7. ~ServerReplies /\ ~ConnectionEnds
  BY DEF ServerReplies, ConnectionEnds
<1>8. QED
  BY <1>1, <1>2, <1>3, <1>4, <1>5, <1>6, <1>7 DEF SmtpNext

\* It leaves a part of what there was to read.
LEMMA ServerLeaves ==
  ASSUME InStep, ConnectionEnds
  PROVE  LeftBehind' /\ UNCHANGED upset
<1>1. PICK n \in 0..Len(replies) : replies' = Take(replies, n)
  BY DEF ConnectionEnds
<1>2. UNCHANGED <<mpc, after, upset>>
  BY DEF ConnectionEnds
<1>3. mpc # "astray" => replies \in Layout \cup {<<>>}
  BY DEF InStep, OneOutstanding
<1>4. mpc # "astray" => replies' \in PartOfReply
  BY <1>1, <1>3, ReplyLayouts
<1>5. replies = <<>> => replies' = <<>>
  BY <1>1, ReplyLayouts
<1>6. QED
  BY <1>2, <1>4, <1>5 DEF InStep, LeftBehind

\* As long as the server is there, they stay in step.
LEMMA StaysInStep ==
  ASSUME ~gone, InStep, ~upset, [SmtpNext]_smtpVars, ~ConnectionEnds, ~upset'
  PROVE  InStep' /\ ~gone'
<1>1. ~gone'
  BY DEF SmtpNext, Helo, Command, TakeReplyLine, ReplyIsCut, EofEndsReply, CallThrows, Data,
         ReadPiece, SendChar, EndText, ServerReplies, smtpVars
<1>. SUFFICES InStep'
  BY <1>1
<1>2. CASE UNCHANGED smtpVars
  BY <1>2 DEF smtpVars, messageVars, InStep, OneOutstanding
<1>3. CASE Helo
  BY <1>3 DEF Helo, messageVars, InStep, OneOutstanding
<1>4. CASE Command
  BY <1>4, ReplyLayouts DEF Command, SendSmtpCmd, messageVars, InStep, OneOutstanding
<1>5. CASE TakeReplyLine
  <2>1. mpc = "reply" /\ replies # <<>> /\ replies' = Tail(replies) /\ ~upset /\ InStep
    BY <1>5 DEF TakeReplyLine
  <2>2. replies \in Layout /\ unanswered = <<>>
    BY <2>1 DEF InStep, OneOutstanding
  <2>3. CASE Head(replies) = "more"
    <3>1. UNCHANGED <<mpc, after, unanswered>> /\ replies' \in Layout
      BY <1>5, <2>1, <2>2, <2>3, ReplyLayouts DEF TakeReplyLine
    <3>2. QED
      BY <2>1, <2>2, <3>1 DEF InStep, OneOutstanding
  <2>4. CASE Head(replies) # "more"
    <3>1. replies' = <<>>
      BY <2>1, <2>2, <2>4, ReplyLayouts
    <3>2. CASE after = "helo"
      <4>1. mpc' = "reply" /\ after' = "end" /\ unanswered' = <<"helo">>
        BY <1>5, <2>2, <2>4, <3>2, ReplyLayouts DEF TakeReplyLine, AfterReply, SendSmtpCmd
      <4>2. QED
        BY <3>1, <4>1 DEF InStep, OneOutstanding
    <3>3. CASE after = "data"
      BY <1>5, <2>2, <2>4, <3>1, <3>3 DEF TakeReplyLine, AfterReply, InStep
    <3>4. CASE after = "end"
      BY <1>5, <2>2, <2>4, <3>1, <3>4 DEF TakeReplyLine, AfterReply, InStep
    <3>5. QED
      BY <2>1, <3>2, <3>3, <3>4 DEF InStep
  <2>5. QED
    BY <2>3, <2>4
<1>6. CASE ReplyIsCut \/ CallThrows
  BY <1>6 DEF ReplyIsCut, CallThrows, messageVars, InStep
<1>7. ASSUME NEW message, NEW garbage, Data(message, garbage)
      PROVE  InStep'
  BY <1>7, ReplyLayouts DEF Data, SendSmtpCmd, InStep, OneOutstanding
<1>8. ASSUME NEW n, ReadPiece(n) \/ SendChar
      PROVE  InStep'
  BY <1>8 DEF ReadPiece, SendChar, InStep
<1>9. CASE EndText
  BY <1>9, ReplyLayouts DEF EndText, messageVars, InStep, OneOutstanding
<1>10. CASE ServerReplies
  <2>1. unanswered # <<>> /\ unanswered' = Tail(unanswered) /\ UNCHANGED <<mpc, after>>
    BY <1>10 DEF ServerReplies
  <2>2. PICK r \in Layout :
          IF Head(unanswered) = "text"
          THEN /\ replies' = replies \o (IF taking THEN r ELSE <<>>)
                                \o [i \in 1..WrongCommands |-> "last"]
               /\ upset' = (upset \/ WrongCommands # 0)
          ELSE /\ replies' = replies \o r
               /\ UNCHANGED upset
    BY <1>10 DEF ServerReplies
  <2>3. InStep
    OBVIOUS
  <2>4. mpc = "astray" => InStep'
    BY <2>1, <2>3 DEF InStep
  <2>5. CASE mpc # "astray"
    <3>1. mpc = "reply" /\ after \in {"data", "end"} /\ replies = <<>>
          /\ \E c \in {"helo", "command", "data", "text"} : unanswered = <<c>>
      BY <2>1, <2>3, <2>5 DEF InStep, OneOutstanding
    <3>2. unanswered' = <<>>
      BY <2>1, <3>1, ReplyLayouts
    <3>3. r \in Seq({"last", "more"}) /\ <<>> \in Seq(STRING)
      BY ReplyLayouts, EmptySeq
    <3>4. replies' \in Layout \cup {<<>>}
      <4>1. CASE Head(unanswered) = "text"
        <5>1. WrongCommands = 0
          BY <2>2, <4>1
        <5>2. [i \in 1..WrongCommands |-> "last"] = <<>>
          BY <3>3, <5>1, NothingAdded
        <5>3. PICK t : t = IF taking THEN r ELSE <<>>
          OBVIOUS
        <5>4. t \in Seq({"last", "more"}) /\ t \in Layout \cup {<<>>}
          BY <3>3, <5>3
        <5>5. replies' = (<<>> \o t) \o <<>>
          BY <2>2, <3>1, <4>1, <5>2, <5>3
        <5>6. QED
          BY <5>4, <5>5, NothingAdded
      <4>2. CASE Head(unanswered) # "text"
        BY <2>2, <3>1, <3>3, <4>2, NothingAdded
      <4>3. QED
        BY <4>1, <4>2
    <3>5. QED
      BY <2>1, <3>1, <3>2, <3>4 DEF InStep, OneOutstanding
  <2>6. QED
    BY <2>4, <2>5
<1>11. ~EofEndsReply
  BY DEF EofEndsReply
<1>12. QED
  BY <1>1, <1>2, <1>3, <1>4, <1>5, <1>6, <1>7, <1>8, <1>9, <1>10, <1>11 DEF SmtpNext

LEMMA SmtpIInvStep == SmtpIInv /\ [SmtpNext]_smtpVars => SmtpIInv'
<1>1. SUFFICES ASSUME SmtpIInv, [SmtpNext]_smtpVars, ~upset' PROVE SmtpIInv'
  BY DEF SmtpIInv
<1>2. CASE gone
  <2>1. CASE upset
    BY <1>1, <1>2, <2>1 DEF SmtpNext, Helo, Command, TakeReplyLine, ReplyIsCut,
      EofEndsReply, CallThrows, Data, ReadPiece, SendChar, EndText, ServerReplies,
      ConnectionEnds, smtpVars
  <2>2. CASE ~upset
    BY <1>1, <1>2, <2>2, GoneStays DEF SmtpIInv
  <2>3. QED
    BY <2>1, <2>2
<1>3. CASE ~gone
  <2>1. ~upset
    BY <1>1 DEF SmtpNext, Helo, Command, TakeReplyLine, ReplyIsCut,
      EofEndsReply, CallThrows, Data, ReadPiece, SendChar, EndText, ServerReplies,
      ConnectionEnds, smtpVars
  <2>2. CASE ConnectionEnds
    <3>1. gone'
      BY <2>2 DEF ConnectionEnds
    <3>2. QED
      BY <1>1, <1>3, <2>1, <2>2, <3>1, ServerLeaves DEF SmtpIInv
  <2>3. CASE ~ConnectionEnds
    BY <1>1, <1>3, <2>1, <2>3, StaysInStep DEF SmtpIInv
  <2>4. QED
    BY <2>2, <2>3
<1>4. QED
  BY <1>2, <1>3

\* The client takes exactly the replies to what it sent, for messages and
\* replies of any length, until the server has taken text for commands.
THEOREM SmtpInStep == SmtpSpec => []RepliesInStep
<1>1. SmtpInit => SmtpIInv
  BY DEF SmtpInit, SmtpIInv, InStep
<1>2. SmtpIInv => RepliesInStep
  BY DEF SmtpIInv, InStep, LeftBehind, RepliesInStep
<1>3. QED
  BY <1>1, <1>2, SmtpIInvStep, PTL DEF SmtpSpec

-----------------------------------------------------------------------------
(* The text of a message on its way through send_buf.                      *)

WireChars == {"crlf", "dot", "x"}

\* At the end of w a dot is one at the start of a line.
LineOpen(w) == w = <<>> \/ w[Len(w)] = "crlf"

\* What follows a dot that begins a line of w is not the end of the line; if
\* nothing follows yet, then another dot comes next.
Followed(w, dotNext) ==
  \A i \in DOMAIN w :
    w[i] = "dot" /\ AtLineStart(w, i, "crlf") =>
      IF i = Len(w) THEN dotNext ELSE w[i + 1] # "crlf"

\* w without its doubled dots is the first d characters of t, converted.
Numbered(w, t, d) ==
  /\ Cardinality(Kept(w)) = d
  /\ \A i \in Kept(w) : w[i] = Converted(t[Cardinality(Kept(w) \cap 1..i)])

LEMMA WireGrows ==
  ASSUME NEW w \in Seq(WireChars), NEW c \in WireChars
  PROVE  /\ Append(w, c) \in Seq(WireChars)
         /\ w \o <<c>> = Append(w, c)
         /\ Len(w) \in Nat
         /\ DOMAIN w = 1 .. Len(w)
         /\ DOMAIN Append(w, c) = 1 .. Len(w) + 1
         /\ Len(Append(w, c)) = Len(w) + 1
         /\ \A i \in 1 .. Len(w) : Append(w, c)[i] = w[i]
         /\ Append(w, c)[Len(w) + 1] = c
         /\ w = <<>> <=> Len(w) = 0
BY AppendIsConcat, AppendProperties, LenProperties, EmptySeq

\* Two at once are one and another one.
LEMMA TwoMore ==
  ASSUME NEW w \in Seq(WireChars), NEW c \in WireChars, NEW d \in WireChars
  PROVE  w \o <<c, d>> = Append(Append(w, c), d)
<1>1. <<c>> \in Seq(WireChars) /\ <<d>> \in Seq(WireChars)
  OBVIOUS
<1>2. <<c, d>> = <<c>> \o <<d>>
  <2>1. Append(<<c>>, d) = <<c, d>>
    <3>1. /\ Append(<<c>>, d) \in Seq(WireChars) /\ Len(Append(<<c>>, d)) = 2
          /\ Append(<<c>>, d)[1] = c /\ Append(<<c>>, d)[2] = d
      BY <1>1, AppendProperties
    <3>2. /\ <<c, d>> \in Seq(WireChars) /\ Len(<<c, d>>) = 2
          /\ <<c, d>>[1] = c /\ <<c, d>>[2] = d
      OBVIOUS
    <3>3. \A i \in 1 .. 2 : i = 1 \/ i = 2
      OBVIOUS
    <3>4. PICK s \in Seq(WireChars), t \in Seq(WireChars) :
            s = Append(<<c>>, d) /\ t = <<c, d>>
      BY <3>1, <3>2
    <3>5. Len(s) = 2 /\ Len(t) = 2 /\ \A i \in 1 .. 2 : s[i] = t[i]
      BY <3>1, <3>2, <3>3, <3>4
    <3>6. s = t
      BY <3>5, SeqEqual
    <3>7. QED
      BY <3>4, <3>6
  <2>2. QED
    BY <1>1, <2>1, AppendIsConcat
<1>3. w \o <<c, d>> = (w \o <<c>>) \o <<d>>
  BY <1>1, <1>2, JoinAssoc
<1>4. QED
  BY <1>3, WireGrows

LEMMA LineStartsKept ==
  ASSUME NEW w \in Seq(WireChars), NEW c \in WireChars
  PROVE  /\ \A i \in 1 .. Len(w) :
              AtLineStart(Append(w, c), i, "crlf") <=> AtLineStart(w, i, "crlf")
         /\ AtLineStart(Append(w, c), Len(w) + 1, "crlf") <=> LineOpen(w)
<1>1. \A i \in 1 .. Len(w) : i = 1 \/ i - 1 \in 1 .. Len(w)
  BY WireGrows
<1>2. Len(w) = 0 \/ Len(w) \in 1 .. Len(w)
  BY WireGrows
<1>3. (Len(w) + 1) - 1 = Len(w) /\ (Len(w) + 1 = 1 <=> Len(w) = 0)
  BY WireGrows
<1>4. ASSUME NEW i \in 1 .. Len(w)
      PROVE  AtLineStart(Append(w, c), i, "crlf") <=> AtLineStart(w, i, "crlf")
  BY <1>1, WireGrows DEF AtLineStart
<1>5. AtLineStart(Append(w, c), Len(w) + 1, "crlf") <=> LineOpen(w)
  <2>1. CASE Len(w) = 0
    BY <1>3, <2>1, WireGrows DEF AtLineStart, LineOpen
  <2>2. CASE Len(w) # 0
    <3>1. Append(w, c)[(Len(w) + 1) - 1] = w[Len(w)]
      <4>1. Append(w, c)[Len(w)] = w[Len(w)]
        BY <1>2, <2>2, WireGrows
      <4>2. QED
        BY <1>3, <4>1
    <3>2. w # <<>> /\ Len(w) + 1 # 1
      BY <1>3, <2>2, WireGrows
    <3>3. QED
      BY <3>1, <3>2 DEF AtLineStart, LineOpen
  <2>3. QED
    BY <2>1, <2>2
<1>6. QED
  BY <1>4, <1>5

LEMMA KeptOfMore ==
  ASSUME NEW w \in Seq(WireChars), NEW c \in WireChars
  PROVE  Kept(Append(w, c)) = IF c = "dot" /\ LineOpen(w) THEN Kept(w)
                              ELSE Kept(w) \cup {Len(w) + 1}
<1>1. \A i \in 1 .. Len(w) : i \in Kept(Append(w, c)) <=> i \in Kept(w)
  BY WireGrows, LineStartsKept DEF Kept
<1>2. Len(w) + 1 \in Kept(Append(w, c)) <=> ~(c = "dot" /\ LineOpen(w))
  BY WireGrows, LineStartsKept DEF Kept
<1>3. 1 .. Len(w) + 1 = (1 .. Len(w)) \cup {Len(w) + 1}
  BY WireGrows
<1>4. Kept(Append(w, c)) \subseteq 1 .. Len(w) + 1 /\ Kept(w) \subseteq 1 .. Len(w)
  BY WireGrows DEF Kept
<1>5. CASE c = "dot" /\ LineOpen(w)
  <2>1. Len(w) + 1 \notin Kept(Append(w, c))
    BY <1>2, <1>5
  <2>2. Kept(Append(w, c)) = Kept(w)
    BY <1>1, <1>3, <1>4, <2>1
  <2>3. QED
    BY <1>5, <2>2
<1>6. CASE ~(c = "dot" /\ LineOpen(w))
  <2>1. Len(w) + 1 \in Kept(Append(w, c))
    BY <1>2, <1>6
  <2>2. Kept(Append(w, c)) = Kept(w) \cup {Len(w) + 1}
    BY <1>1, <1>3, <1>4, <2>1
  <2>3. QED
    BY <1>6, <2>2
<1>7. QED
  BY <1>5, <1>6

LEMMA KeptFinite ==
  ASSUME NEW w \in Seq(WireChars)
  PROVE  /\ IsFiniteSet(Kept(w)) /\ Kept(w) \subseteq 1 .. Len(w)
         /\ Cardinality(Kept(w)) \in Nat
<1>1. Kept(w) \subseteq 1 .. Len(w) /\ Len(w) \in Nat /\ 1 \in Int /\ Len(w) \in Int
  BY WireGrows, LenProperties DEF Kept
<1>2. IsFiniteSet(1 .. Len(w))
  BY <1>1, FS_Interval
<1>3. IsFiniteSet(Kept(w))
  BY <1>1, <1>2, FS_Subset
<1>4. QED
  BY <1>1, <1>3, FS_CardinalityType

\* A doubled dot changes nothing of what the server gets.
LEMMA DotDropped ==
  ASSUME NEW w \in Seq(WireChars), LineOpen(w), NEW t, NEW d, Numbered(w, t, d)
  PROVE  Numbered(Append(w, "dot"), t, d)
<1>1. "dot" \in WireChars
  BY DEF WireChars
<1>2. Kept(Append(w, "dot")) = Kept(w)
  BY <1>1, KeptOfMore
<1>3. \A i \in Kept(w) : Append(w, "dot")[i] = w[i]
  BY <1>1, WireGrows, KeptFinite
<1>4. QED
  BY <1>2, <1>3 DEF Numbered

\* Any other character is the next one of the text.
LEMMA CharKept ==
  ASSUME NEW w \in Seq(WireChars), NEW c \in WireChars, ~(c = "dot" /\ LineOpen(w)),
         NEW t, NEW d \in Nat, Numbered(w, t, d), c = Converted(t[d + 1])
  PROVE  Numbered(Append(w, c), t, d + 1)
<1> DEFINE K == Kept(w)
           n == Len(w) + 1
<1>1. Kept(Append(w, c)) = K \cup {n}
  BY KeptOfMore
<1>2. n \notin K /\ Len(w) \in Nat
  BY KeptFinite, WireGrows
<1>3. Cardinality(K \cup {n}) = d + 1
  BY <1>2, KeptFinite, FS_AddElement DEF Numbered
<1>4. (K \cup {n}) \cap 1 .. n = K \cup {n}
  BY <1>2, KeptFinite
<1>5. ASSUME NEW i \in K
      PROVE  Append(w, c)[i] = Converted(t[Cardinality((K \cup {n}) \cap 1 .. i)])
  <2>1. i \in 1 .. Len(w)
    BY <1>5, KeptFinite
  <2>2. (K \cup {n}) \cap 1 .. i = K \cap 1 .. i
    BY <1>2, <2>1
  <2>3. Append(w, c)[i] = w[i]
    BY <2>1, WireGrows
  <2>4. QED
    BY <1>5, <2>2, <2>3 DEF Numbered
<1>6. Append(w, c)[n] = Converted(t[Cardinality((K \cup {n}) \cap 1 .. n)])
  <2>1. Cardinality((K \cup {n}) \cap 1 .. n) = d + 1
    BY <1>3, <1>4
  <2>2. Append(w, c)[n] = c
    BY WireGrows
  <2>3. QED
    BY <2>1, <2>2
<1>7. QED
  BY <1>1, <1>3, <1>5, <1>6 DEF Numbered

LEMMA FollowedOfMore ==
  ASSUME NEW w \in Seq(WireChars), NEW c \in WireChars, NEW before, NEW next,
         Followed(w, before), before => c # "crlf",
         c = "dot" /\ LineOpen(w) => next
  PROVE  Followed(Append(w, c), next)
<1>1. SUFFICES ASSUME NEW i \in 1 .. Len(w) + 1, Append(w, c)[i] = "dot",
                      AtLineStart(Append(w, c), i, "crlf")
               PROVE  IF i = Len(w) + 1 THEN next ELSE Append(w, c)[i + 1] # "crlf"
  BY WireGrows DEF Followed
<1>2. CASE i = Len(w) + 1
  BY <1>1, <1>2, WireGrows, LineStartsKept
<1>3. CASE i # Len(w) + 1
  <2>1. i \in 1 .. Len(w) /\ w[i] = "dot" /\ AtLineStart(w, i, "crlf") /\ i \in DOMAIN w
    BY <1>1, <1>3, WireGrows, LineStartsKept
  <2>2. CASE i = Len(w)
    <3>1. before
      BY <2>1, <2>2 DEF Followed
    <3>2. Append(w, c)[i + 1] = c
      BY <2>2, WireGrows
    <3>3. QED
      BY <1>3, <3>1, <3>2
  <2>3. CASE i # Len(w)
    <3>1. w[i + 1] # "crlf"
      BY <2>1, <2>3 DEF Followed
    <3>2. i + 1 \in 1 .. Len(w)
      BY <2>1, <2>3, WireGrows
    <3>3. QED
      BY <1>3, <3>1, <3>2, WireGrows
  <2>4. QED
    BY <2>2, <2>3
<1>4. QED
  BY <1>2, <1>3

\* The end of a line ends the message only behind a dot that begins it.
LEMMA OnlyTheLastEnds ==
  ASSUME NEW w \in Seq(WireChars), Followed(w, TRUE),
         NEW i \in DOMAIN Append(w, "crlf"), EndsAt(Append(w, "crlf"), i)
  PROVE  i = Len(w)
<1>1. "crlf" \in WireChars
  BY DEF WireChars
<1>2. i \in 1 .. Len(w) /\ Len(w) \in Nat
  BY <1>1, WireGrows DEF EndsAt
<1>3. w[i] = "dot" /\ AtLineStart(w, i, "crlf") /\ i \in DOMAIN w
  BY <1>1, <1>2, WireGrows, LineStartsKept DEF EndsAt
<1>4. CASE i # Len(w)
  <2>1. w[i + 1] # "crlf"
    BY <1>3, <1>4 DEF Followed
  <2>2. i + 1 \in 1 .. Len(w)
    BY <1>2, <1>4
  <2>3. QED
    BY <1>1, <2>1, <2>2, WireGrows DEF EndsAt
<1>5. QED
  BY <1>4

\* With a dot to follow no line the ending makes ends the message before it.
LEMMA EndingEnds ==
  ASSUME NEW w \in Seq(WireChars), Followed(w, FALSE)
  PROVE  EndsOnce(w \o Ending)
<1> DEFINE s == Append(Append(Append(w, "crlf"), "dot"), "crlf")
           a == Append(w, "crlf")
           b == Append(a, "dot")
<1>1. "crlf" \in WireChars /\ "dot" \in WireChars
  BY DEF WireChars
<1>2. a \in Seq(WireChars) /\ b \in Seq(WireChars) /\ s \in Seq(WireChars)
  BY <1>1, WireGrows
<1>3. w \o Ending = s
  <2>1. <<"crlf", "dot">> \in Seq(WireChars) /\ <<"crlf">> \in Seq(WireChars)
    BY <1>1
  <2>2. Ending = <<"crlf", "dot">> \o <<"crlf">>
    BY DEF Ending
  <2>3. w \o Ending = (w \o <<"crlf", "dot">>) \o <<"crlf">>
    BY <2>1, <2>2, JoinAssoc
  <2>4. QED
    BY <1>1, <1>2, <2>3, TwoMore, WireGrows
<1>4. Followed(a, FALSE)
  BY <1>1, FollowedOfMore
<1>5. Len(a) = Len(w) + 1 /\ Len(b) = Len(w) + 2 /\ Len(s) = Len(w) + 3 /\ Len(w) \in Nat
  BY <1>1, <1>2, WireGrows
<1>6. Followed(b, TRUE)
  BY <1>1, <1>2, <1>4, FollowedOfMore
<1>7. \A i \in DOMAIN s : EndsAt(s, i) => i = Len(b)
  BY <1>2, <1>6, OnlyTheLastEnds
<1>8. QED
  BY <1>3, <1>5, <1>7 DEF EndsOnce

\* send_buf is at a dot it has not put yet.
DotDue == at <= rcnt /\ buf[at] = "dot"

TextTyped ==
  /\ text \in Seq(Chars) /\ wire \in Seq(WireChars)
  /\ buf \in [1..(BufLen + 1) -> Chars]
  /\ done \in Nat /\ rcnt \in 0..BufLen /\ at \in 1..(rcnt + 1)

\* What is left of the piece is what comes next in the text.
PieceFromText ==
  /\ done + (rcnt + 1 - at) <= Len(text)
  /\ \A k \in at..rcnt : buf[k] = text[done + 1 + k - at]

\* At the start of a line of the text the wire is at the start of one too.
LinesAgree == AtLineStart(text, done + 1, "lf") => LineOpen(wire)

TextIInv ==
  /\ TextTyped /\ PieceFromText
  /\ DotDue => ~LineOpen(wire)
  /\ "behind the piece" \notin misdotted => Followed(wire, DotDue)
  /\ misdotted = {} => Numbered(wire, text, done)
  /\ misdotted = {} /\ at > rcnt => LinesAgree

LEMMA SameMessage == TextIInv /\ UNCHANGED messageVars => TextIInv'
BY DEF TextIInv, TextTyped, PieceFromText, DotDue, LinesAgree, messageVars

LEMMA FreshMessage ==
  ASSUME NEW n \in Nat, text' \in [1..n -> Chars], NEW garbage \in Chars,
         buf' = [i \in 1..(BufLen + 1) |-> garbage],
         done' = 0, wire' = <<>>, misdotted' = {}, rcnt' = 0, at' = 1
  PROVE  TextIInv'
<1>1. text' \in Seq(Chars) /\ Len(text') \in Nat
  BY SeqDef, LenProperties
<1>2. <<>> \in Seq(WireChars) /\ DOMAIN <<>> = {}
  BY EmptySeq
<1>3. TextTyped'
  BY <1>1, <1>2, SmtpConstants DEF TextTyped
<1>4. PieceFromText'
  BY <1>1 DEF PieceFromText
<1>5. ~DotDue'
  BY DEF DotDue
<1>6. Followed(wire, DotDue)'
  BY <1>2 DEF Followed
<1>7. Numbered(wire, text, done)'
  <2>1. Kept(<<>>) = {}
    BY <1>2 DEF Kept
  <2>2. QED
    BY <2>1, FS_EmptySet DEF Numbered
<1>8. LinesAgree'
  BY DEF LinesAgree, LineOpen
<1>9. QED
  BY <1>3, <1>4, <1>5, <1>6, <1>7, <1>8 DEF TextIInv

LEMMA PieceRead ==
  ASSUME TextIInv, NEW n \in 1..BufLen, ReadPiece(n)
  PROVE  TextIInv'
<1>1. PICK b : b = [i \in 1..(BufLen + 1) |-> IF i <= n THEN text[done + i] ELSE buf[i]]
  OBVIOUS
<1>2. /\ at > rcnt /\ done + n <= Len(text)
      /\ buf' = b /\ rcnt' = n /\ at' = 1 /\ UNCHANGED <<text, done>>
      /\ wire' = wire \o PieceBegins(b)
  BY <1>1 DEF ReadPiece
<1>3. misdotted' = IF b[1] = "dot" /\ ~AtLineStart(text, done + 1, "lf")
                   THEN misdotted \cup {"within a line"} ELSE misdotted
  BY <1>1 DEF ReadPiece
<1>4. TextTyped /\ BufLen \in Nat /\ Len(text) \in Nat
  BY SmtpConstants, LenProperties DEF TextIInv, TextTyped
<1>5. \A i \in 1..n : b[i] = text[done + i]
  BY <1>1, <1>4
<1>6. b \in [1..(BufLen + 1) -> Chars]
  <2>1. \A i \in 1..n : text[done + i] \in Chars
    BY <1>2, <1>4, ElementOfSeq DEF TextTyped
  <2>2. \A i \in 1..(BufLen + 1) : buf[i] \in Chars /\ (i <= n => i \in 1..n)
    BY <1>4 DEF TextTyped
  <2>3. \A i \in 1..(BufLen + 1) : (IF i <= n THEN text[done + i] ELSE buf[i]) \in Chars
    BY <2>1, <2>2
  <2>4. QED
    BY <1>1, <2>3
<1>7. PieceFromText'
  BY <1>2, <1>4, <1>5 DEF PieceFromText, TextTyped
<1>8. ~DotDue
  BY <1>2, <1>4 DEF DotDue, TextTyped
<1>9. ~(at' > rcnt') /\ (DotDue' <=> b[1] = "dot")
  BY <1>2 DEF DotDue
<1>10. CASE b[1] = "dot"
  <2>1. "dot" \in WireChars
    BY DEF WireChars
  <2>2. wire' = Append(wire, "dot")
    BY <1>2, <1>4, <1>10, <2>1, WireGrows DEF PieceBegins, TextTyped
  <2>3. wire' \in Seq(WireChars) /\ ~LineOpen(wire')
    BY <1>4, <2>1, <2>2, WireGrows DEF TextTyped, LineOpen
  <2>4. TextTyped'
    BY <1>2, <1>4, <1>6, <2>3 DEF TextTyped
  <2>5. "behind the piece" \notin misdotted' => Followed(wire', DotDue')
    <3>1. SUFFICES ASSUME "behind the piece" \notin misdotted' PROVE Followed(wire', DotDue')
      OBVIOUS
    <3>2. Followed(wire, FALSE)
      BY <1>8, <1>3, <3>1 DEF TextIInv, Followed
    <3>3. Followed(wire', TRUE)
      BY <1>4, <2>1, <2>2, <3>2, FollowedOfMore DEF TextTyped
    <3>4. QED
      BY <1>9, <1>10, <3>3 DEF Followed
  <2>6. misdotted' = {} => Numbered(wire', text', done')
    <3>1. SUFFICES ASSUME misdotted' = {} PROVE Numbered(wire', text', done')
      OBVIOUS
    <3>2. misdotted = {} /\ AtLineStart(text, done + 1, "lf")
      BY <1>10, <1>3, <3>1
    <3>3. LineOpen(wire) /\ Numbered(wire, text, done)
      BY <1>2, <3>2 DEF TextIInv, LinesAgree
    <3>4. QED
      BY <1>2, <1>4, <2>2, <3>3, DotDropped DEF TextTyped
  <2>7. QED
    BY <1>7, <1>9, <2>3, <2>4, <2>5, <2>6, Zenon DEF TextIInv
<1>11. CASE b[1] # "dot"
  <2>1. wire' = wire
    BY <1>2, <1>4, <1>11, ConcatEmptySeq DEF PieceBegins, TextTyped
  <2>2. misdotted' = misdotted
    BY <1>11, <1>3
  <2>3. TextTyped'
    BY <1>2, <1>4, <1>6, <2>1 DEF TextTyped
  <2>4. "behind the piece" \notin misdotted' => Followed(wire', DotDue')
    BY <1>8, <1>9, <1>11, <2>1, <2>2 DEF TextIInv, Followed
  <2>5. misdotted' = {} => Numbered(wire', text', done')
    BY <1>2, <2>1, <2>2 DEF TextIInv
  <2>6. QED
    BY <1>7, <1>9, <1>11, <2>3, <2>4, <2>5, Zenon DEF TextIInv
<1>12. QED
  BY <1>10, <1>11

LEMMA CharSent == TextIInv /\ SendChar => TextIInv'
<1>1. SUFFICES ASSUME TextIInv, SendChar PROVE TextIInv'
  OBVIOUS
<1>2. PICK c : c = buf[at]
  OBVIOUS
<1>3. /\ at <= rcnt /\ at' = at + 1 /\ done' = done + 1
      /\ UNCHANGED <<text, buf, rcnt>>
      /\ wire' = wire \o OnWire(buf, at)
  BY <1>1, <1>2 DEF SendChar
<1>4. misdotted' = IF at = rcnt /\ c = "lf" /\ buf[at + 1] = "dot"
                   THEN misdotted \cup {"behind the piece"} ELSE misdotted
  BY <1>1, <1>2 DEF SendChar
<1>5. TextTyped /\ BufLen \in Nat /\ Len(text) \in Nat
  BY <1>1, SmtpConstants, LenProperties DEF TextIInv, TextTyped
<1>6. PieceFromText
  BY <1>1 DEF TextIInv
<1>7. c \in Chars /\ c = text[done + 1] /\ done + 1 \in 1..Len(text)
  <2>1. at \in at..rcnt /\ at \in 1..(BufLen + 1) /\ done + 1 + at - at = done + 1
    BY <1>3, <1>5 DEF TextTyped
  <2>2. c \in Chars
    BY <1>2, <1>5, <2>1 DEF TextTyped
  <2>3. done + 1 <= Len(text)
    BY <1>3, <1>5, <1>6 DEF TextTyped, PieceFromText
  <2>4. c = text[done + 1]
    BY <1>2, <1>6, <2>1 DEF PieceFromText
  <2>5. QED
    BY <1>5, <2>2, <2>3, <2>4 DEF TextTyped
<1>8. PieceFromText'
  <2>1. \A k \in at + 1..rcnt : k \in at..rcnt /\ (done + 1) + 1 + k - (at + 1) = done + 1 + k - at
    BY <1>5 DEF TextTyped
  <2>2. QED
    BY <1>3, <1>5, <1>6, <2>1 DEF PieceFromText, TextTyped
<1>9. {"crlf", "dot"} \subseteq WireChars /\ wire \in Seq(WireChars)
  BY <1>5 DEF WireChars, TextTyped
<1>10. ASSUME wire' \in Seq(WireChars) PROVE TextTyped'
  BY <1>3, <1>5, <1>10 DEF TextTyped
<1>11. DotDue' <=> at + 1 <= rcnt /\ buf[at + 1] = "dot"
  BY <1>3 DEF DotDue
<1>12. CASE c # "lf"
  <2>1. c \in WireChars /\ c # "crlf" /\ Converted(c) = c
    BY <1>7, <1>12 DEF Chars, WireChars, Converted
  <2>2. wire' = Append(wire, c)
    BY <1>2, <1>3, <1>9, <1>12, <2>1, WireGrows DEF OnWire
  <2>3. wire' \in Seq(WireChars) /\ ~LineOpen(wire')
    BY <1>9, <2>1, <2>2, WireGrows DEF LineOpen
  <2>4. c = "dot" => ~LineOpen(wire)
    BY <1>1, <1>2, <1>3 DEF TextIInv, DotDue
  <2>5. misdotted' = misdotted
    BY <1>12, <1>4
  <2>6. "behind the piece" \notin misdotted' => Followed(wire', DotDue')
    <3>1. SUFFICES ASSUME "behind the piece" \notin misdotted PROVE Followed(wire', DotDue')
      BY <2>5
    <3>2. Followed(wire, TRUE)
      BY <1>1, <3>1 DEF TextIInv, Followed
    <3>3. Followed(wire', FALSE)
      BY <1>9, <2>1, <2>2, <2>4, <3>2, FollowedOfMore
    <3>4. QED
      BY <3>3 DEF Followed
  <2>7. misdotted' = {} => Numbered(wire', text', done')
    BY <1>1, <1>3, <1>5, <1>7, <1>9, <2>1, <2>2, <2>4, <2>5, CharKept DEF TextIInv, TextTyped
  <2>8. LinesAgree'
    <3>1. ~AtLineStart(text, (done + 1) + 1, "lf")
      BY <1>5, <1>7, <1>12 DEF AtLineStart, TextTyped
    <3>2. QED
      BY <1>3, <3>1 DEF LinesAgree
  <2>9. QED
    BY <1>8, <1>10, <2>3, <2>6, <2>7, <2>8 DEF TextIInv
<1>13. CASE c = "lf"
  <2>1. PICK w : w = Append(wire, "crlf")
    OBVIOUS
  <2>2. w \in Seq(WireChars) /\ LineOpen(w) /\ wire \o <<"crlf">> = w
    BY <1>9, <2>1, WireGrows DEF LineOpen
  <2>3. ~DotDue /\ Converted(c) = "crlf"
    BY <1>2, <1>13 DEF DotDue, Converted
  <2>4. "behind the piece" \notin misdotted => Followed(w, FALSE)
    <3>1. SUFFICES ASSUME "behind the piece" \notin misdotted PROVE Followed(w, FALSE)
      OBVIOUS
    <3>2. Followed(wire, FALSE)
      BY <1>1, <2>3, <3>1 DEF TextIInv, Followed
    <3>3. QED
      BY <1>9, <2>1, <3>2, FollowedOfMore
  <2>5. misdotted = {} => Numbered(w, text', done')
    BY <1>1, <1>3, <1>5, <1>7, <1>9, <2>1, <2>3, CharKept DEF TextIInv, TextTyped
  <2>6. CASE buf[at + 1] = "dot"
    <3>1. wire' = Append(w, "dot")
      BY <1>2, <1>3, <1>9, <1>13, <2>1, <2>6, TwoMore DEF OnWire
    <3>2. wire' \in Seq(WireChars) /\ ~LineOpen(wire')
      <4>1. "dot" \in WireChars
        BY <1>9
      <4>2. QED
        BY <2>2, <3>1, <4>1, WireGrows DEF LineOpen
    <3>3. CASE at = rcnt
      <4>1. "behind the piece" \in misdotted'
        BY <1>13, <1>4, <2>6, <3>3
      <4>2. QED
        BY <1>8, <1>10, <3>2, <4>1 DEF TextIInv
    <3>4. CASE at # rcnt
      <4>1. DotDue' /\ misdotted' = misdotted /\ ~(at' > rcnt')
        BY <1>3, <1>5, <1>11, <1>4, <2>6, <3>4 DEF TextTyped
      <4>2. "behind the piece" \notin misdotted => Followed(wire', TRUE)
        BY <1>9, <2>2, <2>4, <3>1, FollowedOfMore
      <4>3. "behind the piece" \notin misdotted' => Followed(wire', DotDue')
        BY <4>1, <4>2 DEF Followed
      <4>4. misdotted' = {} => Numbered(wire', text', done')
        BY <2>2, <2>5, <3>1, <4>1, DotDropped
      <4>5. QED
        BY <1>8, <1>10, <3>2, <4>1, <4>3, <4>4 DEF TextIInv
    <3>5. QED
      BY <3>3, <3>4
  <2>7. CASE buf[at + 1] # "dot"
    <3>1. wire' = w /\ misdotted' = misdotted /\ ~DotDue'
      BY <1>2, <1>3, <1>11, <1>13, <1>4, <2>2, <2>7 DEF OnWire
    <3>2. "behind the piece" \notin misdotted' => Followed(wire', DotDue')
      BY <2>4, <3>1 DEF Followed
    <3>3. LinesAgree'
      BY <2>2, <3>1 DEF LinesAgree
    <3>4. QED
      BY <1>8, <1>10, <2>2, <2>5, <3>1, <3>2, <3>3 DEF TextIInv
  <2>8. QED
    BY <2>6, <2>7
<1>14. QED
  BY <1>12, <1>13

LEMMA TextIInvStep == TextIInv /\ [SmtpNext]_smtpVars => TextIInv'
<1>1. SUFFICES ASSUME TextIInv, [SmtpNext]_smtpVars PROVE TextIInv'
  OBVIOUS
<1>2. CASE UNCHANGED smtpVars
  BY <1>1, <1>2, SameMessage DEF smtpVars, messageVars
<1>3. CASE \/ Helo \/ Command \/ TakeReplyLine \/ ReplyIsCut \/ EofEndsReply
           \/ CallThrows \/ EndText \/ ServerReplies \/ ConnectionEnds
  <2>1. UNCHANGED messageVars
    BY <1>3 DEF Helo, Command, TakeReplyLine, ReplyIsCut, EofEndsReply, CallThrows,
                EndText, ServerReplies, ConnectionEnds
  <2>2. QED
    BY <1>1, <2>1, SameMessage
<1>4. ASSUME NEW n \in 0..MaxText, NEW message \in [1..n -> Chars],
             NEW garbage \in {"dot", "x"}, Data(message, garbage)
      PROVE  TextIInv'
  <2>1. garbage \in Chars /\ n \in Nat
    BY DEF Chars
  <2>2. QED
    BY <1>4, <2>1, FreshMessage DEF Data
<1>5. ASSUME NEW n \in 1..BufLen, ReadPiece(n)
      PROVE  TextIInv'
  BY <1>1, <1>5, PieceRead
<1>6. CASE SendChar
  BY <1>1, <1>6, CharSent
<1>7. QED
  BY <1>1, <1>2, <1>3, <1>4, <1>5, <1>6 DEF SmtpNext

LEMMA TextIInvInit == SmtpInit => TextIInv
<1>1. SUFFICES ASSUME SmtpInit PROVE TextIInv
  OBVIOUS
<1>2. <<>> \in Seq(WireChars) /\ <<>> \in Seq(Chars) /\ Len(<<>>) = 0 /\ DOMAIN <<>> = {}
  BY EmptySeq
<1>3. "x" \in Chars
  BY DEF Chars
<1>4. TextTyped /\ PieceFromText /\ ~DotDue
  BY <1>1, <1>2, <1>3, SmtpConstants DEF SmtpInit, TextTyped, PieceFromText, DotDue
<1>5. Followed(wire, DotDue) /\ LineOpen(wire)
  BY <1>1, <1>2 DEF SmtpInit, Followed, LineOpen
<1>6. Numbered(wire, text, done)
  <2>1. Kept(<<>>) = {}
    BY <1>2 DEF Kept
  <2>2. QED
    BY <1>1, <2>1, FS_EmptySet DEF SmtpInit, Numbered
<1>7. QED
  BY <1>4, <1>5, <1>6 DEF TextIInv, LinesAgree

\* The server gets the text itself, for every text, every length of the buffer
\* and every cut into pieces, unless send_buf doubled a dot in a wrong place.
THEOREM SmtpTextArrives == SmtpSpec => []TextArrives
<1>1. TextIInv => TextArrives
  BY DEF TextIInv, Numbered, TextArrives
<1>2. QED
  BY <1>1, TextIInvInit, TextIInvStep, PTL DEF SmtpSpec

\* A message does not end before its end, for every text, every length of the
\* buffer and every cut into pieces, wherever a read of it fails, unless a dot
\* lay behind a piece (smtp.cpp, send_buf and data).
THEOREM SmtpEndsOnce == SmtpSpec => []NoEarlyEnd
<1>1. TextIInv => NoEarlyEnd
  <2>1. SUFFICES ASSUME TextIInv, at > rcnt, "behind the piece" \notin misdotted
                 PROVE  EndsOnce(wire \o Ending)
    BY DEF NoEarlyEnd
  <2>2. ~DotDue
    <3>1. at \in 1..(rcnt + 1) /\ rcnt \in 0..BufLen /\ BufLen \in Nat
      BY <2>1, SmtpConstants DEF TextIInv, TextTyped
    <3>2. at \in Int /\ rcnt \in Int
      BY <3>1
    <3>3. at > rcnt
      BY <2>1
    <3>4. ~(at <= rcnt)
      BY <3>2, <3>3
    <3>5. QED
      BY <3>4 DEF DotDue
  <2>3. Followed(wire, FALSE)
    BY <2>1, <2>2 DEF TextIInv, Followed
  <2>4. QED
    BY <2>1, <2>3, EndingEnds DEF TextIInv, TextTyped
<1>2. QED
  BY <1>1, TextIInvInit, TextIInvStep, PTL DEF SmtpSpec

-----------------------------------------------------------------------------
(* The ftp client.                                                         *)

Half == [cmd : Nat, digit : Nat, line : {"first", "text", "last"}, half : {1, 2}]

\* What the client has not read of a reply with digit d to its last command.
Lines(d) == {Halves(sent, d, "last"), Halves(sent, d, "text") \o Halves(sent, d, "last")}

Reading(d) ==
  IF firstline THEN area \o ctrl \in Replies(sent, d)
  ELSE replycode = [cmd |-> sent, digit |-> d] /\ area \o ctrl \in Lines(d)

AllRead == area = <<>> /\ ctrl = <<>>

\* The operation is a transfer.
Moves == op \in {"store", "retrieve"}

Resting ==
  /\ cpc = "idle" /\ sphase = "idle" /\ cmds = <<>> /\ AllRead
  /\ sent \in DOMAIN outcome /\ (Failed(result) <=> Failed(outcome[sent]))
  /\ op = "store" /\ ~Failed(result) => stored = File

Asked ==
  /\ cpc = "reply" /\ sphase = "idle" /\ AllRead /\ firstline
  /\ \/ stage = "end" /\ cmds \in {<<"plain">>, <<"rnto">>} /\ op # "store"
     \/ stage = "rnfr" /\ cmds = <<"rnfr">> /\ op # "store"
     \/ stage = "port" /\ cmds = <<"port">> /\ Moves
     \/ stage = "begin" /\ cmds = <<op>> /\ Moves

Replied ==
  /\ cpc = "reply" /\ sphase = "idle" /\ cmds = <<>>
  /\ sent \in DOMAIN outcome /\ outcome[sent] \in Nat /\ Reading(outcome[sent])
  /\ \/ /\ stage = "end"
        /\ op = "store" /\ ~Failed(outcome[sent]) => stored = File
     \/ stage = "rnfr" /\ op # "store"
     \/ stage = "port" /\ Moves
     \/ stage = "begin" /\ outcome[sent] = 5

Begun ==
  /\ cpc = "reply" /\ stage = "begin" /\ sphase \in {"connecting", "connected"}
  /\ cmds = <<op>> /\ Moves /\ Reading(1)

Accepting ==
  /\ cpc = "accept" /\ sphase \in {"connecting", "connected"}
  /\ cmds = <<op>> /\ Moves /\ AllRead

\* The pieces read of the file are those in the connection and at the server.
Moving ==
  /\ pos \in 0 .. FileLen /\ data \in Seq(Nat) /\ stored \in Seq(Nat)
  /\ stored \o data = Take(File, pos)

Storing ==
  /\ cpc = "store" /\ sphase = "data" /\ op = "store" /\ cmds = <<"store">>
  /\ dopen /\ AllRead /\ Moving

AllStored ==
  /\ cpc = "reply" /\ stage = "end" /\ firstline
  /\ sphase = "data" /\ op = "store" /\ cmds = <<"store">>
  /\ AllRead /\ Moving /\ pos = FileLen

\* The server has given the transfer up, and the client still sends.
Aborted ==
  /\ cpc = "store" /\ sphase = "idle" /\ op = "store" /\ cmds = <<>>
  /\ sent \in DOMAIN outcome /\ outcome[sent] = 4
  /\ area \o ctrl \in Replies(sent, 4)

Clean == lost = {}

FtpIInv ==
  Clean =>
    \/ cpc = "retrieve"
    \/ /\ area \in Seq(Half) /\ ctrl \in Seq(Half) /\ sent \in Nat
       /\ \/ Resting \/ Asked \/ Replied \/ Begun \/ Accepting \/ Storing
          \/ AllStored \/ Aborted

-----------------------------------------------------------------------------
LEMMA DropJoined ==
  ASSUME NEW S, NEW t \in Seq(S), NEW r \in Seq(S)
  PROVE  Drop(t \o r, Len(t)) = r
<1>1. PICK j : j = t \o r
  OBVIOUS
<1>2. /\ j \in Seq(S) /\ Len(t) \in Nat /\ Len(r) \in Nat /\ Len(j) = Len(t) + Len(r)
      /\ \A i \in 1 .. Len(j) : j[i] = IF i <= Len(t) THEN t[i] ELSE r[i - Len(t)]
  BY <1>1, LenProperties, ConcatProperties
<1>3. Len(t) \in 0 .. Len(j)
  BY <1>2
<1>4. PICK d : d = Drop(j, Len(t))
  OBVIOUS
<1>5. /\ d \in Seq(S) /\ Len(d) = Len(j) - Len(t)
      /\ \A i \in 1 .. Len(j) - Len(t) : d[i] = j[Len(t) + i]
  BY <1>2, <1>3, <1>4, DropProps
<1>6. Len(d) = Len(r) /\ \A i \in 1 .. Len(r) : d[i] = j[Len(t) + i]
  <2>1. Len(j) - Len(t) = Len(r)
    BY <1>2
  <2>2. QED
    BY <1>5, <2>1
<1>7. \A i \in 1 .. Len(r) : j[Len(t) + i] = r[i]
  BY <1>2
<1>8. d = r
  BY <1>5, <1>6, <1>7, SeqEqual
<1>9. QED
  BY <1>1, <1>4, <1>8

LEMMA HalfAssoc ==
  \A a, b, c \in Seq(Half) : (a \o b) \o c = a \o (b \o c)
BY JoinAssoc

LEMMA DropOfJoin ==
  ASSUME NEW a \in Seq(Half), NEW b \in Seq(Half), NEW n \in 0 .. Len(a)
  PROVE  Drop(a, n) \o b = Drop(a \o b, n)
<1>1. Len(a) \in Nat /\ Len(b) \in Nat /\ a \o b \in Seq(Half) /\ Len(a \o b) = Len(a) + Len(b)
  BY LenProperties, ConcatProperties
<1>2. Take(a, n) \in Seq(Half) /\ Drop(a, n) \in Seq(Half) /\ Len(Take(a, n)) = n
  BY TakeProps, DropProps
<1>3. PICK t \in Seq(Half), e \in Seq(Half) : t = Take(a, n) /\ e = Drop(a, n)
  BY <1>2
<1>4. a = t \o e /\ (t \o e) \o b = t \o (e \o b)
  <2>1. a = t \o e
    BY <1>3, TakeDrop
  <2>2. (t \o e) \o b = t \o (e \o b)
    BY <1>3, HalfAssoc
  <2>3. QED
    BY <2>1, <2>2
<1>5. PICK r \in Seq(Half) : r = e \o b
  BY <1>3, ConcatProperties
<1>6. Drop(t \o r, n) = r
  BY <1>2, <1>3, DropJoined
<1>7. QED
  BY <1>3, <1>4, <1>5, <1>6

LEMMA HalvesTyped ==
  ASSUME NEW k \in Nat, NEW d \in Nat, NEW x \in {"first", "text", "last"}
  PROVE  /\ Halves(k, d, x) \in Seq(Half) /\ Len(Halves(k, d, x)) = 2
         /\ Halves(k, d, x)[1] = [cmd |-> k, digit |-> d, line |-> x, half |-> 1]
         /\ Halves(k, d, x)[2].half = 2
<1>1. PICK a, b : /\ a = [cmd |-> k, digit |-> d, line |-> x, half |-> 1]
                  /\ b = [cmd |-> k, digit |-> d, line |-> x, half |-> 2]
  OBVIOUS
<1>2. a \in Half /\ b \in Half /\ b.half = 2
  BY <1>1 DEF Half
<1>3. Halves(k, d, x) = <<a, b>>
  BY <1>1 DEF Halves
<1>4. <<a, b>> \in Seq(Half) /\ Len(<<a, b>>) = 2 /\ <<a, b>>[1] = a /\ <<a, b>>[2] = b
  BY <1>2
<1>5. QED
  BY <1>1, <1>2, <1>3, <1>4

\* A whole line at the front of what there is to read is what TakeLine takes.
LEMMA FrontLine ==
  ASSUME area \in Seq(Half), ctrl \in Seq(Half), NEW k \in Nat, NEW d \in Nat,
         NEW x \in {"first", "text", "last"}, NEW rest \in Seq(Half),
         area \o ctrl = Halves(k, d, x) \o rest, area # <<>>, LineEnds # {}
  PROVE  /\ area[1] = [cmd |-> k, digit |-> d, line |-> x, half |-> 1]
         /\ LineLength = 2 /\ Drop(area, 2) \in Seq(Half)
         /\ Drop(area, 2) \o ctrl = rest
<1>1. PICK h \in Seq(Half) : h = Halves(k, d, x)
  BY HalvesTyped
<1>2. /\ Len(h) = 2 /\ h[1] = [cmd |-> k, digit |-> d, line |-> x, half |-> 1]
      /\ h[2].half = 2 /\ h[1].half = 1
  <2>1. Len(h) = 2 /\ h[1] = [cmd |-> k, digit |-> d, line |-> x, half |-> 1]
    BY <1>1, HalvesTyped
  <2>2. h[2].half = 2
    BY <1>1, HalvesTyped
  <2>3. h[1].half = 1
    BY <2>1
  <2>4. QED
    BY <2>1, <2>2, <2>3
<1>3. PICK p \in Seq(Half) : p = h \o rest
  BY ConcatProperties
<1>4. /\ Len(area) \in Nat /\ Len(area) # 0 /\ DOMAIN area = 1 .. Len(area)
      /\ Len(rest) \in Nat /\ Len(ctrl) \in Nat
  BY LenProperties, EmptySeq
<1>5. Len(p) = 2 + Len(rest) /\ p[1] = h[1] /\ p[2] = h[2]
  <2>1. /\ Len(h \o rest) = Len(h) + Len(rest)
        /\ \A i \in 1 .. (Len(h) + Len(rest)) : (h \o rest)[i] =
             IF i <= Len(h) THEN h[i] ELSE rest[i - Len(h)]
    BY ConcatProperties
  <2>2. QED
    BY <1>2, <1>3, <1>4, <2>1
<1>6. \A i \in 1 .. Len(area) : area[i] = p[i]
  <2>1. p = area \o ctrl
    BY <1>1, <1>3
  <2>2. /\ Len(area \o ctrl) = Len(area) + Len(ctrl)
        /\ \A i \in 1 .. (Len(area) + Len(ctrl)) : (area \o ctrl)[i] =
             IF i <= Len(area) THEN area[i] ELSE ctrl[i - Len(area)]
    BY ConcatProperties
  <2>3. \A i \in 1 .. Len(area) : i \in 1 .. (Len(area) + Len(ctrl)) /\ i <= Len(area)
    BY <1>4
  <2>4. QED
    BY <2>1, <2>2, <2>3
<1>7. area[1] = h[1] /\ 1 \in 1 .. Len(area)
  BY <1>4, <1>5, <1>6
<1>8. LineEnds \subseteq 2 .. Len(area)
  <2>1. \A i \in LineEnds : i \in 1 .. Len(area) /\ i # 1
    BY <1>2, <1>4, <1>7 DEF LineEnds
  <2>2. QED
    BY <1>4, <2>1
<1>9. 2 \in 1 .. Len(area)
  <2>1. PICK i \in LineEnds : i \in 2 .. Len(area)
    BY <1>8
  <2>2. QED
    BY <1>4, <2>1
<1>10. 2 \in LineEnds
  BY <1>2, <1>4, <1>5, <1>6, <1>9 DEF LineEnds
<1>11. LineLength = 2
  <2>1. \A i \in LineEnds : i \in Int /\ 2 <= i
    BY <1>4, <1>8
  <2>2. LineLength = CHOOSE i \in LineEnds : \A j \in LineEnds : i <= j
    BY <1>10 DEF LineLength
  <2>3. \A i \in LineEnds : (\A j \in LineEnds : i <= j) => i = 2
    BY <1>10, <2>1
  <2>4. \A j \in LineEnds : 2 <= j
    BY <2>1
  <2>5. QED
    BY <1>10, <2>2, <2>3, <2>4
<1>12. 2 \in 0 .. Len(area)
  BY <1>4, <1>9
<1>13. Drop(area, 2) \in Seq(Half) /\ Drop(area, 2) \o ctrl = Drop(area \o ctrl, 2)
  BY <1>12, DropProps, DropOfJoin
<1>14. Drop(p, 2) = rest
  BY <1>2, <1>3, DropJoined
<1>15. QED
  BY <1>1, <1>2, <1>3, <1>7, <1>11, <1>13, <1>14

LEMMA EmptyJoin ==
  ASSUME NEW S, NEW a \in Seq(S), NEW b \in Seq(S), a \o b = <<>>
  PROVE  a = <<>> /\ b = <<>>
<1>1. Len(a) \in Nat /\ Len(b) \in Nat /\ Len(a) + Len(b) = 0
  <2>1. Len(a \o b) = Len(a) + Len(b) /\ Len(a) \in Nat /\ Len(b) \in Nat
    BY ConcatProperties, LenProperties
  <2>2. QED
    BY <2>1
<1>2. Len(a) = 0 /\ Len(b) = 0
  BY <1>1
<1>3. QED
  BY <1>2, EmptySeq

\* TakeLine takes a line of the reply that is being read; the last one ends it.
LEMMA LineTaken ==
  ASSUME area \in Seq(Half), ctrl \in Seq(Half), sent \in Nat, NEW d \in Nat,
         Reading(d), TakeLine
  PROVE  /\ area' \in Seq(Half) /\ ctrl' = ctrl
         /\ UNCHANGED <<op, serverVars, dataVars, lost>>
         /\ \/ Answered(d) /\ area' = <<>> /\ ctrl = <<>>
            \/ UNCHANGED <<cpc, stage, cmds, sent, result>> /\ Reading(d)'
<1>1. PICK one \in Seq(Half), many \in Seq(Half) :
        one = Halves(sent, d, "last") /\ many = Halves(sent, d, "text") \o one
  BY HalvesTyped, ConcatProperties
<1>2. <<>> \in Seq(Half) /\ one \o <<>> = one
  BY ConcatEmptySeq, EmptySeq
<1>3. Halves(sent, d, "first") \o Halves(sent, d, "text") \o Halves(sent, d, "last")
        = Halves(sent, d, "first") \o many
  <2>1. PICK f \in Seq(Half), t \in Seq(Half) :
          f = Halves(sent, d, "first") /\ t = Halves(sent, d, "text")
    BY HalvesTyped
  <2>2. (f \o t) \o one = f \o (t \o one)
    <3>1. f \in Seq(Half) /\ t \in Seq(Half) /\ one \in Seq(Half)
      BY <1>1, <2>1
    <3>2. \A a, b, c \in Seq(Half) : (a \o b) \o c = a \o (b \o c)
      BY HalfAssoc
    <3>3. QED
      BY <3>1, <3>2
  <2>3. QED
    BY <1>1, <2>1, <2>2
<1>4. area # <<>> /\ LineEnds # {} /\ ctrl' = ctrl
      /\ UNCHANGED <<op, serverVars, dataVars, lost>>
  BY DEF TakeLine
<1>5. PICK x \in {"first", "text", "last"}, rest \in Seq(Half) :
        /\ area \o ctrl = Halves(sent, d, x) \o rest
        /\ \/ x = "last" /\ rest = <<>> /\ (~firstline => replycode = [cmd |-> sent, digit |-> d])
           \/ x = "first" /\ rest = many /\ firstline
           \/ x = "text" /\ rest = one /\ ~firstline /\ replycode = [cmd |-> sent, digit |-> d]
  <2>1. CASE area \o ctrl = one /\ (~firstline => replycode = [cmd |-> sent, digit |-> d])
    BY <1>1, <1>2, <2>1
  <2>2. CASE area \o ctrl = Halves(sent, d, "first") \o many /\ firstline
    BY <1>1, <2>2
  <2>3. CASE area \o ctrl = many /\ ~firstline /\ replycode = [cmd |-> sent, digit |-> d]
    BY <1>1, <2>3
  <2>4. QED
    BY <1>1, <1>3, <2>1, <2>2, <2>3 DEF Reading, Replies, Lines
<1>6. /\ area[1] = [cmd |-> sent, digit |-> d, line |-> x, half |-> 1]
      /\ LineLength = 2 /\ Drop(area, 2) \in Seq(Half) /\ Drop(area, 2) \o ctrl = rest
  BY <1>4, <1>5, FrontLine
<1>7. area' = Drop(area, 2)
  BY <1>6 DEF TakeLine
<1>8. replycode' = [cmd |-> sent, digit |-> d]
  BY <1>5, <1>6 DEF TakeLine
<1>9. CASE x = "last"
  <2>1. EndsReply(area[1])
    BY <1>5, <1>6, <1>9 DEF EndsReply
  <2>2. (IF firstline THEN [cmd |-> area[1].cmd, digit |-> area[1].digit]
         ELSE replycode).digit = d
    BY <1>5, <1>6, <1>9
  <2>3. Answered(d)
    BY <2>1, <2>2 DEF TakeLine
  <2>4. area' = <<>> /\ ctrl = <<>>
    BY <1>5, <1>6, <1>7, <1>9, EmptyJoin
  <2>5. QED
    BY <1>4, <1>6, <1>7, <2>3, <2>4
<1>10. CASE x # "last"
  <2>1. ~EndsReply(area[1])
    BY <1>6, <1>10 DEF EndsReply
  <2>2. firstline' = FALSE /\ UNCHANGED <<cpc, stage, cmds, sent, result>>
    BY <2>1 DEF TakeLine
  <2>3. rest \in {one, many}
    BY <1>5, <1>10
  <2>4. (area \o ctrl)' = rest /\ sent' = sent
    BY <1>4, <1>6, <1>7, <2>2
  <2>5. Reading(d)'
    BY <1>1, <1>8, <2>2, <2>3, <2>4 DEF Reading, Lines
  <2>6. QED
    BY <1>4, <1>6, <1>7, <2>2, <2>5
<1>11. QED
  BY <1>9, <1>10

LEMMA RepliesTyped ==
  ASSUME NEW k \in Nat, NEW d \in Nat
  PROVE  Replies(k, d) \subseteq Seq(Half)
<1>1. PICK f \in Seq(Half), t \in Seq(Half), l \in Seq(Half) :
        /\ f = Halves(k, d, "first") /\ t = Halves(k, d, "text")
        /\ l = Halves(k, d, "last")
  BY HalvesTyped
<1>2. (f \o t) \o l \in Seq(Half)
  BY <1>1, ConcatProperties
<1>3. QED
  BY <1>1, <1>2 DEF Replies

LEMMA OneCommand ==
  ASSUME NEW c
  PROVE  /\ <<c>> # <<>> /\ Head(<<c>>) = c /\ Tail(<<c>>) = <<>> /\ Len(<<c>>) = 1
         /\ Append(<<>>, c) = <<c>>
OBVIOUS

LEMMA NothingRead == <<>> \in Seq(Half) /\ \A r \in Seq(Half) : <<>> \o r = r
BY ConcatEmptySeq, EmptySeq

\* A command goes out of a client at rest.
LEMMA CallsKeep ==
  ASSUME FtpIInv, Clean, Plain \/ Rename \/ Transfer("store") \/ Transfer("retrieve")
  PROVE  FtpIInv'
<1>. USE DEF clientVars, serverVars, dataVars
<1>1. Resting /\ area \in Seq(Half) /\ ctrl \in Seq(Half) /\ sent \in Nat
  BY DEF FtpIInv, Plain, Rename, Transfer, Asked, Replied, Begun, Accepting, Storing,
         AllStored, Aborted
<1>2. /\ cpc' = "reply" /\ sphase' = "idle" /\ firstline' /\ AllRead'
      /\ area' \in Seq(Half) /\ ctrl' \in Seq(Half) /\ sent' \in Nat
  <2>1. /\ cpc' = "reply" /\ firstline' = TRUE /\ sent' = sent + 1
        /\ UNCHANGED <<sphase, area, ctrl>>
    BY DEF Plain, Rename, Transfer, SendCmd
  <2>2. QED
    BY <1>1, <2>1 DEF Resting, AllRead
<1>3. CASE Plain
  BY <1>1, <1>2, <1>3, OneCommand DEF Plain, SendCmd, Resting, Asked, FtpIInv
<1>4. CASE Rename
  BY <1>1, <1>2, <1>4, OneCommand DEF Rename, SendCmd, Resting, Asked, FtpIInv
<1>5. CASE Transfer("store") \/ Transfer("retrieve")
  BY <1>1, <1>2, <1>5, OneCommand DEF Transfer, SendCmd, Resting, Asked, Moves, FtpIInv
<1>6. QED
  BY <1>3, <1>4, <1>5

LEMMA UnderflowKeeps ==
  ASSUME FtpIInv, Clean, Underflow
  PROVE  FtpIInv'
<1>. USE DEF clientVars, serverVars, dataVars
<1>1. area \in Seq(Half) /\ ctrl \in Seq(Half) /\ sent \in Nat /\ (Replied \/ Begun)
  BY DEF FtpIInv, Underflow, Resting, Asked, Accepting, Storing, AllStored, Aborted,
         AllRead
<1>2. PICK n \in 1 .. Len(ctrl) : area' = Take(ctrl, n) /\ ctrl' = Drop(ctrl, n)
  BY DEF Underflow
<1>3. n \in 0 .. Len(ctrl)
  BY <1>1, <1>2, LenProperties
<1>4. area' \in Seq(Half) /\ ctrl' \in Seq(Half) /\ area' \o ctrl' = ctrl
  BY <1>1, <1>2, <1>3, TakeProps, DropProps, TakeDrop
<1>5. area' \o ctrl' = area \o ctrl
  BY <1>1, <1>4, NothingRead DEF Underflow
<1>6. UNCHANGED <<cpc, op, stage, firstline, replycode, result, sent, cmds, sphase,
                  outcome, data, dopen, pos, stored, lost>>
  BY DEF Underflow
<1>7. \A d : Reading(d) => Reading(d)'
  BY <1>5, <1>6 DEF Reading, Lines
<1>8. CASE Replied
  BY <1>1, <1>4, <1>6, <1>7, <1>8 DEF Replied, Moves, FtpIInv
<1>9. CASE Begun
  BY <1>1, <1>4, <1>6, <1>7, <1>9 DEF Begun, Moves, FtpIInv
<1>10. QED
  BY <1>1, <1>8, <1>9

LEMMA TakeLineKeeps ==
  ASSUME FtpIInv, Clean, TakeLine
  PROVE  FtpIInv'
<1>. USE DEF clientVars, serverVars, dataVars
<1>1. area \in Seq(Half) /\ ctrl \in Seq(Half) /\ sent \in Nat /\ (Replied \/ Begun)
  BY DEF FtpIInv, TakeLine, Resting, Asked, Accepting, Storing, AllStored, Aborted,
         AllRead
<1>2. CASE Replied
  <2>1. PICK d \in Nat : d = outcome[sent]
    BY <1>2 DEF Replied
  <2>2. Reading(d)
    BY <1>2, <2>1 DEF Replied
  <2>3. /\ area' \in Seq(Half) /\ ctrl' = ctrl
        /\ UNCHANGED <<op, sphase, outcome, data, dopen, pos, stored, lost>>
        /\ \/ Answered(d) /\ area' = <<>> /\ ctrl = <<>>
           \/ UNCHANGED <<cpc, stage, cmds, sent, result>> /\ Reading(d)'
    BY <1>1, <2>2, LineTaken
  <2>4. CASE UNCHANGED <<cpc, stage, cmds, sent, result>> /\ Reading(d)'
    <3>1. Replied'
      BY <1>2, <2>1, <2>3, <2>4 DEF Replied, Moves
    <3>2. QED
      BY <1>1, <2>3, <2>4, <3>1 DEF FtpIInv
  <2>5. CASE Answered(d) /\ area' = <<>> /\ ctrl = <<>>
    <3>1. ctrl' = <<>> /\ ctrl' \in Seq(Half) /\ AllRead'
      BY <1>1, <2>3, <2>5 DEF AllRead
    <3>2. CASE stage = "end"
      <4>1. cpc' = "idle" /\ result' = d /\ UNCHANGED <<cmds, sent>>
        BY <2>5, <3>2 DEF Answered, Return
      <4>2. Resting'
        BY <1>2, <2>1, <2>3, <3>1, <3>2, <4>1 DEF Replied, Resting
      <4>3. QED
        BY <1>1, <2>3, <3>1, <4>1, <4>2 DEF FtpIInv
    <3>3. CASE stage = "rnfr" /\ d >= rca_error
      <4>1. cpc' = "idle" /\ result' = rca_error /\ UNCHANGED <<cmds, sent>>
        BY <2>5, <3>3 DEF Answered, Return
      <4>2. Failed(result') /\ Failed(outcome'[sent']) /\ op' # "store"
        BY <1>2, <2>1, <2>3, <3>3, <4>1 DEF Failed, rca_error, Replied
      <4>3. Resting'
        BY <1>2, <2>3, <3>1, <4>1, <4>2 DEF Replied, Resting
      <4>4. QED
        BY <1>1, <2>3, <3>1, <4>1, <4>3 DEF FtpIInv
    <3>4. CASE stage = "rnfr" /\ ~(d >= rca_error)
      <4>1. SendCmd("rnto", "end") /\ op # "store"
        BY <1>2, <2>5, <3>4 DEF Answered, Replied
      <4>2. Asked'
        BY <1>2, <2>3, <3>1, <4>1, OneCommand DEF Replied, Asked, SendCmd
      <4>3. QED
        BY <1>1, <2>3, <3>1, <4>1, <4>2 DEF FtpIInv, SendCmd
    <3>5. CASE stage = "port"
      <4>1. SendCmd(op, "begin") /\ Moves
        BY <1>2, <2>5, <3>5 DEF Answered, Replied
      <4>2. Asked'
        BY <1>2, <2>3, <3>1, <4>1, OneCommand DEF Replied, Asked, SendCmd, Moves
      <4>3. QED
        BY <1>1, <2>3, <3>1, <4>1, <4>2 DEF FtpIInv, SendCmd
    <3>6. CASE stage = "begin"
      <4>1. d = 5 /\ d >= rca_error
        BY <1>2, <2>1, <3>6 DEF Replied, rca_error
      <4>2. cpc' = "idle" /\ result' = rca_error /\ UNCHANGED <<cmds, sent>>
        BY <2>5, <3>6, <4>1 DEF Answered, Return
      <4>3. Failed(result') /\ Failed(outcome'[sent'])
        <5>1. outcome'[sent'] = 5 /\ result' = 4
          BY <2>1, <2>3, <4>1, <4>2 DEF rca_error
        <5>2. QED
          BY <5>1 DEF Failed, rca_error
      <4>4. Resting'
        BY <1>2, <2>3, <3>1, <4>2, <4>3 DEF Replied, Resting
      <4>5. QED
        BY <1>1, <2>3, <3>1, <4>2, <4>4 DEF FtpIInv
    <3>7. QED
      BY <1>2, <3>2, <3>3, <3>4, <3>5, <3>6 DEF Replied
  <2>6. QED
    BY <2>3, <2>4, <2>5
<1>3. CASE Begun
  <2>1. /\ area' \in Seq(Half) /\ ctrl' = ctrl
        /\ UNCHANGED <<op, sphase, outcome, data, dopen, pos, stored, lost>>
        /\ \/ Answered(1) /\ area' = <<>> /\ ctrl = <<>>
           \/ UNCHANGED <<cpc, stage, cmds, sent, result>> /\ Reading(1)'
    BY <1>1, <1>3, LineTaken DEF Begun
  <2>2. CASE UNCHANGED <<cpc, stage, cmds, sent, result>> /\ Reading(1)'
    <3>1. Begun'
      BY <1>3, <2>1, <2>2 DEF Begun, Moves
    <3>2. QED
      BY <1>1, <2>1, <2>2, <3>1 DEF FtpIInv
  <2>3. CASE Answered(1) /\ area' = <<>> /\ ctrl = <<>>
    <3>1. ~(1 >= rca_error) /\ stage = "begin"
      BY <1>3 DEF rca_error, Begun
    <3>2. cpc' = "accept" /\ UNCHANGED <<stage, cmds, sent, result>>
      BY <2>3, <3>1 DEF Answered
    <3>3. Accepting'
      BY <1>3, <2>1, <2>3, <3>2 DEF Begun, Accepting, Moves, AllRead
    <3>4. QED
      BY <1>1, <2>1, <3>2, <3>3 DEF FtpIInv
  <2>4. QED
    BY <2>1, <2>2, <2>3
<1>4. QED
  BY <1>1, <1>2, <1>3

LEMMA FileSeq ==
  File \in Seq(Nat) /\ Len(File) = FileLen /\ FileLen \in Nat
<1>1. FileLen \in Nat
  BY FtpConstants
<1>2. \A i \in 1 .. FileLen : i \in Nat
  BY <1>1
<1>3. File \in Seq(Nat)
  BY <1>1, <1>2, IsASeq DEF File
<1>4. DOMAIN File = 1 .. FileLen
  BY DEF File
<1>5. QED
  BY <1>1, <1>3, <1>4, LenProperties

LEMMA NatAssoc ==
  \A a, b, c \in Seq(Nat) : (a \o b) \o c = a \o (b \o c)
BY JoinAssoc

\* An element that goes to the end of the second of two sequences goes to the
\* end of both joined; one that goes from the second to the first moves nothing.
LEMMA EndOfJoin ==
  \A a, b \in Seq(Nat) : \A x \in Nat : a \o Append(b, x) = Append(a \o b, x)
<1>1. SUFFICES ASSUME NEW a \in Seq(Nat), NEW b \in Seq(Nat), NEW x \in Nat
               PROVE a \o Append(b, x) = Append(a \o b, x)
  OBVIOUS
<1>2. PICK o \in Seq(Nat) : o = <<x>>
  BY OneAtTheEnd
<1>3. a \o b \in Seq(Nat)
  BY ConcatProperties
<1>4. Append(b, x) = b \o o /\ Append(a \o b, x) = (a \o b) \o o
  BY <1>2, <1>3, OneAtTheEnd
<1>5. (a \o b) \o o = a \o (b \o o)
  BY NatAssoc
<1>6. QED
  BY <1>4, <1>5

LEMMA MoveInJoin ==
  \A a, b \in Seq(Nat) : b # <<>> => Append(a, Head(b)) \o Tail(b) = a \o b
<1>1. SUFFICES ASSUME NEW a \in Seq(Nat), NEW b \in Seq(Nat), b # <<>>
               PROVE Append(a, Head(b)) \o Tail(b) = a \o b
  OBVIOUS
<1>2. PICK x \in Nat, t \in Seq(Nat) : x = Head(b) /\ t = Tail(b) /\ <<x>> \o t = b
  BY <1>1, FirstOff
<1>3. PICK o \in Seq(Nat) : o = <<x>> /\ Append(a, x) = a \o o
  BY OneAtTheEnd
<1>4. (a \o o) \o t = a \o (o \o t)
  BY NatAssoc
<1>5. QED
  BY <1>2, <1>3, <1>4

\* A piece goes into the data connection.
LEMMA PieceSent ==
  ASSUME Moving, pos # FileLen, pos' = pos + 1, stored' = stored,
         data' = Append(data, File[pos + 1])
  PROVE  Moving'
<1>1. PICK f \in Seq(Nat) : f = File /\ Len(f) = FileLen /\ FileLen \in Nat
  BY FileSeq
<1>2. pos \in 0 .. FileLen /\ data \in Seq(Nat) /\ stored \in Seq(Nat)
      /\ stored \o data = Take(f, pos)
  BY <1>1 DEF Moving
<1>3. PICK n \in 0 .. Len(f) : n = pos /\ n # Len(f)
  BY <1>1, <1>2
<1>4. PICK x \in Nat : x = f[n + 1] /\ Take(f, n + 1) = Append(Take(f, n), x)
  BY <1>3, OneMore
<1>5. data' = Append(data, x) /\ data' \in Seq(Nat) /\ stored' \in Seq(Nat)
  BY <1>1, <1>2, <1>3, <1>4, OneAtTheEnd
<1>6. stored \o Append(data, x) = Append(stored \o data, x)
  BY <1>2, EndOfJoin
<1>7. stored' \o data' = Take(f, pos')
  BY <1>2, <1>3, <1>4, <1>5, <1>6
<1>8. pos' \in 0 .. FileLen
  BY <1>1, <1>2
<1>9. QED
  BY <1>1, <1>5, <1>7, <1>8 DEF Moving, File

\* The server takes a piece from it.
LEMMA PieceStored ==
  ASSUME Moving, data # <<>>, pos' = pos, stored' = Append(stored, Head(data)),
         data' = Tail(data)
  PROVE  Moving'
<1>1. data \in Seq(Nat) /\ stored \in Seq(Nat)
  BY DEF Moving
<1>2. PICK x \in Nat, t \in Seq(Nat) : x = Head(data) /\ t = Tail(data)
  BY <1>1, FirstOff
<1>3. stored' \in Seq(Nat) /\ data' \in Seq(Nat)
  BY <1>1, <1>2, OneAtTheEnd
<1>4. stored' \o data' = stored \o data
  BY <1>1, MoveInJoin
<1>5. QED
  BY <1>3, <1>4 DEF Moving, File

LEMMA FileMoved ==
  ASSUME Moving, pos = FileLen, data = <<>>
  PROVE  stored = File
<1>1. Take(File, FileLen) = File
  BY FileSeq, SubSeqFull DEF Take
<1>2. stored \o data = stored
  BY ConcatEmptySeq DEF Moving
<1>3. QED
  BY <1>1, <1>2 DEF Moving

LEMMA AcceptKeeps ==
  ASSUME FtpIInv, Clean, Accept
  PROVE  FtpIInv'
<1>. USE DEF clientVars, serverVars, dataVars
<1>1. area \in Seq(Half) /\ ctrl \in Seq(Half) /\ sent \in Nat /\ Accepting
  BY DEF FtpIInv, Accept, Resting, Asked, Replied, Begun, Storing, AllStored, Aborted
<1>2. /\ cpc' = op /\ sphase' = "data" /\ dopen' = TRUE
      /\ data' = <<>> /\ pos' = 0 /\ stored' = <<>>
      /\ UNCHANGED <<op, area, ctrl, cmds, sent, lost>>
  BY DEF Accept
<1>3. op \in {"store", "retrieve"}
  BY <1>1 DEF Accepting, Moves
<1>4. CASE op = "retrieve"
  BY <1>1, <1>2, <1>4 DEF FtpIInv
<1>5. CASE op = "store"
  <2>1. Moving'
    <3>1. <<>> \in Seq(Nat) /\ <<>> \o <<>> = <<>>
      BY EmptySeq, ConcatEmptySeq
    <3>2. Take(File, 0) = <<>>
      BY SubSeqEmpty DEF Take
    <3>3. QED
      BY <1>2, <3>1, <3>2, FileSeq DEF Moving, File
  <2>2. Storing'
    BY <1>1, <1>2, <1>5, <2>1 DEF Accepting, AllRead, Storing
  <2>3. QED
    BY <1>1, <1>2, <2>2 DEF FtpIInv
<1>6. QED
  BY <1>3, <1>4, <1>5

LEMMA SendsKeep ==
  ASSUME FtpIInv, Clean, SendPiece \/ Sent
  PROVE  FtpIInv'
<1>. USE DEF clientVars, serverVars, dataVars
<1>1. /\ area \in Seq(Half) /\ ctrl \in Seq(Half) /\ sent \in Nat
      /\ Storing \/ Aborted
  BY DEF FtpIInv, SendPiece, Sent, Resting, Asked, Replied, Begun, Accepting, AllStored
<1>2. UNCHANGED <<op, area, ctrl, cmds, sent, sphase, outcome>>
  BY DEF SendPiece, Sent
<1>3. CASE SendPiece
  <2>1. /\ pos # FileLen /\ pos' = pos + 1 /\ data' = Append(data, File[pos + 1])
        /\ UNCHANGED <<cpc, dopen, stored>>
    BY <1>3 DEF SendPiece, AllSent
  <2>2. CASE Storing
    <3>1. Moving'
      BY <2>1, <2>2, PieceSent DEF Storing
    <3>2. Storing'
      BY <1>2, <2>1, <2>2, <3>1 DEF Storing, AllRead
    <3>3. QED
      BY <1>1, <1>2, <3>2 DEF FtpIInv
  <2>3. CASE Aborted
    <3>1. Aborted'
      BY <1>2, <2>1, <2>3 DEF Aborted
    <3>2. QED
      BY <1>1, <1>2, <3>1 DEF FtpIInv
  <2>4. QED
    BY <1>1, <2>2, <2>3
<1>4. CASE Sent
  <2>1. /\ pos = FileLen /\ cpc' = "reply" /\ stage' = "end" /\ firstline' = TRUE
        /\ UNCHANGED <<pos, data, stored>>
    BY <1>4 DEF Sent, AllSent
  <2>2. CASE Storing
    <3>1. Moving'
      BY <2>1, <2>2 DEF Storing, Moving, File
    <3>2. AllStored'
      BY <1>2, <2>1, <2>2, <3>1 DEF Storing, AllStored, AllRead
    <3>3. QED
      BY <1>1, <1>2, <3>2 DEF FtpIInv
  <2>3. CASE Aborted
    <3>1. PICK d \in Nat : d = 4
      OBVIOUS
    <3>2. Reading(d)' /\ outcome'[sent'] = d /\ sent' \in DOMAIN outcome'
      BY <1>2, <2>1, <2>3, <3>1 DEF Aborted, Reading
    <3>3. Failed(outcome'[sent'])
      BY <3>1, <3>2 DEF Failed, rca_error
    <3>4. cpc' = "reply" /\ sphase' = "idle" /\ cmds' = <<>> /\ stage' = "end"
      BY <1>2, <2>1, <2>3 DEF Aborted
    <3>5. Replied'
      BY <3>2, <3>3, <3>4 DEF Replied
    <3>6. QED
      BY <1>1, <1>2, <3>5 DEF FtpIInv
  <2>4. QED
    BY <1>1, <2>2, <2>3
<1>5. QED
  BY <1>3, <1>4

\* The server replies to the one command there is.
LEMMA ReplySent ==
  ASSUME area \in Seq(Half), ctrl \in Seq(Half), sent \in Nat, AllRead,
         NEW c, cmds = <<c>>, NEW d \in Nat, Reply(Answering, d), UNCHANGED clientVars
  PROVE  /\ Answering = sent
         /\ area' \in Seq(Half) /\ ctrl' \in Seq(Half) /\ sent' \in Nat
         /\ area' \o ctrl' \in Replies(sent', d)
         /\ firstline => Reading(d)'
<1>1. Answering = sent
  BY OneCommand DEF Answering
<1>2. PICK reply \in Replies(sent, d) : ctrl' = ctrl \o reply
  BY <1>1 DEF Reply
<1>3. reply \in Seq(Half)
  BY <1>2, RepliesTyped
<1>4. ctrl' = reply /\ area' = <<>> /\ area' \o ctrl' = reply /\ <<>> \in Seq(Half)
  BY <1>2, <1>3, NothingRead DEF AllRead, clientVars
<1>5. area' \o ctrl' \in Replies(sent', d) /\ (firstline => Reading(d)')
  BY <1>2, <1>4 DEF Reading, clientVars
<1>6. QED
  BY <1>1, <1>3, <1>4, <1>5 DEF clientVars

LEMMA ServerAnswersKeeps ==
  ASSUME FtpIInv, Clean, cpc # "retrieve", ServerAnswers
  PROVE  FtpIInv'
<1>. USE DEF clientVars, serverVars, dataVars
<1>1. area \in Seq(Half) /\ ctrl \in Seq(Half) /\ sent \in Nat /\ Asked
  BY DEF FtpIInv, ServerAnswers, Resting, Replied, Begun, Accepting, Storing, AllStored,
         Aborted
<1>2. PICK d \in {2, 3, 5} :
        /\ Head(cmds) \in {"store", "retrieve"} => d = 5
        /\ Reply(Answering, d) /\ Outcome(Answering, d)
  BY DEF ServerAnswers
<1>3. PICK c : cmds = <<c>> /\ Head(cmds) = c /\ Tail(cmds) = <<>>
  BY <1>1, OneCommand DEF Asked
<1>4. d \in Nat
  OBVIOUS
<1>5. /\ Answering = sent
      /\ area' \in Seq(Half) /\ ctrl' \in Seq(Half) /\ sent' \in Nat /\ Reading(d)'
  <2>1. UNCHANGED clientVars
    BY DEF ServerAnswers
  <2>2. QED
    BY <1>1, <1>2, <1>3, <1>4, <2>1, ReplySent DEF Asked
<1>6. sent' \in DOMAIN outcome' /\ outcome'[sent'] = d
  <2>1. sent' = sent
    BY DEF ServerAnswers
  <2>2. QED
    BY <1>2, <1>5, <2>1 DEF Outcome
<1>7. /\ UNCHANGED <<cpc, op, stage, firstline, sphase, data, pos, stored, lost>>
      /\ cmds' = <<>>
  BY <1>3 DEF ServerAnswers
<1>8. stage = "begin" => d = 5
  BY <1>1, <1>2, <1>3 DEF Asked, Moves
<1>9. Replied'
  <2>1. stage = "end" => op # "store"
    BY <1>1 DEF Asked
  <2>2. stage = "rnfr" => op # "store"
    BY <1>1 DEF Asked
  <2>3. stage = "port" => Moves'
    BY <1>1, <1>7 DEF Asked, Moves
  <2>4. stage \in {"end", "rnfr", "port", "begin"} /\ cpc = "reply" /\ sphase = "idle"
    BY <1>1 DEF Asked
  <2>5. QED
    BY <1>4, <1>5, <1>6, <1>7, <1>8, <2>1, <2>2, <2>3, <2>4 DEF Replied
<1>10. QED
  BY <1>5, <1>9 DEF FtpIInv

LEMMA ServerBeginsKeeps ==
  ASSUME FtpIInv, Clean, cpc # "retrieve", ServerBegins \/ ServerConnects
  PROVE  FtpIInv'
<1>. USE DEF clientVars, serverVars, dataVars
<1>1. CASE ServerBegins
  <2>1. area \in Seq(Half) /\ ctrl \in Seq(Half) /\ sent \in Nat /\ Asked
    BY <1>1 DEF FtpIInv, ServerBegins, Resting, Replied, Begun, Accepting, Storing,
                AllStored, Aborted
  <2>2. stage = "begin" /\ cmds = <<op>> /\ Moves
    BY <1>1, <2>1, OneCommand DEF Asked, ServerBegins
  <2>3. UNCHANGED clientVars /\ Reply(Answering, 1) /\ 1 \in Nat
    BY <1>1 DEF ServerBegins
  <2>4. area' \in Seq(Half) /\ ctrl' \in Seq(Half) /\ sent' \in Nat /\ Reading(1)'
    BY <2>1, <2>2, <2>3, ReplySent DEF Asked
  <2>5. /\ UNCHANGED <<cpc, op, stage, cmds, data, pos, stored>> /\ sphase' = "connecting"
    BY <1>1 DEF ServerBegins
  <2>6. Begun'
    BY <2>1, <2>2, <2>4, <2>5 DEF Asked, Moves, Begun
  <2>7. QED
    BY <2>4, <2>6 DEF FtpIInv
<1>2. CASE ServerConnects
  <2>1. area \in Seq(Half) /\ ctrl \in Seq(Half) /\ sent \in Nat /\ (Begun \/ Accepting)
    BY <1>2 DEF FtpIInv, ServerConnects, Resting, Asked, Replied, Storing, AllStored,
                Aborted
  <2>2. /\ UNCHANGED <<cpc, op, stage, firstline, replycode, area, ctrl, cmds, sent,
                       data, pos, stored>>
        /\ sphase' = "connected"
    BY <1>2 DEF ServerConnects
  <2>3. Reading(1) => Reading(1)'
    BY <2>2 DEF Reading, Lines
  <2>4. CASE Begun
    BY <2>1, <2>2, <2>3, <2>4 DEF Begun, Moves, FtpIInv
  <2>5. CASE Accepting
    BY <2>1, <2>2, <2>5 DEF Accepting, Moves, AllRead, FtpIInv
  <2>6. QED
    BY <2>1, <2>4, <2>5
<1>3. QED
  BY <1>1, <1>2

LEMMA ServerStoresKeeps ==
  ASSUME FtpIInv, Clean, cpc # "retrieve", ServerStores
  PROVE  FtpIInv'
<1>. USE DEF clientVars, serverVars, dataVars
<1>1. /\ area \in Seq(Half) /\ ctrl \in Seq(Half) /\ sent \in Nat
      /\ Storing \/ AllStored
  BY DEF FtpIInv, ServerStores, Resting, Asked, Replied, Begun, Accepting, Aborted
<1>2. UNCHANGED <<cpc, op, stage, firstline, area, sent, dopen, pos, lost>>
  BY DEF ServerStores
<1>3. CASE data # <<>>
  <2>1. /\ stored' = Append(stored, Head(data)) /\ data' = Tail(data)
        /\ UNCHANGED <<ctrl, cmds, sphase>>
    BY <1>3 DEF ServerStores
  <2>2. Moving => Moving'
    BY <1>2, <1>3, <2>1, PieceStored
  <2>3. CASE Storing
    BY <1>1, <1>2, <2>1, <2>2, <2>3 DEF Storing, AllRead, FtpIInv
  <2>4. CASE AllStored
    BY <1>1, <1>2, <2>1, <2>2, <2>4 DEF AllStored, AllRead, FtpIInv
  <2>5. QED
    BY <1>1, <2>3, <2>4
<1>4. CASE data = <<>>
  <2>1. /\ ~dopen /\ Reply(Answering, 2) /\ Outcome(Answering, 2) /\ cmds' = Tail(cmds)
        /\ sphase' = "idle" /\ UNCHANGED stored
    BY <1>4 DEF ServerStores, Completes
  <2>2. AllStored /\ cmds = <<"store">>
    BY <1>1, <2>1 DEF Storing, AllStored
  <2>3. cmds' = <<>>
    BY <2>1, <2>2, OneCommand
  <2>4. /\ Answering = sent
        /\ area' \in Seq(Half) /\ ctrl' \in Seq(Half) /\ sent' \in Nat /\ Reading(2)'
    <3>1. UNCHANGED clientVars /\ 2 \in Nat
      BY DEF ServerStores
    <3>2. QED
      BY <1>1, <2>1, <2>2, <3>1, ReplySent DEF AllStored
  <2>5. sent' \in DOMAIN outcome' /\ outcome'[sent'] = 2
    BY <1>2, <2>1, <2>4 DEF Outcome
  <2>6. stored' = File
    BY <1>4, <2>1, <2>2, FileMoved DEF AllStored
  <2>7. Replied'
    <3>1. cpc' = "reply" /\ stage' = "end"
      BY <1>2, <2>2 DEF AllStored
    <3>2. PICK d \in Nat : d = 2
      OBVIOUS
    <3>3. Reading(d)' /\ outcome'[sent'] = d
      BY <2>4, <2>5, <3>2
    <3>4. QED
      BY <2>1, <2>3, <2>5, <2>6, <3>1, <3>3 DEF Replied, File
  <2>8. QED
    BY <2>4, <2>7 DEF FtpIInv
<1>5. QED
  BY <1>3, <1>4

\* What a server says that gives up a transfer is its last word on it, whether
\* the client has sent all or not.
LEMMA ServerAbortsKeeps ==
  ASSUME FtpIInv, Clean, cpc # "retrieve", ServerAborts
  PROVE  FtpIInv'
<1>. USE DEF clientVars, serverVars, dataVars
<1>1. /\ area \in Seq(Half) /\ ctrl \in Seq(Half) /\ sent \in Nat
      /\ Storing \/ AllStored
  BY DEF FtpIInv, ServerAborts, Resting, Asked, Replied, Begun, Accepting, Aborted
<1>2. /\ Reply(Answering, 4) /\ Outcome(Answering, 4) /\ cmds' = Tail(cmds)
      /\ sphase' = "idle" /\ UNCHANGED clientVars
  BY DEF ServerAborts, Completes
<1>3. op = "store" /\ cmds = <<"store">> /\ AllRead
  BY <1>1 DEF Storing, AllStored
<1>4. cmds' = <<>>
  BY <1>2, <1>3, OneCommand
<1>5. PICK d \in Nat : d = 4
  OBVIOUS
<1>6. /\ Answering = sent
      /\ area' \in Seq(Half) /\ ctrl' \in Seq(Half) /\ sent' \in Nat
      /\ area' \o ctrl' \in Replies(sent', d)
      /\ firstline => Reading(d)'
  BY <1>1, <1>2, <1>3, <1>5, ReplySent
<1>7. sent' \in DOMAIN outcome' /\ outcome'[sent'] = d
  BY <1>2, <1>5, <1>6 DEF Outcome
<1>8. CASE Storing
  <2>1. Aborted'
    BY <1>2, <1>4, <1>5, <1>6, <1>7, <1>8 DEF Storing, Aborted
  <2>2. QED
    BY <1>6, <2>1 DEF FtpIInv
<1>9. CASE AllStored
  <2>1. cpc' = "reply" /\ stage' = "end" /\ Reading(d)'
    BY <1>2, <1>6, <1>9 DEF AllStored
  <2>2. Failed(outcome'[sent'])
    BY <1>5, <1>7 DEF Failed, rca_error
  <2>3. Replied'
    BY <1>2, <1>4, <1>7, <2>1, <2>2 DEF Replied
  <2>4. QED
    BY <1>6, <2>3 DEF FtpIInv
<1>10. QED
  BY <1>1, <1>8, <1>9

LEMMA ServerClosesKeeps ==
  ASSUME FtpIInv, Clean, ServerCloses \/ UNCHANGED ftpVars
  PROVE  FtpIInv'
<1>1. UNCHANGED <<cpc, op, stage, firstline, replycode, result, area, ctrl, cmds, sent,
                  sphase, outcome, data, dopen, pos, stored, lost>>
  BY DEF ServerCloses, ftpVars, clientVars, serverVars, dataVars
<1>2. \A d : Reading(d) => Reading(d)'
  BY <1>1 DEF Reading, Lines
<1>3. Replied => Replied'
  BY <1>1, <1>2 DEF Replied, Moves, File
<1>4. Begun => Begun'
  BY <1>1, <1>2 DEF Begun, Moves
<1>5. Resting => Resting'
  BY <1>1 DEF Resting, AllRead, File
<1>6. Asked => Asked'
  BY <1>1 DEF Asked, AllRead, Moves
<1>7. Accepting => Accepting'
  BY <1>1 DEF Accepting, Moves, AllRead
<1>8. (Storing => Storing') /\ (AllStored => AllStored')
  <2>1. Moving => Moving'
    BY <1>1 DEF Moving, File
  <2>2. QED
    BY <1>1, <2>1 DEF Storing, AllStored, AllRead
<1>9. Aborted => Aborted'
  BY <1>1 DEF Aborted
<1>10. QED
  BY <1>1, <1>3, <1>4, <1>5, <1>6, <1>7, <1>8, <1>9 DEF FtpIInv

LEMMA FtpIInvInit == FtpInit => FtpIInv
<1>1. SUFFICES ASSUME FtpInit PROVE FtpIInv
  OBVIOUS
<1>2. PICK reply \in Replies(0, 2) : ctrl = reply
  BY <1>1 DEF FtpInit
<1>3. 0 \in Nat /\ 2 \in Nat /\ reply \in Seq(Half)
  BY <1>2, RepliesTyped
<1>4. area = <<>> /\ area \in Seq(Half) /\ area \o ctrl = reply
  BY <1>1, <1>2, <1>3, NothingRead DEF FtpInit
<1>5. sent = 0 /\ firstline = TRUE /\ sent \in DOMAIN outcome /\ outcome[sent] = 2
  BY <1>1 DEF FtpInit
<1>6. Reading(outcome[sent])
  BY <1>2, <1>4, <1>5 DEF Reading
<1>7. Replied
  BY <1>1, <1>3, <1>5, <1>6 DEF FtpInit, Replied
<1>8. QED
  BY <1>2, <1>3, <1>4, <1>5, <1>7 DEF FtpIInv

LEMMA FtpIInvStep == FtpIInv /\ [FtpNext]_ftpVars => FtpIInv'
<1>1. SUFFICES ASSUME FtpIInv, [FtpNext]_ftpVars, Clean' PROVE FtpIInv'
  BY DEF FtpIInv
<1>. USE DEF clientVars, serverVars, dataVars
<1>2. /\ ~ReplyAtEof /\ ~TakeCutLine /\ ~ServerCannotConnect
      /\ ~ReceivingFails /\ ~PieceFails /\ ~LastFlushFails
  BY <1>1 DEF Clean, ReplyAtEof, TakeCutLine, ServerCannotConnect, ReceivingFails,
              PieceFails, LastFlushFails, Throws
<1>3. Clean
  <2>1. UNCHANGED lost
    BY <1>1, <1>2 DEF FtpNext, ClientStep, ServerStep, Plain, Rename, Transfer,
      Underflow, TakeLine, Accept, SendPiece, Sent, ReceivePiece, ServerAnswers,
      ServerBegins, ServerConnects, ServerStores, ServerSends, ServerAborts,
      ServerCloses, ftpVars
  <2>2. QED
    BY <1>1, <2>1 DEF Clean
<1>4. CASE cpc = "retrieve"
  <2>1. cpc' = "retrieve"
    BY <1>1, <1>2, <1>4 DEF FtpNext, ClientStep, ServerStep, Plain, Rename, Transfer,
      Underflow, TakeLine, Accept, SendPiece, Sent, ReceivePiece, ServerAnswers,
      ServerBegins, ServerConnects, ServerStores, ServerSends, ServerAborts,
      ServerCloses, ftpVars
  <2>2. QED
    BY <2>1 DEF FtpIInv
<1>5. CASE cpc # "retrieve"
  <2>1. CASE Plain \/ Rename \/ Transfer("store") \/ Transfer("retrieve")
    BY <1>1, <1>3, <2>1, CallsKeep
  <2>2. CASE Underflow
    BY <1>1, <1>3, <2>2, UnderflowKeeps
  <2>3. CASE TakeLine
    BY <1>1, <1>3, <2>3, TakeLineKeeps
  <2>4. CASE Accept
    BY <1>1, <1>3, <2>4, AcceptKeeps
  <2>5. CASE SendPiece \/ Sent
    BY <1>1, <1>3, <2>5, SendsKeep
  <2>6. CASE ServerAnswers
    BY <1>1, <1>3, <1>5, <2>6, ServerAnswersKeeps
  <2>7. CASE ServerBegins \/ ServerConnects
    BY <1>1, <1>3, <1>5, <2>7, ServerBeginsKeeps
  <2>8. CASE ServerStores
    BY <1>1, <1>3, <1>5, <2>8, ServerStoresKeeps
  <2>9. CASE ServerCloses \/ UNCHANGED ftpVars
    BY <1>1, <1>3, <2>9, ServerClosesKeeps
  <2>10. ~ReceivePiece
    BY <1>5 DEF ReceivePiece
  <2>11. ~ServerSends
    <3>1. CASE Storing \/ AllStored
      BY <3>1, OneCommand DEF ServerSends, Storing, AllStored
    <3>2. CASE ~Storing /\ ~AllStored
      BY <1>1, <1>3, <1>5, <3>2 DEF ServerSends, FtpIInv, Resting, Asked, Replied, Begun,
        Accepting, Aborted
    <3>3. QED
      BY <3>1, <3>2
  <2>12. CASE ServerAborts
    BY <1>1, <1>3, <1>5, <2>12, ServerAbortsKeeps
  <2>13. QED
    BY <1>1, <1>2, <2>1, <2>2, <2>3, <2>4, <2>5, <2>6, <2>7, <2>8, <2>9, <2>10, <2>11,
       <2>12
       DEF FtpNext, ClientStep, ServerStep
<1>6. QED
  BY <1>4, <1>5

\* The code an operation returns is the server's last word on the operation's
\* own last command (ftp.cpp, get_response and its callers).
THEOREM FtpReplies == FtpSpec => []RepliesMatch
<1>1. FtpIInv => RepliesMatch
  BY DEF FtpIInv, RepliesMatch, Clean, Resting, Asked, Replied, Begun, Accepting,
         Storing, AllStored, Aborted, AllRead
<1>2. QED
  BY <1>1, FtpIInvInit, FtpIInvStep, PTL DEF FtpSpec

\* When putfile returns a success the server has the whole file, for every
\* length of the file (ftp.cpp, ftpdata).
THEOREM FtpStored == FtpSpec => []StoredWhole
<1>1. FtpIInv => StoredWhole
  BY DEF FtpIInv, StoredWhole, Clean, Resting, Asked, Replied, Begun, Accepting,
         Storing, AllStored, Aborted
<1>2. QED
  BY <1>1, FtpIInvInit, FtpIInvStep, PTL DEF FtpSpec
=============================================================================
