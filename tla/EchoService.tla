---------------------------- MODULE EchoService ----------------------------
(***************************************************************************)
(* A service on internet sockets: the echo server (src/socket++/echo.cpp)  *)
(* and its clients, from bind, listen, connect and accept to the end of    *)
(* either.                                                                 *)
(*                                                                         *)
(* A client sends lines of `length' bytes and reads each one back before   *)
(* it sends the next (src/test/tcecho.C).  The bytes a client sends are    *)
(* numbered from 1.                                                        *)
(***************************************************************************)
EXTENDS ByteSeqs, SequencesExt, FiniteSets

CONSTANTS
  Clients,
  Room,       \* the bytes a connection holds in each direction
  EchoLen,    \* the bytes serve() reads at a time (1024)
  Lengths,    \* bound: the bytes a line may have
  MaxSaid     \* bound: the bytes a client sends

ASSUME EchoConstants ==
  {Room, EchoLen, MaxSaid} \cup Lengths \subseteq Nat \ {0}

VARIABLES
  spc,        \* what the server is doing
  backlog,    \* the connections not accepted
  served,     \* the clients accepted, at most one
  ebuf,       \* what serve() has read and not written
  kpc,        \* what each client is doing
  length,     \* the bytes of each of a client's lines
  said,       \* the bytes it has sent
  heard,      \* the bytes it has read
  up, down    \* the bytes in a connection, to the server and back

echoServer == <<spc, backlog, served, ebuf>>
echoClients == <<kpc, length, said, heard>>
echoVars == <<echoServer, echoClients, up, down>>

EchoInit ==
  /\ spc = "start"
  /\ backlog = <<>> /\ served = {} /\ ebuf = <<>>
  /\ kpc = [c \in Clients |-> "start"]
  /\ \E n \in Lengths : length = [c \in Clients |-> n]
  /\ said = [c \in Clients |-> <<>>] /\ heard = [c \in Clients |-> <<>>]
  /\ up = [c \in Clients |-> <<>>] /\ down = [c \in Clients |-> <<>>]

-----------------------------------------------------------------------------
(* The server.                                                             *)

Waiting == {"writing", "reading"}

\* The process ends, by exit(0) or by an exception nobody catches: the kernel
\* closes its sockets and resets the connections.
Gone == /\ spc' = "gone"
        /\ backlog' = <<>> /\ served' = {} /\ ebuf' = <<>>

\* serve(portno) up to listen(): it binds to the port of the service "echo",
\* to any or to the one asked for (module InetPorts).  bind() throws if the
\* port is denied or in use, or the service is unknown.
ServerBinds ==
  /\ spc = "start"
  /\ \/ spc' = "bound" /\ UNCHANGED <<backlog, served, ebuf>>
     \/ Gone
  /\ UNCHANGED <<echoClients, up, down>>

\* listen() throws if ::listen fails.
ServerListens ==
  /\ spc = "bound"
  /\ \/ spc' = "accept" /\ UNCHANGED <<backlog, served, ebuf>>
     \/ Gone
  /\ UNCHANGED <<echoClients, up, down>>

ServerAccepts ==
  /\ spc = "accept" /\ backlog # <<>>
  /\ served' = {Head(backlog)} /\ backlog' = Tail(backlog)
  /\ spc' = "read"
  /\ UNCHANGED <<ebuf, echoClients, up, down>>

\* ::accept fails, and accept() throws.
ServerAcceptFails ==
  /\ spc = "accept" /\ Gone
  /\ UNCHANGED <<echoClients, up, down>>

\* s.read(buf, 1024), n bytes of it; 0 is the end of the client's stream.
ServerReads(c, n) ==
  /\ spc = "read" /\ c \in served
  /\ n <= Len(up[c])
  /\ ebuf' = Take(up[c], n)
  /\ up' = [up EXCEPT ![c] = Drop(@, n)]
  /\ spc' = "write"
  /\ UNCHANGED <<backlog, served, echoClients, down>>

\* Slip: the end of the stream is taken for nothing to read yet.
ServerReadsOn(c) == FALSE /\ UNCHANGED echoVars

ServerReadsEof(c) ==
  /\ spc = "read" /\ c \in served
  /\ up[c] = <<>> /\ kpc[c] \in {"ended", "killed"}
  /\ spc' = "sleep"
  /\ UNCHANGED <<backlog, served, ebuf, echoClients, up, down>>

\* Slip: the loop of write() does not advance over what has been taken.
UnechoedStays(n) == Take(ebuf, Len(ebuf) - n)

Unechoed(n) == Drop(ebuf, n)

\* One ::write of s.write(buf, rcnt), which takes n bytes; write() returns
\* only when all are taken, so the loop around it runs once.
ServerWrites(c, n) ==
  /\ spc = "write" /\ c \in served
  /\ n <= Len(ebuf) /\ Len(down[c]) + n <= Room
  /\ down' = [down EXCEPT ![c] = @ \o Take(ebuf, n)]
  /\ ebuf' = Unechoed(n)
  /\ spc' = IF n = Len(ebuf) THEN "read" ELSE "write"
  /\ UNCHANGED <<backlog, served, echoClients, up>>

\* The client is not there: ::read or ::write fails, and what read() or
\* write() throws ends the process.
ServerFails(c) ==
  /\ c \in served
  /\ spc \in {"read", "write"} /\ kpc[c] = "killed"
  /\ Gone
  /\ UNCHANGED <<echoClients, up, down>>

\* sleep(300), exit(0): the first client is the only one.
ServerExits ==
  /\ spc = "sleep" /\ Gone
  /\ UNCHANGED <<echoClients, up, down>>

-----------------------------------------------------------------------------
(* The clients.                                                            *)

Step(c, from, to) == kpc[c] = from /\ kpc' = [kpc EXCEPT ![c] = to]

\* connect(host) or connect(host, port), of protocol's clientbuf.
ClientConnects(c) ==
  /\ Step(c, "start", "writing")
  /\ spc \in {"accept", "read", "write", "sleep"}
  /\ backlog' = Append(backlog, c)
  /\ UNCHANGED <<length, said, heard, up, down, spc, served, ebuf>>

\* An unknown host or service, or nobody listens there: connect() throws.
ClientRefused(c) ==
  /\ Step(c, "start", "refused")
  /\ UNCHANGED <<length, said, heard, up, down, echoServer>>

LineEnd(c, n) == n % length[c] = 0

\* A part of a line: the flush behind endl writes all of it.
ClientWrites(c, n) ==
  /\ Len(up[c]) + n <= Room
  /\ (Len(said[c]) % length[c]) + n <= length[c]
  /\ c \in served \cup Range(backlog)
  /\ LET more == [i \in 1..n |-> Len(said[c]) + i]
     IN /\ said' = [said EXCEPT ![c] = @ \o more]
        /\ up' = [up EXCEPT ![c] = @ \o more]
        /\ Step(c, "writing",
                IF LineEnd(c, Len(said[c]) + n) THEN "reading" ELSE "writing")
  /\ UNCHANGED <<length, heard, down, echoServer>>

\* getline() goes on to the end of the line; after the last line the client
\* ends and its destructor closes the connection.
ClientReads(c, n) ==
  /\ n <= Len(down[c])
  /\ heard' = [heard EXCEPT ![c] = @ \o Take(down[c], n)]
  /\ down' = [down EXCEPT ![c] = Drop(@, n)]
  /\ Step(c, "reading",
          CASE Len(heard'[c]) < Len(said[c]) -> "reading"
            [] Len(said[c]) + length[c] > MaxSaid -> "ended"
            [] OTHER -> "writing")
  /\ UNCHANGED <<length, said, up, echoServer>>

\* The server has gone: the stream's state ends the client's loop.
ClientReset(c) ==
  /\ kpc[c] \in Waiting /\ c \notin served \cup Range(backlog)
  /\ Step(c, kpc[c], "reset")
  /\ UNCHANGED <<length, said, heard, up, down, echoServer>>

ClientKilled(c) ==
  /\ kpc[c] \in Waiting
  /\ Step(c, kpc[c], "killed")
  /\ UNCHANGED <<length, said, heard, up, down, echoServer>>

-----------------------------------------------------------------------------
ServerGoesOn ==
  \/ ServerListens \/ ServerAccepts \/ ServerExits
  \/ \E c \in Clients :
       \/ ServerReadsEof(c) \/ ServerFails(c)
       \/ \E n \in 1..EchoLen : ServerReads(c, n) \/ ServerWrites(c, n)

ClientGoesOn(c) ==
  \/ ClientReset(c)
  \/ \E n \in 1..Room : ClientWrites(c, n) \/ ClientReads(c, n)

EchoNext ==
  \/ ServerBinds \/ ServerAcceptFails \/ ServerGoesOn
  \/ \E c \in Clients :
       ClientConnects(c) \/ ClientRefused(c) \/ ClientKilled(c) \/ ClientGoesOn(c)

\* Whoever can go on with a call does; nobody has to start one.
EchoFair ==
  /\ WF_echoVars(ServerGoesOn)
  /\ \A c \in Clients : WF_echoVars(ClientGoesOn(c))

EchoSpec == EchoInit /\ [][EchoNext]_echoVars /\ EchoFair
-----------------------------------------------------------------------------
\* What a client reads back is what it sent, in order, however the bytes are
\* cut on both ways, whoever else is served and whenever either side ends: the
\* server is a byte stream from each client to itself.
Promise == INSTANCE EchoPromise WITH sent <- said, received <- heard
EchoIsStream == Promise!PromiseSpec

\* A client that sends a line and reads it back ends, also the one that is
\* never accepted, if its lines fit what both directions of a connection and
\* one byte in serve() can hold; a longer one stops client and server, each
\* writing (echo.cpp:50).
EchoEnds ==
  \A c \in Clients :
    kpc[c] \in Waiting /\ length[c] <= 2 * Room + 1 ~> kpc[c] \notin Waiting
=============================================================================
