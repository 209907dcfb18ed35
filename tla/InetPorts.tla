----------------------------- MODULE InetPorts -----------------------------
(***************************************************************************)
(* How sockinetbuf comes to a port (src/socket++/sockinet.cpp): sockets    *)
(* that bind to a given port, to any, to that of a service, or to the      *)
(* first free one from a given one on (bind_until_success, used by ftp's   *)
(* data connection), while other processes of the host take and give back  *)
(* ports.  Addresses are not told apart.                                   *)
(***************************************************************************)
EXTENDS Integers, FiniteSets

CONSTANTS
  Sockets,
  MaxPort,    \* the ports are 1..MaxPort, and 0 asks for any
  Privileged  \* bind() denies the ports up to this one

ASSUME PortConstants ==
  IsFiniteSet(Sockets) /\ MaxPort \in Nat /\ Privileged \in 0..MaxPort

VARIABLES
  others,     \* the ports that other processes hold
  bpc,        \* each socket: "idle", "try" (bind_until_success), or "bound"
  portno,     \* the port it tries next, an int
  port        \* the port it holds, or 0

portVars == <<others, bpc, portno, port>>

Ports == 1..MaxPort
Ephemeral == (Privileged + 1)..MaxPort
Taken(held) == others \cup ({held[k] : k \in Sockets} \ {0})
InUse == Taken(port)

PortInit ==
  /\ others = {}
  /\ bpc = [k \in Sockets |-> "idle"]
  /\ portno = [k \in Sockets |-> 0]
  /\ port = [k \in Sockets |-> 0]

\* htons() keeps the low 16 bits of an int: the port after the last is 0.
Htons(n) == n % (MaxPort + 1)

\* ::bind of a socket that asks for port p.
Granted(p) == (IF p = 0 THEN Ephemeral ELSE {p} \ 1..Privileged) \ InUse
Denied(p) == p \in 1..Privileged
AddressInUse(p) == Granted(p) = {} /\ ~Denied(p)

BindTo(k, p) ==
  /\ port' = [port EXCEPT ![k] = p]
  /\ bpc' = [bpc EXCEPT ![k] = "bound"]

\* bind(port), bind(host, port), bind(addr, service, protocol), ...: a service
\* is the port the services database has for it.  If the port is denied or in
\* use, or host or service are unknown, bind throws and nothing changes.
Bind(k, n) ==
  /\ bpc[k] = "idle"
  /\ \E p \in Granted(Htons(n)) : BindTo(k, p)
  /\ UNCHANGED <<others, portno>>

BindUntilSuccess(k, n) ==
  /\ bpc[k] = "idle"
  /\ bpc' = [bpc EXCEPT ![k] = "try"]
  /\ portno' = [portno EXCEPT ![k] = n]
  /\ UNCHANGED <<others, port>>

\* Slip: the same port is tried again.
SamePort(n) == n

NextPort(n) == n + 1

\* One bind(portno++) in the loop of bind_until_success.
TryBound(k) ==
  /\ bpc[k] = "try"
  /\ \E p \in Granted(Htons(portno[k])) : BindTo(k, p)
  /\ portno' = [portno EXCEPT ![k] = 0]
  /\ UNCHANGED others

\* Only EADDRINUSE makes it go on.
TryNext(k) ==
  /\ bpc[k] = "try" /\ AddressInUse(Htons(portno[k]))
  /\ portno' = [portno EXCEPT ![k] = NextPort(@)]
  /\ UNCHANGED <<others, bpc, port>>

TryThrows(k) ==
  /\ bpc[k] = "try" /\ Denied(Htons(portno[k]))
  /\ bpc' = [bpc EXCEPT ![k] = "idle"]
  /\ portno' = [portno EXCEPT ![k] = 0]
  /\ UNCHANGED <<others, port>>

\* The destructor of the last copy closes the descriptor; close() does nothing.
CloseSocket(k) ==
  /\ bpc[k] = "bound"
  /\ port' = [port EXCEPT ![k] = 0]
  /\ bpc' = [bpc EXCEPT ![k] = "idle"]
  /\ UNCHANGED <<others, portno>>

\* The host does not run out of ports for the sockets.
OtherBinds ==
  /\ \E p \in Ephemeral \ InUse : others' = others \cup {p}
  /\ Cardinality(Ephemeral \ others') >= Cardinality(Sockets)
  /\ UNCHANGED <<bpc, portno, port>>

OtherCloses ==
  /\ \E p \in others : others' = others \ {p}
  /\ UNCHANGED <<bpc, portno, port>>

Tries(k) == TryBound(k) \/ TryNext(k) \/ TryThrows(k)

PortNext ==
  \/ OtherBinds \/ OtherCloses
  \/ \E k \in Sockets :
       \/ Tries(k) \/ CloseSocket(k)
       \/ \E n \in 0..MaxPort : Bind(k, n) \/ BindUntilSuccess(k, n)

\* A process whose loop goes on runs.
PortFair == \A k \in Sockets : WF_portVars(Tries(k))

PortSpec == PortInit /\ [][PortNext]_portVars /\ PortFair
-----------------------------------------------------------------------------
\* bind_until_success ends however the ports change hands behind it: portno++
\* wraps to port 0 at last, and there is always one for a socket that takes
\* any (sockinet.cpp:247).
BindSettles == \A k \in Sockets : bpc[k] = "try" ~> bpc[k] # "try"
=============================================================================
