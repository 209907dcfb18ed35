----------------------------- MODULE InetStreams -----------------------------
(***************************************************************************)
(* The inet stream objects, each of which makes a sockinetbuf of its own   *)
(* and deletes it, and the use count of the socket library, which every    *)
(* stream and every sockinetbuf holds by its base class sockinit           *)
(* (src/socket++/sockinet.cpp:426-545, as compiled for Windows: elsewhere  *)
(* the count starts and stops nothing).                                    *)
(*                                                                         *)
(* The buffers are the objects of module SockRep.  A stream's name is used *)
(* once; the program has buffers of its own beside those of its streams.   *)
(***************************************************************************)
EXTENDS SockRep

CONSTANT Streams

\* What rdbuf() is before a stream is constructed, and after its destructor.
NoBuf == "none"
Gone == "gone"

ASSUME StreamConstants == IsFiniteSet(Streams) /\ {NoBuf, Gone} \cap Objs = {}

VARIABLES
  rdbuf,      \* the buffer of each stream
  count,      \* sockinit::count
  started     \* the library has been started and not cleaned up

streamVars == <<repVars, rdbuf, count, started>>

Open == {s \in Streams : rdbuf[s] \in Objs}

StreamInit ==
  /\ RepInit
  /\ rdbuf = [s \in Streams |-> NoBuf]
  /\ count = 0
  /\ started = FALSE

-----------------------------------------------------------------------------
(* sockinit.                                                               *)

\* n objects with a sockinit base come: the first of all calls WSAStartup.
Comes(n) ==
  /\ count' = count + n
  /\ started' = (started \/ count = 0)

\* n of them go: the last of all calls WSACleanup.
Goes(n) ==
  /\ count' = count - n
  /\ started' = (started /\ count # n)

-----------------------------------------------------------------------------
(* Buffers of the program.                                                 *)

MakeBuf(o, d) ==
  /\ Construct(o, d)
  /\ Comes(1)
  /\ UNCHANGED rdbuf

\* Slip: the copy constructor is left to the compiler, which copies the base
\* class sockinit without counting.
CopyBufImplicitly(o, from) ==
  /\ CopyOf(o, from)
  /\ UNCHANGED <<rdbuf, count, started>>

\* The copy constructor names basic_sockbuf only, so its sockinit base is
\* constructed by default, and counts.
CopyBuf(o, from) ==
  /\ CopyOf(o, from)
  /\ Comes(1)
  /\ UNCHANGED rdbuf

\* ~basic_sockbuf runs first, then ~sockinit, also if the flush throws.
DeleteBuf(o) ==
  /\ \A s \in Open : rdbuf[s] # o
  /\ Destroy(o) \/ DestroyThrows(o)
  /\ Goes(1)
  /\ UNCHANGED rdbuf

-----------------------------------------------------------------------------
(* Streams.                                                                *)

\* isockinet, osockinet and iosockinet from a type, or from what accept
\* returned: new sockinetbuf, for this stream alone.
OpenStream(s, o, d) ==
  /\ rdbuf[s] = NoBuf
  /\ Construct(o, d)
  /\ rdbuf' = [rdbuf EXCEPT ![s] = o]
  /\ Comes(2)

\* From a sockinetbuf, which may be another stream's: the stream gets a copy
\* that shares the descriptor.
OpenOnCopy(s, o, from) ==
  /\ rdbuf[s] = NoBuf
  /\ CopyOf(o, from)
  /\ rdbuf' = [rdbuf EXCEPT ![s] = o]
  /\ Comes(2)

\* The destructor deletes rdbuf(): the buffer goes with its sockinit, and
\* after it the stream with its own, also if the buffer's flush throws.
CloseStream(s) ==
  /\ s \in Open
  /\ Destroy(rdbuf[s]) \/ DestroyThrows(rdbuf[s])
  /\ rdbuf' = [rdbuf EXCEPT ![s] = Gone]
  /\ Goes(2)

\* Calls on a buffer, through a stream or not.
UseBuf(o) ==
  /\ Put(o) \/ Flush(o) \/ Close(o) \/ \E how \in SUBSET Areas : Shutdown(o, how)
  /\ UNCHANGED <<rdbuf, count, started>>

StreamNext ==
  \/ \E o \in Objs :
       \/ \E d \in Descs : MakeBuf(o, d)
       \/ \E from \in Objs : CopyBuf(o, from)
       \/ DeleteBuf(o)
       \/ UseBuf(o)
  \/ \E s \in Streams :
       \/ \E o \in Objs, d \in Descs : OpenStream(s, o, d)
       \/ \E o, from \in Objs : OpenOnCopy(s, o, from)
       \/ CloseStream(s)

StreamSpec == StreamInit /\ [][StreamNext]_streamVars
-----------------------------------------------------------------------------
\* In whatever order buffers and streams share descriptors, throw from their
\* destructors and go: an open stream has a live buffer that is no other
\* stream's, and the socket library is not cleaned up while a stream is open
\* or a buffer lives.
StreamsWork ==
  /\ \A s \in Open : rdbuf[s] \in Live
  /\ \A s, t \in Open : rdbuf[s] = rdbuf[t] => s = t
  /\ Open \cup Live # {} => started
=============================================================================
