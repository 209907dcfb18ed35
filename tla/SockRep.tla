------------------------------ MODULE SockRep ------------------------------
(***************************************************************************)
(* The life of sockbuf objects that share a descriptor: the counted sockcnt*)
(* record behind rep, the areas each object allocates, shutdown, and the   *)
(* destructor, which may throw in the middle                               *)
(* (src/socket++/sockstream.cpp:147-233 and 824-842).                      *)
(*                                                                         *)
(* The record an object creates bears the object's name.  An area is either*)
(* "get" or "put"; what a put area holds is reduced to whether some of it  *)
(* has not been flushed.  An object name is used once.                     *)
(***************************************************************************)
EXTENDS Integers, FiniteSets

CONSTANTS
  Objs,       \* the sockbuf objects of the program
  Descs       \* the descriptor numbers of the process

\* What rep is before an object is constructed.
NoRep == "none"

ASSUME RepConstants == IsFiniteSet(Objs) /\ NoRep \notin Objs

VARIABLES
  life,       \* "none", "live", "dead", or "torn": its destructor threw
  rep,        \* the record the object points to
  cnt,        \* rep->cnt of each record
  allocated,  \* the records that new made and delete has not freed
  sock,       \* rep->sock of each record
  openDescs,  \* the descriptors the kernel holds open for the process
  ptrs,       \* the areas the object's pointers refer to
  heap,       \* the areas allocated and not yet freed, as <<owner, area>>
  dirty,      \* the objects whose put area holds unflushed bytes
  closed      \* the records, until they are freed, that close() was called on

repVars == <<life, rep, cnt, allocated, sock, openDescs, ptrs, heap, dirty,
             closed>>
recordVars == <<cnt, allocated, sock, openDescs, closed>>

Areas == {"get", "put"}

RepInit ==
  /\ life = [o \in Objs |-> "none"]
  /\ rep = [o \in Objs |-> NoRep]
  /\ cnt = [o \in Objs |-> 0]
  /\ allocated = {}
  /\ sock = [o \in Objs |-> -1]
  /\ openDescs = {}
  /\ ptrs = [o \in Objs |-> {}]
  /\ heap = {}
  /\ dirty = {}
  /\ closed = {}

-----------------------------------------------------------------------------
(* Construction.                                                           *)

\* From a domain and type, or from the socket value of one accept: d is a
\* descriptor the kernel has just made.
Construct(o, d) ==
  /\ life[o] = "none"
  /\ d \notin openDescs
  /\ life' = [life EXCEPT ![o] = "live"]
  /\ rep' = [rep EXCEPT ![o] = o]
  /\ cnt' = [cnt EXCEPT ![o] = 1]
  /\ allocated' = allocated \cup {o}
  /\ sock' = [sock EXCEPT ![o] = d]
  /\ openDescs' = openDescs \cup {d}
  /\ ptrs' = [ptrs EXCEPT ![o] = Areas]
  /\ heap' = heap \cup ({o} \X Areas)
  /\ UNCHANGED <<dirty, closed>>

\* Slip: the copy shares the record without counting itself.
CopyUncounted(o, from) ==
  /\ life[o] = "none" /\ life[from] = "live"
  /\ life' = [life EXCEPT ![o] = "live"]
  /\ rep' = [rep EXCEPT ![o] = rep[from]]
  /\ UNCHANGED <<recordVars, ptrs, heap, dirty>>

\* The copy constructor: streambuf(sb) is commented out, so the copy's six
\* pointers stay null; it only counts itself on the record.
CopyOf(o, from) ==
  /\ life[o] = "none" /\ life[from] = "live"
  /\ life' = [life EXCEPT ![o] = "live"]
  /\ rep' = [rep EXCEPT ![o] = rep[from]]
  /\ cnt' = [cnt EXCEPT ![rep[from]] = @ + 1]
  /\ UNCHANGED <<allocated, sock, openDescs, ptrs, heap, dirty, closed>>

-----------------------------------------------------------------------------
(* Use.                                                                    *)

\* xsputn or overflow leaves characters in the put area; without one they
\* return eof.
Put(o) ==
  /\ life[o] = "live"
  /\ "put" \in ptrs[o]
  /\ dirty' = dirty \cup {o}
  /\ UNCHANGED <<life, rep, recordVars, ptrs, heap>>

Flush(o) ==
  /\ life[o] = "live"
  /\ dirty' = dirty \ {o}
  /\ UNCHANGED <<life, rep, recordVars, ptrs, heap>>

\* Slip: the pointers are not reset after delete[].
ShutdownDangles(o, how) ==
  /\ life[o] = "live"
  /\ how # {}
  /\ heap' = heap \ ({o} \X (how \cap ptrs[o]))
  /\ dirty' = IF "put" \in how THEN dirty \ {o} ELSE dirty
  /\ UNCHANGED <<life, rep, recordVars, ptrs>>

\* how is {"get"}, {"put"} or both: the areas are deleted, the put area with
\* what it holds, before ::shutdown, whose failure changes nothing more.
Shutdown(o, how) ==
  /\ life[o] = "live"
  /\ how # {}
  /\ heap' = heap \ ({o} \X (how \cap ptrs[o]))
  /\ ptrs' = [ptrs EXCEPT ![o] = @ \ how]
  /\ dirty' = IF "put" \in how THEN dirty \ {o} ELSE dirty
  /\ UNCHANGED <<life, rep, recordVars>>

\* close() returns true and does nothing else: the call itself is remembered.
Close(o) ==
  /\ life[o] = "live"
  /\ closed' = closed \cup {rep[o]}
  /\ UNCHANGED <<life, rep, cnt, allocated, sock, openDescs, ptrs, heap, dirty>>

-----------------------------------------------------------------------------
(* Destruction.                                                            *)

\* The flush in ~basic_sockbuf throws and leaves the rest of it undone; the
\* base class is destroyed all the same and the object is gone.
DestroyThrows(o) ==
  /\ life[o] = "live"
  /\ o \in dirty
  /\ life' = [life EXCEPT ![o] = "torn"]
  /\ UNCHANGED <<rep, recordVars, ptrs, heap, dirty>>

\* Slip: the areas are deleted but the write buffer is not flushed first.
DestroyUnflushed(o) ==
  /\ life[o] = "live"
  /\ life' = [life EXCEPT ![o] = "dead"]
  /\ cnt' = [cnt EXCEPT ![rep[o]] = @ - 1]
  /\ IF cnt[rep[o]] = 1
     THEN /\ heap' = heap \ ({o} \X ptrs[o])
          /\ openDescs' = openDescs \ {sock[rep[o]]}
          /\ allocated' = allocated \ {rep[o]}
     ELSE UNCHANGED <<heap, openDescs, allocated>>
  /\ closed' = closed \cap allocated'
  /\ UNCHANGED <<rep, sock, ptrs, dirty>>

\* Slip: the areas and the record wait for the last object, but ::close stands
\* outside the condition.
DestroyCloses(o) ==
  /\ life[o] = "live"
  /\ life' = [life EXCEPT ![o] = "dead"]
  /\ dirty' = dirty \ {o}
  /\ cnt' = [cnt EXCEPT ![rep[o]] = @ - 1]
  /\ openDescs' = openDescs \ {sock[rep[o]]}
  /\ IF cnt[rep[o]] = 1
     THEN /\ heap' = heap \ ({o} \X ptrs[o])
          /\ allocated' = allocated \ {rep[o]}
     ELSE UNCHANGED <<heap, allocated>>
  /\ closed' = closed \cap allocated'
  /\ UNCHANGED <<rep, sock, ptrs>>

\* The whole destructor: flush, uncount, and for the last object delete the
\* areas, close the descriptor and delete the record.  An object that is not
\* the last keeps its areas allocated.
Destroy(o) ==
  /\ life[o] = "live"
  /\ life' = [life EXCEPT ![o] = "dead"]
  /\ dirty' = dirty \ {o}
  /\ cnt' = [cnt EXCEPT ![rep[o]] = @ - 1]
  /\ IF cnt[rep[o]] = 1
     THEN /\ heap' = heap \ ({o} \X ptrs[o])
          /\ openDescs' = openDescs \ {sock[rep[o]]}
          /\ allocated' = allocated \ {rep[o]}
     ELSE UNCHANGED <<heap, openDescs, allocated>>
  /\ closed' = closed \cap allocated'
  /\ UNCHANGED <<rep, sock, ptrs>>

RepNext ==
  \E o \in Objs :
    \/ \E d \in Descs : Construct(o, d)
    \/ \E from \in Objs : CopyOf(o, from)
    \/ Put(o) \/ Flush(o) \/ Close(o)
    \/ \E how \in SUBSET Areas : Shutdown(o, how)
    \/ Destroy(o) \/ DestroyThrows(o)

RepSpec == RepInit /\ [][RepNext]_repVars
-----------------------------------------------------------------------------
Live == {o \in Objs : life[o] = "live"}

\* The objects that count on record r: the live ones, and those whose
\* destructor threw before it reached --rep->cnt.
Holders(r) == {o \in Objs : life[o] \in {"live", "torn"} /\ rep[o] = r}

RepTypeOK ==
  /\ life \in [Objs -> {"none", "live", "dead", "torn"}]
  /\ rep \in [Objs -> Objs \cup {NoRep}]
  /\ cnt \in [Objs -> Nat]
  /\ allocated \subseteq Objs
  /\ sock \in [Objs -> Descs \cup {-1}]
  /\ openDescs \subseteq Descs
  /\ ptrs \in [Objs -> SUBSET Areas]
  /\ heap \subseteq Objs \X Areas
  /\ dirty \subseteq Objs
  /\ closed \subseteq Objs

\* The count of an allocated record is the number of objects that hold it,
\* and a record nobody holds has been freed.
CountIsHolders ==
  /\ \A r \in allocated : cnt[r] = Cardinality(Holders(r)) /\ cnt[r] > 0
  /\ \A r \in Objs \ allocated : Holders(r) = {}

\* The record of a live object has not been freed, and unless close() has been
\* called on it its descriptor is open and no object of another such record has
\* been given the same one: whatever its copies do short of close(), destroying
\* them never closes the socket under it.
LiveObjectsWork ==
  /\ \A o \in Live : rep[o] \in allocated
  /\ \A o \in Live : rep[o] \notin closed =>
       /\ sock[rep[o]] \in openDescs
       /\ \A p \in Live : rep[p] \notin closed /\ sock[rep[p]] = sock[rep[o]] =>
            rep[p] = rep[o]

\* The pointers of a live object refer to areas it owns and nobody has freed:
\* nothing is deleted twice and no copy reaches into another object's area.
PointersValid == \A o \in Live : {o} \X ptrs[o] \subseteq heap

\* When a descriptor is closed every object that shared it had flushed what
\* it held: closing never loses output.
ClosedFlushed ==
  [][\A r \in allocated : sock[r] \in openDescs \ openDescs' =>
       \A o \in Objs : rep[o] = r => o \notin dirty']_repVars

\* A sockbuf's destructor closes its socket unless another sockbuf refers to
\* it (socket++.texi:293).
ClosedWithLast ==
  \A r \in allocated : \E o \in Live : rep[o] = r

\* "closes the socket even if it is referenced by other sockbuf objects"
\* (socket++.texi:300, of close()).
ClosedIsClosed ==
  [][\A r \in closed' \ closed : sock[r] \notin openDescs']_repVars
=============================================================================
