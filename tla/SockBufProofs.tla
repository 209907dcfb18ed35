--------------------------- MODULE SockBufProofs ---------------------------
(***************************************************************************)
(* Theorems about sockbuf objects that share a descriptor (SockRep) and    *)
(* about the inet streams that hold them (InetStreams), for any number of  *)
(* objects, streams and descriptors; and about the transfers that go past  *)
(* the areas of a sockbuf (StringFrames), for any protocol, lengths and    *)
(* channel.                                                                *)
(***************************************************************************)
EXTENDS InetStreams, StringFrames, ByteSeqProofs, FiniteSetTheorems

(***************************************************************************)
(* PART I.  Objects that share a descriptor, and the streams.              *)
(***************************************************************************)

\* An object that was constructed points to a record, one that was not has no
\* areas; the allocated records have open descriptors, each its own.
RecordsDisjoint ==
  /\ \A o \in Objs : IF life[o] = "none" THEN ptrs[o] = {} ELSE rep[o] \in Objs
  /\ \A r \in allocated : sock[r] \in openDescs /\ life[r] # "none"
  /\ \A r, s \in allocated : sock[r] = sock[s] => r = s

RepShape == RepTypeOK /\ CountIsHolders /\ RecordsDisjoint /\ PointersValid

LEMMA HoldersFinite ==
  ASSUME NEW r
  PROVE  IsFiniteSet(Holders(r)) /\ Cardinality(Holders(r)) \in Nat
<1>1. Holders(r) \subseteq Objs
  BY DEF Holders
<1>2. QED
  BY <1>1, RepConstants, FS_Subset, FS_CardinalityType

LEMMA HolderAllocated ==
  ASSUME RepShape, NEW o \in Objs, life[o] \in {"live", "torn"}
  PROVE  /\ rep[o] \in allocated /\ rep[o] \in Objs
         /\ o \in Holders(rep[o])
         /\ cnt[rep[o]] = Cardinality(Holders(rep[o])) /\ cnt[rep[o]] \in Nat \ {0}
<1>1. o \in Holders(rep[o])
  BY DEF Holders
<1>2. rep[o] \in Objs
  BY DEF RepShape, RecordsDisjoint
<1>3. rep[o] \in allocated
  BY <1>1, <1>2 DEF RepShape, CountIsHolders
<1>4. QED
  BY <1>1, <1>2, <1>3 DEF RepShape, CountIsHolders, RepTypeOK

-----------------------------------------------------------------------------
LEMMA RepShapeInit == RepInit => RepShape
<1>. SUFFICES ASSUME RepInit PROVE RepShape
  OBVIOUS
<1>1. RepTypeOK
  BY DEF RepInit, RepTypeOK
<1>2. \A r : Holders(r) = {}
  BY DEF RepInit, Holders
<1>3. CountIsHolders
  BY <1>2 DEF RepInit, CountIsHolders
<1>4. RecordsDisjoint /\ PointersValid
  BY DEF RepInit, RecordsDisjoint, PointersValid, Live
<1>5. QED
  BY <1>1, <1>3, <1>4 DEF RepShape

\* A step that moves no object between records and ends none.
LEMMA RepShapeKept ==
  ASSUME RepShape, UNCHANGED <<life, rep, cnt, allocated, sock, openDescs>>,
         RepTypeOK', PointersValid',
         \A o \in Objs : life[o] = "none" => ptrs'[o] = ptrs[o]
  PROVE  RepShape'
<1>1. \A r : Holders(r)' = Holders(r)
  BY DEF Holders
<1>2. CountIsHolders'
  BY <1>1 DEF RepShape, CountIsHolders
<1>3. RecordsDisjoint'
  BY DEF RepShape, RecordsDisjoint
<1>4. QED
  BY <1>2, <1>3 DEF RepShape

LEMMA ConstructKeeps ==
  ASSUME RepShape, NEW o \in Objs, NEW d \in Descs, Construct(o, d)
  PROVE  RepShape'
<1>1. o \notin allocated /\ Holders(o) = {}
  BY DEF Construct, RepShape, RecordsDisjoint, CountIsHolders
<1>2. RepTypeOK'
  BY DEF Construct, RepShape, RepTypeOK
<1>3. Holders(o)' = {o}
  <2>1. \A p \in Objs \ {o} : life'[p] = life[p] /\ rep'[p] = rep[p]
    BY DEF Construct, RepShape, RepTypeOK
  <2>2. life'[o] = "live" /\ rep'[o] = o
    BY DEF Construct, RepShape, RepTypeOK
  <2>3. QED
    BY <1>1, <2>1, <2>2 DEF Holders
<1>4. \A r \in Objs \ {o} : Holders(r)' = Holders(r)
  <2>. SUFFICES ASSUME NEW r \in Objs \ {o} PROVE Holders(r)' = Holders(r)
    OBVIOUS
  <2>1. \A p \in Objs \ {o} : life'[p] = life[p] /\ rep'[p] = rep[p]
    BY DEF Construct, RepShape, RepTypeOK
  <2>2. rep'[o] = o /\ life[o] = "none"
    BY DEF Construct, RepShape, RepTypeOK
  <2>3. QED
    BY <2>1, <2>2 DEF Holders
<1>5. allocated' = allocated \cup {o} /\ cnt'[o] = 1
      /\ \A r \in Objs \ {o} : cnt'[r] = cnt[r]
  BY DEF Construct, RepShape, RepTypeOK
<1>6. Cardinality({o}) = 1
  BY FS_Singleton
<1>7. CountIsHolders'
  <2>1. allocated \subseteq Objs /\ CountIsHolders
    BY DEF RepShape, RepTypeOK
  <2>2. \A r \in allocated' : cnt'[r] = Cardinality(Holders(r)') /\ cnt'[r] > 0
    BY <1>3, <1>4, <1>5, <1>6, <2>1 DEF CountIsHolders
  <2>3. \A r \in Objs \ allocated' : Holders(r)' = {}
    BY <1>4, <1>5, <2>1 DEF CountIsHolders
  <2>4. QED
    BY <2>2, <2>3 DEF CountIsHolders
<1>8. RecordsDisjoint'
  BY <1>1, <1>5 DEF Construct, RepShape, RepTypeOK, RecordsDisjoint
<1>9. PointersValid'
  BY DEF Construct, RepShape, RepTypeOK, PointersValid, Live
<1>10. QED
  BY <1>2, <1>7, <1>8, <1>9 DEF RepShape

LEMMA CopyKeeps ==
  ASSUME RepShape, NEW o \in Objs, NEW from \in Objs, CopyOf(o, from),
         NEW r0, r0 = rep[from]
  PROVE  RepShape'
<1>1. life[o] = "none" /\ life[from] = "live"
  BY DEF CopyOf
<1>2. /\ r0 \in allocated /\ r0 \in Objs
      /\ cnt[r0] = Cardinality(Holders(r0)) /\ cnt[r0] \in Nat \ {0}
  BY <1>1, HolderAllocated
<1>3. RepTypeOK'
  BY <1>2 DEF CopyOf, RepShape, RepTypeOK
<1>4. /\ \A p \in Objs \ {o} : life'[p] = life[p] /\ rep'[p] = rep[p]
      /\ life'[o] = "live" /\ rep'[o] = r0
  BY DEF CopyOf, RepShape, RepTypeOK
<1>5. o \notin Holders(r0) /\ Holders(r0)' = Holders(r0) \cup {o}
  BY <1>1, <1>4 DEF Holders
<1>6. \A r \in Objs \ {r0} : Holders(r)' = Holders(r)
  BY <1>1, <1>4 DEF Holders
<1>7. Cardinality(Holders(r0)') = cnt[r0] + 1
  BY <1>2, <1>5, HoldersFinite, FS_AddElement
<1>8. /\ cnt'[r0] = cnt[r0] + 1
      /\ \A r \in Objs \ {r0} : cnt'[r] = cnt[r]
      /\ allocated' = allocated
  BY <1>2 DEF CopyOf, RepShape, RepTypeOK
<1>9. CountIsHolders'
  BY <1>2, <1>6, <1>7, <1>8 DEF RepShape, RepTypeOK, CountIsHolders
<1>10. RecordsDisjoint'
  BY <1>2, <1>4 DEF CopyOf, RepShape, RepTypeOK, RecordsDisjoint
<1>11. PointersValid'
  <2>1. ptrs' = ptrs /\ heap' = heap /\ ptrs[o] = {}
    BY <1>1 DEF CopyOf, RepShape, RecordsDisjoint
  <2>2. \A p \in Objs : {p} \X {} \subseteq heap
    OBVIOUS
  <2>3. QED
    BY <1>4, <2>1, <2>2 DEF RepShape, PointersValid, Live
<1>12. QED
  BY <1>3, <1>9, <1>10, <1>11 DEF RepShape

\* The last object of record r0 is destroyed, and the record with it.
LEMMA DestroyLastKeeps ==
  ASSUME RepShape, NEW o \in Objs, Destroy(o), NEW r0, r0 = rep[o], cnt[r0] = 1
  PROVE  RepShape'
<1>1. life[o] = "live"
  BY DEF Destroy
<1>2. /\ r0 \in allocated /\ r0 \in Objs /\ o \in Holders(r0)
      /\ cnt[r0] = Cardinality(Holders(r0))
  BY <1>1, HolderAllocated
<1>3. /\ allocated' = allocated \ {r0}
      /\ openDescs' = openDescs \ {sock[r0]}
      /\ heap' = heap \ ({o} \X ptrs[o])
      /\ sock' = sock /\ rep' = rep /\ ptrs' = ptrs
  BY DEF Destroy
<1>4. /\ life'[o] = "dead"
      /\ \A p \in Objs \ {o} : life'[p] = life[p]
  BY DEF Destroy, RepShape, RepTypeOK
<1>5. \A r \in Objs \ {r0} : cnt'[r] = cnt[r]
  BY DEF Destroy, RepShape, RepTypeOK
<1>6. RepTypeOK'
  BY <1>2 DEF Destroy, RepShape, RepTypeOK
<1>7. Holders(r0)' = Holders(r0) \ {o}
  BY <1>3, <1>4 DEF Holders
<1>8. Holders(r0)' = {}
  <2>1. Cardinality(Holders(r0) \ {o}) = 0
    <3>1. Cardinality(Holders(r0)) = 1 /\ IsFiniteSet(Holders(r0))
      BY <1>2, HoldersFinite
    <3>2. Cardinality(Holders(r0) \ {o}) = Cardinality(Holders(r0)) - 1
      BY <1>2, <3>1, FS_RemoveElement
    <3>3. QED
      BY <3>1, <3>2
  <2>2. IsFiniteSet(Holders(r0) \ {o})
    BY HoldersFinite, FS_RemoveElement
  <2>3. QED
    BY <1>7, <2>1, <2>2, FS_EmptySet
<1>9. \A r \in Objs \ {r0} : Holders(r)' = Holders(r)
  BY <1>3, <1>4 DEF Holders
<1>10. CountIsHolders'
  BY <1>2, <1>3, <1>5, <1>8, <1>9 DEF RepShape, RepTypeOK, CountIsHolders
<1>11. RecordsDisjoint'
  BY <1>1, <1>2, <1>3, <1>4 DEF RepShape, RepTypeOK, RecordsDisjoint
<1>12. PointersValid'
  BY <1>3, <1>4 DEF RepShape, RepTypeOK, PointersValid, Live
<1>13. QED
  BY <1>6, <1>10, <1>11, <1>12 DEF RepShape

\* An object goes and the record stays.
LEMMA DestroyOtherKeeps ==
  ASSUME RepShape, NEW o \in Objs, Destroy(o), NEW r0, r0 = rep[o], cnt[r0] # 1
  PROVE  RepShape'
<1>1. life[o] = "live"
  BY DEF Destroy
<1>2. /\ r0 \in allocated /\ r0 \in Objs /\ o \in Holders(r0)
      /\ cnt[r0] = Cardinality(Holders(r0)) /\ cnt[r0] \in Nat \ {0}
  BY <1>1, HolderAllocated
<1>3. /\ allocated' = allocated /\ openDescs' = openDescs /\ heap' = heap
      /\ sock' = sock /\ rep' = rep /\ ptrs' = ptrs
  BY DEF Destroy
<1>4. /\ life'[o] = "dead"
      /\ \A p \in Objs \ {o} : life'[p] = life[p]
  BY DEF Destroy, RepShape, RepTypeOK
<1>5. /\ cnt'[r0] = cnt[r0] - 1
      /\ \A r \in Objs \ {r0} : cnt'[r] = cnt[r]
  BY <1>2 DEF Destroy, RepShape, RepTypeOK
<1>6. RepTypeOK'
  BY <1>2 DEF Destroy, RepShape, RepTypeOK
<1>7. Holders(r0)' = Holders(r0) \ {o}
  BY <1>3, <1>4 DEF Holders
<1>8. Cardinality(Holders(r0)') = cnt[r0] - 1
  BY <1>2, <1>7, HoldersFinite, FS_RemoveElement
<1>9. \A r \in Objs \ {r0} : Holders(r)' = Holders(r)
  BY <1>3, <1>4 DEF Holders
<1>10. CountIsHolders'
  BY <1>2, <1>3, <1>5, <1>8, <1>9 DEF RepShape, RepTypeOK, CountIsHolders
<1>11. RecordsDisjoint'
  BY <1>1, <1>2, <1>3, <1>4 DEF RepShape, RepTypeOK, RecordsDisjoint
<1>12. PointersValid'
  BY <1>3, <1>4 DEF RepShape, RepTypeOK, PointersValid, Live
<1>13. QED
  BY <1>6, <1>10, <1>11, <1>12 DEF RepShape

\* A destructor that throws moves its object from the live holders to the torn.
LEMMA DestroyThrowsKeeps ==
  ASSUME RepShape, NEW o \in Objs, DestroyThrows(o)
  PROVE  RepShape'
<1>1. /\ life[o] = "live" /\ life'[o] = "torn"
      /\ \A p \in Objs \ {o} : life'[p] = life[p]
      /\ UNCHANGED <<rep, cnt, allocated, sock, openDescs, ptrs, heap>>
  BY DEF DestroyThrows, RepShape, RepTypeOK, recordVars
<1>2. RepTypeOK'
  BY DEF DestroyThrows, RepShape, RepTypeOK, recordVars
<1>3. \A r : Holders(r)' = Holders(r)
  BY <1>1 DEF Holders
<1>4. CountIsHolders'
  BY <1>1, <1>3 DEF RepShape, CountIsHolders
<1>5. RecordsDisjoint'
  BY <1>1 DEF RepShape, RepTypeOK, RecordsDisjoint
<1>6. PointersValid'
  BY <1>1 DEF RepShape, PointersValid, Live
<1>7. QED
  BY <1>2, <1>4, <1>5, <1>6 DEF RepShape

LEMMA ShutdownKeeps ==
  ASSUME RepShape, NEW o \in Objs, NEW how \in SUBSET Areas, Shutdown(o, how)
  PROVE  RepShape'
<1>1. RepTypeOK'
  BY DEF Shutdown, RepShape, RepTypeOK, recordVars
<1>2. /\ \A p \in Objs \ {o} : ptrs'[p] = ptrs[p]
      /\ ptrs'[o] = ptrs[o] \ how
      /\ heap' = heap \ ({o} \X (how \cap ptrs[o]))
      /\ life[o] = "live"
  BY DEF Shutdown, RepShape, RepTypeOK
<1>3. PointersValid'
  BY <1>2 DEF Shutdown, RepShape, PointersValid, Live
<1>4. QED
  BY <1>1, <1>2, <1>3, RepShapeKept DEF Shutdown, recordVars

LEMMA RepShapeStep == RepShape /\ [RepNext]_repVars => RepShape'
<1>. SUFFICES ASSUME RepShape, [RepNext]_repVars PROVE RepShape'
  OBVIOUS
<1>1. ASSUME NEW o \in Objs, NEW d \in Descs, Construct(o, d)
      PROVE  RepShape'
  BY <1>1, ConstructKeeps
<1>2. ASSUME NEW o \in Objs, NEW from \in Objs, CopyOf(o, from)
      PROVE  RepShape'
  BY <1>2, CopyKeeps
<1>3. ASSUME NEW o \in Objs, Put(o) \/ Flush(o) \/ Close(o)
      PROVE  RepShape'
  <2>1. UNCHANGED <<life, rep, cnt, allocated, sock, openDescs, ptrs, heap>>
    BY <1>3 DEF Put, Flush, Close, recordVars
  <2>2. dirty' \subseteq Objs /\ closed' \subseteq Objs
    BY <1>3, HolderAllocated
       DEF Put, Flush, Close, RepShape, RepTypeOK, recordVars
  <2>3. RepTypeOK' /\ PointersValid'
    BY <2>1, <2>2 DEF RepShape, RepTypeOK, PointersValid, Live
  <2>4. QED
    BY <2>1, <2>3, RepShapeKept
<1>4. ASSUME NEW o \in Objs, NEW how \in SUBSET Areas, Shutdown(o, how)
      PROVE  RepShape'
  BY <1>4, ShutdownKeeps
<1>5. ASSUME NEW o \in Objs, Destroy(o)
      PROVE  RepShape'
  BY <1>5, DestroyLastKeeps, DestroyOtherKeeps
<1>6. ASSUME NEW o \in Objs, DestroyThrows(o)
      PROVE  RepShape'
  BY <1>6, DestroyThrowsKeeps
<1>7. CASE UNCHANGED repVars
  <2>1. RepTypeOK' /\ PointersValid'
    BY <1>7 DEF repVars, RepShape, RepTypeOK, PointersValid, Live
  <2>2. QED
    BY <1>7, <2>1, RepShapeKept DEF repVars
<1>8. QED
  BY <1>1, <1>2, <1>3, <1>4, <1>5, <1>6, <1>7 DEF RepNext

-----------------------------------------------------------------------------
\* rep->cnt is always the number of objects that hold the record, counting
\* those whose destructor threw, and a record nobody holds is freed.
THEOREM RepCount == RepSpec => []CountIsHolders
<1>1. RepInit => RepShape
  BY RepShapeInit
<1>2. RepShape /\ [RepNext]_repVars => RepShape'
  BY RepShapeStep
<1>3. RepShape => CountIsHolders
  BY DEF RepShape
<1>4. QED
  BY <1>1, <1>2, <1>3, PTL DEF RepSpec

\* However many copies are made and destroyed, and whatever their destructors
\* throw, the socket of a live object whose close() nobody called is open and
\* nobody else's.
THEOREM RepLiveWork == RepSpec => []LiveObjectsWork
<1>1. RepInit => RepShape
  BY RepShapeInit
<1>2. RepShape /\ [RepNext]_repVars => RepShape'
  BY RepShapeStep
<1>3. RepShape => LiveObjectsWork
  <2>. SUFFICES ASSUME RepShape PROVE LiveObjectsWork
    OBVIOUS
  <2>1. \A o \in Live : rep[o] \in allocated
    BY HolderAllocated DEF Live
  <2>2. QED
    BY <2>1 DEF LiveObjectsWork, RepShape, RecordsDisjoint
<1>4. QED
  BY <1>1, <1>2, <1>3, PTL DEF RepSpec

\* No pointer of a live object refers to an area that is freed or that another
\* object owns.
THEOREM RepPointers == RepSpec => []PointersValid
<1>1. RepInit => RepShape
  BY RepShapeInit
<1>2. RepShape /\ [RepNext]_repVars => RepShape'
  BY RepShapeStep
<1>3. RepShape => PointersValid
  BY DEF RepShape
<1>4. QED
  BY <1>1, <1>2, <1>3, PTL DEF RepSpec

\* An object that never was, or whose destructor ran to the end, has nothing
\* left to flush.
DirtyHeld == \A o \in dirty : o \in Objs /\ life[o] \in {"live", "torn"}

LEMMA DirtyHeldStep ==
  ASSUME RepShape, DirtyHeld, [RepNext]_repVars
  PROVE  DirtyHeld'
<1>1. ASSUME NEW o \in Objs, NEW d \in Descs, Construct(o, d)
      PROVE  DirtyHeld'
  BY <1>1 DEF Construct, DirtyHeld, RepShape, RepTypeOK
<1>2. ASSUME NEW o \in Objs, NEW from \in Objs, CopyOf(o, from)
      PROVE  DirtyHeld'
  BY <1>2 DEF CopyOf, DirtyHeld, RepShape, RepTypeOK
<1>3. ASSUME NEW o \in Objs, Put(o) \/ Flush(o) \/ Close(o)
      PROVE  DirtyHeld'
  BY <1>3 DEF Put, Flush, Close, DirtyHeld
<1>4. ASSUME NEW o \in Objs, NEW how \in SUBSET Areas, Shutdown(o, how)
      PROVE  DirtyHeld'
  BY <1>4 DEF Shutdown, DirtyHeld
<1>5. ASSUME NEW o \in Objs, Destroy(o) \/ DestroyThrows(o)
      PROVE  DirtyHeld'
  BY <1>5 DEF Destroy, DestroyThrows, DirtyHeld, RepShape, RepTypeOK
<1>6. CASE UNCHANGED repVars
  BY <1>6 DEF repVars, DirtyHeld
<1>7. QED
  BY <1>1, <1>2, <1>3, <1>4, <1>5, <1>6 DEF RepNext

LEMMA ClosingIsClean ==
  ASSUME RepShape, DirtyHeld, RepNext,
         NEW r \in allocated, sock[r] \in openDescs \ openDescs',
         NEW p \in Objs, rep[p] = r
  PROVE  p \notin dirty'
<1>1. PICK o \in Objs : Destroy(o) /\ cnt[rep[o]] = 1
  BY DEF RepNext, Construct, CopyOf, Put, Flush, Close, Shutdown, Destroy,
         DestroyThrows, recordVars
<1>2. /\ rep[o] \in allocated /\ o \in Holders(rep[o])
      /\ Cardinality(Holders(rep[o])) = 1
  BY <1>1, HolderAllocated DEF Destroy
<1>3. rep[o] = r
  BY <1>1, <1>2 DEF Destroy, RepShape, RecordsDisjoint
<1>4. p \in Holders(r) => p = o
  <2>1. PICK q : Holders(r) = {q}
    BY <1>2, <1>3, HoldersFinite, FS_Singleton
  <2>2. QED
    BY <1>2, <1>3, <2>1
<1>5. p \in dirty => p = o
  BY <1>4 DEF DirtyHeld, Holders
<1>6. dirty' = dirty \ {o}
  BY <1>1 DEF Destroy
<1>7. QED
  BY <1>5, <1>6

\* Whenever a descriptor is closed, nothing that was put through any of the
\* objects that shared it is left in an area.
THEOREM RepCloseFlushed == RepSpec => ClosedFlushed
<1>1. RepInit => RepShape /\ DirtyHeld
  <2>1. RepInit => DirtyHeld
    BY DEF RepInit, DirtyHeld
  <2>2. QED
    BY <2>1, RepShapeInit
<1>2. RepShape /\ DirtyHeld /\ [RepNext]_repVars => RepShape' /\ DirtyHeld'
  BY RepShapeStep, DirtyHeldStep
<1>3. RepShape /\ DirtyHeld /\ [RepNext]_repVars =>
        [\A r \in allocated : sock[r] \in openDescs \ openDescs' =>
           \A o \in Objs : rep[o] = r => o \notin dirty']_repVars
  BY ClosingIsClean
<1>4. QED
  BY <1>1, <1>2, <1>3, PTL DEF RepSpec, ClosedFlushed

(***************************************************************************)
(* The inet streams and the use count of the socket library (InetStreams), *)
(* for any number of streams, buffers and descriptors.                     *)
(***************************************************************************)

Objects == Cardinality(Live) + Cardinality(Open)

\* Every open stream and every live buffer is counted once, and the library is
\* started as long as one of them is.
StreamShape ==
  /\ life \in [Objs -> {"none", "live", "dead", "torn"}]
  /\ rdbuf \in [Streams -> Objs \cup {NoBuf, Gone}]
  /\ count = Objects
  /\ started = (count # 0)
  /\ \A s \in Open : rdbuf[s] \in Live
  /\ \A s, t \in Open : rdbuf[s] = rdbuf[t] => s = t

LEMMA LiveOpenFinite ==
  /\ IsFiniteSet(Live) /\ Cardinality(Live) \in Nat
  /\ IsFiniteSet(Open) /\ Cardinality(Open) \in Nat
<1>1. Live \subseteq Objs /\ Open \subseteq Streams
  BY DEF Live, Open
<1>2. QED
  BY <1>1, RepConstants, StreamConstants, FS_Subset, FS_CardinalityType

-----------------------------------------------------------------------------
(* The sets of live buffers and open streams, step by step.                *)

LEMMA BufComes ==
  ASSUME StreamShape, NEW o \in Objs, life[o] = "none",
         life' = [life EXCEPT ![o] = "live"]
  PROVE  /\ Live' = Live \cup {o} /\ o \notin Live
         /\ Cardinality(Live') = Cardinality(Live) + 1
         /\ life' \in [Objs -> {"none", "live", "dead", "torn"}]
<1>1. life' \in [Objs -> {"none", "live", "dead", "torn"}]
  BY DEF StreamShape
<1>2. Live' = Live \cup {o} /\ o \notin Live
  BY DEF StreamShape, Live
<1>3. QED
  BY <1>1, <1>2, LiveOpenFinite, FS_AddElement

LEMMA BufGoes ==
  ASSUME StreamShape, NEW o \in Objs, Destroy(o) \/ DestroyThrows(o)
  PROVE  /\ Live' = Live \ {o} /\ o \in Live
         /\ Cardinality(Live') = Cardinality(Live) - 1
         /\ life' \in [Objs -> {"none", "live", "dead", "torn"}]
<1>1. life[o] = "live"
  BY DEF Destroy, DestroyThrows
<1>2. PICK end \in {"dead", "torn"} : life' = [life EXCEPT ![o] = end]
  BY DEF Destroy, DestroyThrows
<1>3. life' \in [Objs -> {"none", "live", "dead", "torn"}]
  BY <1>2 DEF StreamShape
<1>4. Live' = Live \ {o} /\ o \in Live
  BY <1>1, <1>2 DEF StreamShape, Live
<1>5. QED
  BY <1>3, <1>4, LiveOpenFinite, FS_RemoveElement

LEMMA StreamComes ==
  ASSUME StreamShape, NEW s \in Streams, NEW o \in Objs, rdbuf[s] = NoBuf,
         rdbuf' = [rdbuf EXCEPT ![s] = o]
  PROVE  /\ Open' = Open \cup {s} /\ s \notin Open
         /\ Cardinality(Open') = Cardinality(Open) + 1
<1>1. Open' = Open \cup {s} /\ s \notin Open
  BY StreamConstants DEF StreamShape, Open
<1>2. QED
  BY <1>1, LiveOpenFinite, FS_AddElement

LEMMA StreamGoes ==
  ASSUME StreamShape, NEW s \in Open, rdbuf' = [rdbuf EXCEPT ![s] = Gone]
  PROVE  /\ Open' = Open \ {s}
         /\ Cardinality(Open') = Cardinality(Open) - 1
<1>1. Open' = Open \ {s}
  BY StreamConstants DEF StreamShape, Open
<1>2. QED
  BY <1>1, LiveOpenFinite, FS_RemoveElement

\* n more objects, n more counted.
LEMMA CountComes ==
  ASSUME StreamShape, NEW n \in {1, 2}, Comes(n), Objects' = Objects + n
  PROVE  count' = Objects' /\ started' = (count' # 0)
<1>1. Objects \in Nat
  BY LiveOpenFinite DEF Objects
<1>2. count' = count + n /\ count = Objects
  BY DEF Comes, StreamShape
<1>3. count' = Objects'
  BY <1>2
<1>4. count' # 0
  BY <1>1, <1>2
<1>5. started' = TRUE
  BY DEF Comes, StreamShape
<1>6. QED
  BY <1>3, <1>4, <1>5

\* n fewer objects, n fewer counted, and the last to go stops the library.
LEMMA CountGoes ==
  ASSUME StreamShape, NEW n \in {1, 2}, Goes(n), Objects' = Objects - n,
         Objects >= n
  PROVE  count' = Objects' /\ started' = (count' # 0)
<1>1. Objects \in Nat
  BY LiveOpenFinite DEF Objects
<1>2. count' = count - n /\ count = Objects
  BY DEF Goes, StreamShape
<1>3. count' = Objects'
  BY <1>2
<1>4. count # 0 /\ (count' # 0 <=> count # n)
  BY <1>1, <1>2
<1>5. started' = (count # n)
  BY <1>4 DEF Goes, StreamShape
<1>6. QED
  BY <1>3, <1>4, <1>5

-----------------------------------------------------------------------------
LEMMA StreamShapeInit == StreamInit => StreamShape
<1>. SUFFICES ASSUME StreamInit PROVE StreamShape
  OBVIOUS
<1>1. Live = {} /\ Open = {}
  BY StreamConstants DEF StreamInit, RepInit, Live, Open
<1>2. Objects = 0
  BY <1>1, FS_EmptySet DEF Objects
<1>3. QED
  BY <1>1, <1>2 DEF StreamInit, RepInit, StreamShape

LEMMA BufStepKeeps ==
  ASSUME StreamShape, NEW o \in Objs,
         \/ \E d \in Descs : MakeBuf(o, d)
         \/ \E from \in Objs : CopyBuf(o, from)
  PROVE  StreamShape'
<1>1. /\ life[o] = "none" /\ life' = [life EXCEPT ![o] = "live"]
      /\ Comes(1) /\ UNCHANGED rdbuf
  BY DEF MakeBuf, CopyBuf, Construct, CopyOf
<1>2. /\ Live' = Live \cup {o}
      /\ Cardinality(Live') = Cardinality(Live) + 1
      /\ life' \in [Objs -> {"none", "live", "dead", "torn"}]
  BY <1>1, BufComes
<1>3. Open' = Open
  BY <1>1 DEF Open
<1>4. Objects' = Objects + 1
  BY <1>2, <1>3, LiveOpenFinite DEF Objects
<1>5. count' = Objects' /\ started' = (count' # 0)
  BY <1>1, <1>4, CountComes
<1>6. QED
  BY <1>1, <1>2, <1>3, <1>5 DEF StreamShape

LEMMA DeleteBufKeeps ==
  ASSUME StreamShape, NEW o \in Objs, DeleteBuf(o)
  PROVE  StreamShape'
<1>1. /\ Destroy(o) \/ DestroyThrows(o)
      /\ Goes(1) /\ UNCHANGED rdbuf
      /\ \A s \in Open : rdbuf[s] # o
  BY DEF DeleteBuf
<1>2. /\ Live' = Live \ {o} /\ o \in Live
      /\ Cardinality(Live') = Cardinality(Live) - 1
      /\ life' \in [Objs -> {"none", "live", "dead", "torn"}]
  BY <1>1, BufGoes
<1>3. Open' = Open
  BY <1>1 DEF Open
<1>4. Cardinality(Live) # 0
  BY <1>2, LiveOpenFinite, FS_EmptySet
<1>5. Objects' = Objects - 1 /\ Objects >= 1
  BY <1>2, <1>3, <1>4, LiveOpenFinite DEF Objects
<1>6. count' = Objects' /\ started' = (count' # 0)
  BY <1>1, <1>5, CountGoes
<1>7. QED
  BY <1>1, <1>2, <1>3, <1>6 DEF StreamShape

LEMMA OpeningKeeps ==
  ASSUME StreamShape, NEW s \in Streams, NEW o \in Objs,
         \/ \E d \in Descs : OpenStream(s, o, d)
         \/ \E from \in Objs : OpenOnCopy(s, o, from)
  PROVE  StreamShape'
<1>1. /\ life[o] = "none" /\ life' = [life EXCEPT ![o] = "live"]
      /\ rdbuf[s] = NoBuf /\ rdbuf' = [rdbuf EXCEPT ![s] = o] /\ Comes(2)
  BY DEF OpenStream, OpenOnCopy, Construct, CopyOf
<1>2. /\ Live' = Live \cup {o} /\ o \notin Live
      /\ Cardinality(Live') = Cardinality(Live) + 1
      /\ life' \in [Objs -> {"none", "live", "dead", "torn"}]
  BY <1>1, BufComes
<1>3. /\ Open' = Open \cup {s} /\ s \notin Open
      /\ Cardinality(Open') = Cardinality(Open) + 1
  BY <1>1, StreamComes
<1>4. Objects' = Objects + 2
  BY <1>2, <1>3, LiveOpenFinite DEF Objects
<1>5. count' = Objects' /\ started' = (count' # 0)
  BY <1>1, <1>4, CountComes
<1>6. rdbuf' \in [Streams -> Objs \cup {NoBuf, Gone}]
  BY <1>1 DEF StreamShape
<1>7. \A t \in Open' : rdbuf'[t] = IF t = s THEN o ELSE rdbuf[t]
  BY <1>1, <1>3 DEF StreamShape, Open
<1>8. \A t \in Open' : rdbuf'[t] \in Live'
  BY <1>2, <1>3, <1>7 DEF StreamShape
<1>9. \A t, u \in Open' : rdbuf'[t] = rdbuf'[u] => t = u
  BY <1>2, <1>3, <1>7 DEF StreamShape
<1>10. QED
  BY <1>2, <1>5, <1>6, <1>8, <1>9 DEF StreamShape

LEMMA ClosingKeeps ==
  ASSUME StreamShape, NEW s \in Streams, CloseStream(s)
  PROVE  StreamShape'
<1>1. /\ s \in Open /\ rdbuf' = [rdbuf EXCEPT ![s] = Gone] /\ Goes(2)
      /\ Destroy(rdbuf[s]) \/ DestroyThrows(rdbuf[s])
      /\ rdbuf[s] \in Objs
  BY DEF CloseStream, Open
<1>2. /\ Live' = Live \ {rdbuf[s]} /\ rdbuf[s] \in Live
      /\ Cardinality(Live') = Cardinality(Live) - 1
      /\ life' \in [Objs -> {"none", "live", "dead", "torn"}]
  BY <1>1, BufGoes
<1>3. /\ Open' = Open \ {s}
      /\ Cardinality(Open') = Cardinality(Open) - 1
  BY <1>1, StreamGoes
<1>4. Cardinality(Live) # 0 /\ Cardinality(Open) # 0
  BY <1>1, <1>2, LiveOpenFinite, FS_EmptySet
<1>5. Objects' = Objects - 2 /\ Objects >= 2
  BY <1>2, <1>3, <1>4, LiveOpenFinite DEF Objects
<1>6. count' = Objects' /\ started' = (count' # 0)
  BY <1>1, <1>5, CountGoes
<1>7. rdbuf' \in [Streams -> Objs \cup {NoBuf, Gone}]
  BY <1>1 DEF StreamShape
<1>8. \A t \in Open' : rdbuf'[t] = rdbuf[t] /\ t # s /\ t \in Open
  BY <1>1, <1>3 DEF StreamShape, Open
<1>9. \A t \in Open' : rdbuf'[t] \in Live'
  BY <1>1, <1>2, <1>8 DEF StreamShape
<1>10. \A t, u \in Open' : rdbuf'[t] = rdbuf'[u] => t = u
  BY <1>8 DEF StreamShape
<1>11. QED
  BY <1>2, <1>6, <1>7, <1>9, <1>10 DEF StreamShape

LEMMA StreamShapeStep == StreamShape /\ [StreamNext]_streamVars => StreamShape'
<1>. SUFFICES ASSUME StreamShape, [StreamNext]_streamVars PROVE StreamShape'
  OBVIOUS
<1>1. ASSUME UNCHANGED <<life, rdbuf, count, started>>
      PROVE  StreamShape'
  <2>1. Live' = Live /\ Open' = Open
    BY <1>1 DEF Live, Open
  <2>2. Objects' = Objects
    BY <2>1 DEF Objects
  <2>3. QED
    BY <1>1, <2>1, <2>2 DEF StreamShape
<1>2. ASSUME NEW o \in Objs, UseBuf(o)
      PROVE  StreamShape'
  BY <1>1, <1>2 DEF UseBuf, Put, Flush, Close, Shutdown
<1>3. CASE UNCHANGED streamVars
  BY <1>1, <1>3 DEF streamVars, repVars
<1>4. QED
  BY <1>2, <1>3, BufStepKeeps, DeleteBufKeeps, OpeningKeeps, ClosingKeeps
     DEF StreamNext

-----------------------------------------------------------------------------
\* An open stream has a live buffer of its own, and the library is not cleaned
\* up under a stream or a buffer, whatever their destructors throw.
THEOREM StreamsAlwaysWork == StreamSpec => []StreamsWork
<1>1. StreamInit => StreamShape
  BY StreamShapeInit
<1>2. StreamShape /\ [StreamNext]_streamVars => StreamShape'
  BY StreamShapeStep
<1>3. StreamShape => StreamsWork
  <2>. SUFFICES ASSUME StreamShape PROVE StreamsWork
    OBVIOUS
  <2>1. ASSUME Open \cup Live # {} PROVE count # 0
    <3>1. Cardinality(Live) # 0 \/ Cardinality(Open) # 0
      BY <2>1, LiveOpenFinite, FS_EmptySet
    <3>2. QED
      BY <3>1, LiveOpenFinite DEF StreamShape, Objects
  <2>2. QED
    BY <2>1 DEF StreamShape, StreamsWork
<1>4. QED
  BY <1>1, <1>2, <1>3, PTL DEF StreamSpec

\* What streams do to their buffers is what any program may do: all that holds
\* of SockRep holds of the buffers of streams.
THEOREM StreamsAreSockbufs == StreamSpec => RepSpec
<1>1. StreamInit => RepInit
  BY DEF StreamInit
<1>2. ASSUME StreamNext PROVE RepNext
  <2>1. ASSUME NEW o \in Objs,
               \/ \E d \in Descs : Construct(o, d)
               \/ \E from \in Objs : CopyOf(o, from)
               \/ Put(o) \/ Flush(o) \/ Close(o)
               \/ \E how \in SUBSET Areas : Shutdown(o, how)
               \/ Destroy(o) \/ DestroyThrows(o)
        PROVE  RepNext
    BY <2>1 DEF RepNext
  <2>2. ASSUME NEW s \in Streams, CloseStream(s) PROVE RepNext
    BY <2>1, <2>2 DEF CloseStream, Open
  <2>3. ASSUME NEW o \in Objs, UseBuf(o) PROVE RepNext
    BY <2>1, <2>3 DEF UseBuf
  <2>4. ASSUME NEW o \in Objs, DeleteBuf(o) PROVE RepNext
    BY <2>1, <2>4 DEF DeleteBuf
  <2>5. ASSUME NEW o \in Objs, NEW d \in Descs,
               MakeBuf(o, d) \/ \E s \in Streams : OpenStream(s, o, d)
        PROVE  RepNext
    BY <2>1, <2>5 DEF MakeBuf, OpenStream
  <2>6. ASSUME NEW o \in Objs, NEW from \in Objs,
               CopyBuf(o, from) \/ \E s \in Streams : OpenOnCopy(s, o, from)
        PROVE  RepNext
    BY <2>1, <2>6 DEF CopyBuf, OpenOnCopy
  <2>7. QED
    BY <1>2, <2>2, <2>3, <2>4, <2>5, <2>6 DEF StreamNext
<1>3. UNCHANGED streamVars => UNCHANGED repVars
  BY DEF streamVars
<1>4. QED
  BY <1>1, <1>2, <1>3, PTL DEF StreamSpec, RepSpec

(***************************************************************************)
(* PART II.  The transfers past the areas.  The bytes in the kernel are    *)
(* those between where the receiver is and where the sender is in the      *)
(* stream of transfers; a header taken whole says what its sender meant,   *)
(* so the two stay in step.  This breaks with a header sent in part, and   *)
(* is not promised to a receiver once a call has told it of a loss.        *)
(***************************************************************************)

Bytes == (Nat \ {0}) \X {"head", "data"} \X (Nat \ {0})

\* Where the bytes of the transfers lie in the stream, the transfers having
\* the sizes s: the one after the k-th of a part of the i-th, and the first of
\* the i-th.
FirstByte(i) == IF Protocol[i] = "plain" THEN <<i, "data", 1>> ELSE <<i, "head", 1>>
PartLen(s, i, part) ==
  IF part = "head" THEN HeaderSize
  ELSE IF Protocol[i] = "plain" THEN PlainLen ELSE s[i]
ByteAfter(s, i, part, k) ==
  IF k < PartLen(s, i, part) THEN <<i, part, k + 1>>
  ELSE IF part = "head" /\ PartLen(s, i, "data") # 0 THEN <<i, "data", 1>>
  ELSE FirstByte(i + 1)
After(s, b) == ByteAfter(s, b[1], b[2], b[3])

\* The bytes of q follow each other as they do in the stream.
Sound(s, q) ==
  \A j \in DOMAIN q : q[j][1] \in DOMAIN s /\ q[j][3] <= PartLen(s, q[j][1], q[j][2])
Linked(s, q) == \A j \in DOMAIN q : j + 1 \in DOMAIN q => q[j + 1] = After(s, q[j])
RunsOn(s, q) ==
  \A j \in DOMAIN q : \A d \in Nat :
    j + d \in DOMAIN q /\ q[j][3] + d <= PartLen(s, q[j][1], q[j][2])
      => q[j + d] = <<q[j][1], q[j][2], q[j][3] + d>>
InOrder(s, q) == Sound(s, q) /\ Linked(s, q) /\ RunsOn(s, q)

\* The transfer that has been begun and of which nothing has been sent.
Unsent(i) == spc = "select" /\ i = Current

SendPos ==
  CASE spc = "idle" -> FirstByte(Current + 1)
    [] spc = "select" -> FirstByte(Current)
    [] spc = "head" -> <<Current, "head", 1>>
    [] spc = "data" -> ByteAfter(sizes, Current, "data", wlen)

Receiving == Len(got) + 1
RecvPos ==
  CASE rpc \in {"idle", "select"} -> FirstByte(Receiving)
    [] rpc = "head" -> <<Receiving, "head", 1>>
    [] rpc = "data" -> ByteAfter(sizes, Receiving, "data", 0)

\* Where the byte that follows those in the kernel lies.
KernelEnd == IF chan = <<>> THEN RecvPos ELSE After(sizes, chan[Len(chan)])

\* The bytes in the kernel are those from where the receiver is to where the
\* sender is; a sender that has thrown stays where it is.
Carries ==
  /\ InOrder(sizes, chan)
  /\ \A j \in DOMAIN chan : ~Unsent(chan[j][1])
  /\ chan # <<>> => chan[1] = RecvPos
  /\ sresult # "thrown" => SendPos = KernelEnd

\* What has been given was sent.
GivenOf(n) ==
  /\ n \in 0..Len(got) /\ n <= Current /\ Given = 1..n
  /\ spc = "select" => n < Current

\* What the receiver asks for is what the transfer has.
Asks ==
  rpc = "data" /\ Protocol[Receiving] # "plain" =>
    Receiving \in DOMAIN sizes /\ ~Unsent(Receiving) /\ rsize = sizes[Receiving]

FrameTypeOK ==
  /\ spc \in {"idle", "select", "head", "data"}
  /\ sizes \in Seq(Nat) /\ wlen \in Nat
  /\ sresult \in {"none", "ok", "timeout", "thrown"}
  /\ chan \in Seq(Bytes)
  /\ rpc \in {"idle", "select", "head", "data"}
  /\ rsize \in Nat
  /\ got \in Seq([size : Nat, bytes : Seq(Bytes)])
  /\ rresult \in {"none", "ok", "timeout", "eof", "thrown", "short", "minus one"}
  /\ split \in BOOLEAN /\ fin \in BOOLEAN

Sending ==
  /\ \A i \in DOMAIN sizes : Protocol[i] = "plain" => sizes[i] = PlainLen
  /\ spc # "idle" => sizes # <<>> /\ sresult # "thrown"
  /\ spc = "head" => Protocol[Current] # "plain"
  /\ spc \in {"select", "head"} => wlen = 0
  /\ spc = "data" => wlen <= sizes[Current]

Asking ==
  /\ rpc # "idle" => ~Told
  /\ rpc = "head" => Protocol[Receiving] # "plain"
  /\ rpc \in {"select", "data"} /\ Protocol[Receiving] = "plain" => rsize = PlainLen

\* Until a header is cut: what was given was sent; while no call has told the
\* receiver of a loss, all it took was given, and it is where it believes.
Delivers ==
  /\ \E n \in Nat : GivenOf(n) /\ (~Told => n = Len(got))
  /\ ~Told => Carries /\ Asks

FrameIInv == FrameTypeOK /\ Sending /\ Asking /\ (~split => Delivers)

-----------------------------------------------------------------------------
(* Sequences, bytes and parts of transfers.                                *)

LEMMA SeqFacts ==
  ASSUME NEW S, NEW q \in Seq(S)
  PROVE  /\ Len(q) \in Nat /\ DOMAIN q = 1 .. Len(q)
         /\ q = <<>> <=> Len(q) = 0
         /\ \A j \in DOMAIN q : q[j] \in S
BY LenProperties, EmptySeq, ElementOfSeq

LEMMA ByteParts ==
  ASSUME NEW b \in Bytes
  PROVE  /\ b = <<b[1], b[2], b[3]>>
         /\ b[1] \in Nat \ {0} /\ b[2] \in {"head", "data"} /\ b[3] \in Nat \ {0}
BY DEF Bytes

LEMMA ByteMade ==
  ASSUME NEW i \in Nat \ {0}, NEW p \in {"head", "data"}, NEW k \in Nat \ {0}
  PROVE  /\ <<i, p, k>> \in Bytes
         /\ <<i, p, k>>[1] = i /\ <<i, p, k>>[2] = p /\ <<i, p, k>>[3] = k
BY DEF Bytes

LEMMA SameByte ==
  ASSUME NEW i, NEW p, NEW k, NEW j, NEW r, NEW l, <<i, p, k>> = <<j, r, l>>
  PROVE  i = j /\ p = r /\ k = l
OBVIOUS

LEMMA PartMade ==
  ASSUME NEW i \in Nat \ {0}, NEW p \in {"head", "data"}, NEW n \in Nat
  PROVE  /\ Part(i, p, n) \in Seq(Bytes) /\ Len(Part(i, p, n)) = n
         /\ \A x \in 1..n : Part(i, p, n)[x] = <<i, p, x>>
<1>1. PICK r : r = [x \in 1..n |-> <<i, p, x>>]
  OBVIOUS
<1>2. \A x \in 1..n : x \in Nat \ {0}
  OBVIOUS
<1>3. \A x \in 1..n : r[x] \in Bytes
  BY <1>1, <1>2, ByteMade
<1>4. r = [x \in 1..n |-> r[x]] /\ DOMAIN r = 1..n
  BY <1>1
<1>5. r \in Seq(Bytes)
  BY <1>3, <1>4, IsASeq
<1>6. Len(r) \in Nat /\ 1..Len(r) = 1..n
  BY <1>4, <1>5, LenProperties
<1>7. Len(r) = n
  BY <1>6
<1>8. QED
  BY <1>1, <1>5, <1>7 DEF Part

\* The bytes of r are those that come after the k-th of a part of the i-th.
ComesAfter(r, i, p, k) == \A x \in 1 .. Len(r) : r[x] = <<i, p, k + x>>

Sized(s) == \A i \in DOMAIN s : \A p \in {"head", "data"} : PartLen(s, i, p) \in Nat

\* n bytes that go on where a part of a transfer was left, behind those of q.
LEMMA RunAdded ==
  ASSUME NEW s, Sized(s),
         NEW q \in Seq(Bytes), InOrder(s, q),
         NEW i \in Nat \ {0}, i \in DOMAIN s, NEW p \in {"head", "data"},
         NEW k \in Nat, NEW n \in Nat \ {0}, k + n <= PartLen(s, i, p),
         q # <<>> => After(s, q[Len(q)]) = <<i, p, k + 1>>,
         NEW r \in Seq(Bytes), Len(r) = n, ComesAfter(r, i, p, k)
  PROVE  /\ q \o r \in Seq(Bytes) /\ InOrder(s, q \o r) /\ q \o r # <<>>
         /\ (q \o r)[1] = IF q = <<>> THEN <<i, p, k + 1>> ELSE q[1]
         /\ (q \o r)[Len(q \o r)] = <<i, p, k + n>>
         /\ \A j \in DOMAIN (q \o r) :
              (q \o r)[j][1] = i \/ \E l \in DOMAIN q : (q \o r)[j] = q[l]
<1>1. /\ r \in Seq(Bytes) /\ Len(r) = n /\ \A x \in 1..n : r[x] = <<i, p, k + x>>
      /\ \A j \in DOMAIN s : \A a \in {"head", "data"} : PartLen(s, j, a) \in Nat
  BY DEF ComesAfter, Sized
<1>2. PICK t \in Seq(Bytes) : t = q \o r
  BY <1>1, ConcatProperties
<1>3. /\ Len(q) \in Nat /\ DOMAIN q = 1 .. Len(q) /\ Len(t) = Len(q) + n
      /\ DOMAIN t = 1 .. (Len(q) + n) /\ t # <<>>
  <2>1. Len(t) = Len(q) + n /\ Len(q) \in Nat
    BY <1>1, <1>2, ConcatProperties, LenProperties
  <2>2. QED
    BY <2>1, SeqFacts
<1>4. \A j \in 1 .. Len(q) : t[j] = q[j]
  <2>1. \A j \in 1 .. Len(q) + Len(r) : (q \o r)[j] = IF j <= Len(q) THEN q[j] ELSE r[j - Len(q)]
    BY <1>1, ConcatProperties
  <2>2. QED
    BY <1>1, <1>2, <1>3, <2>1
<1>5. \A x \in 1 .. n : t[Len(q) + x] = <<i, p, k + x>>
  <2>1. \A j \in 1 .. Len(q) + Len(r) : (q \o r)[j] = IF j <= Len(q) THEN q[j] ELSE r[j - Len(q)]
    BY <1>1, ConcatProperties
  <2>2. SUFFICES ASSUME NEW x \in 1 .. n PROVE t[Len(q) + x] = <<i, p, k + x>>
    OBVIOUS
  <2>3. Len(q) + x \in 1 .. Len(q) + Len(r) /\ ~(Len(q) + x <= Len(q))
        /\ (Len(q) + x) - Len(q) = x
    <3>1. PICK a \in Nat : a = Len(q)
      BY <1>3
    <3>2. x \in Nat /\ 1 <= x /\ x <= n
      BY <2>2
    <3>3. a + x \in 1 .. a + n /\ ~(a + x <= a) /\ (a + x) - a = x
      BY <3>2
    <3>4. QED
      BY <1>1, <3>1, <3>3
  <2>4. t[Len(q) + x] = r[x]
    BY <1>2, <2>1, <2>3
  <2>5. QED
    BY <1>1, <2>2, <2>4
<1>6. \A j \in DOMAIN t : j \in 1 .. Len(q) \/ \E x \in 1 .. n : j = Len(q) + x
  <2>1. PICK a \in Nat : a = Len(q)
    BY <1>3
  <2>2. \A j \in 1 .. (a + n) : j \notin 1 .. a => j - a \in 1 .. n /\ j = a + (j - a)
    OBVIOUS
  <2>3. QED
    BY <1>3, <2>1, <2>2
<1>7. t[1] = IF q = <<>> THEN <<i, p, k + 1>> ELSE q[1]
  <2>1. CASE q = <<>>
    <3>1. Len(q) = 0 /\ 1 \in 1 .. n /\ Len(q) + 1 = 1
      BY <2>1, SeqFacts
    <3>2. QED
      BY <1>5, <2>1, <3>1
  <2>2. CASE q # <<>>
    <3>1. 1 \in 1 .. Len(q)
      BY <1>3, <2>2, SeqFacts
    <3>2. QED
      BY <1>4, <2>2, <3>1
  <2>3. QED
    BY <2>1, <2>2
<1>8. t[Len(t)] = <<i, p, k + n>>
  BY <1>3, <1>5
<1>9. Sound(s, t)
  <2>1. SUFFICES ASSUME NEW j \in DOMAIN t
                 PROVE t[j][1] \in DOMAIN s /\ t[j][3] <= PartLen(s, t[j][1], t[j][2])
    BY DEF Sound
  <2>2. CASE j \in 1 .. Len(q)
    BY <1>3, <1>4, <2>2 DEF InOrder, Sound
  <2>3. ASSUME NEW x \in 1 .. n, j = Len(q) + x
        PROVE t[j][1] \in DOMAIN s /\ t[j][3] <= PartLen(s, t[j][1], t[j][2])
    <3>1. t[j][1] = i /\ t[j][2] = p /\ t[j][3] = k + x
      <4>1. k + x \in Nat \ {0}
        OBVIOUS
      <4>2. t[j] = <<i, p, k + x>>
        BY <1>5, <2>3
      <4>3. QED
        BY <4>1, <4>2, ByteMade
    <3>2. PartLen(s, i, p) \in Nat /\ k + x <= k + n
      BY <1>1
    <3>3. QED
      BY <3>1, <3>2
  <2>4. QED
    BY <1>6, <2>2, <2>3
<1>10. Linked(s, t)
  <2>1. SUFFICES ASSUME NEW j \in DOMAIN t, j + 1 \in DOMAIN t PROVE t[j + 1] = After(s, t[j])
    BY DEF Linked
  <2>2. CASE j \in 1 .. Len(q) /\ j # Len(q)
    <3>1. j + 1 \in 1 .. Len(q)
      BY <1>3, <2>2
    <3>2. QED
      BY <1>3, <1>4, <2>2, <3>1 DEF InOrder, Linked
  <2>3. CASE j \in 1 .. Len(q) /\ j = Len(q)
    <3>1. q # <<>> /\ 1 \in 1 .. n
      BY <1>3, <2>3, SeqFacts
    <3>2. QED
      BY <1>4, <1>5, <2>3, <3>1
  <2>4. ASSUME NEW x \in 1 .. n, j = Len(q) + x PROVE t[j + 1] = After(s, t[j])
    <3>1. x + 1 \in 1 .. n /\ j + 1 = Len(q) + (x + 1) /\ k + (x + 1) = (k + x) + 1
      <4>1. PICK a \in Nat : a = Len(q)
        BY <1>3
      <4>2. j = a + x /\ j + 1 \in 1 .. (a + n) /\ x \in Nat /\ x >= 1 /\ n \in Nat /\ k \in Nat
        BY <1>3, <2>1, <2>4, <4>1
      <4>3. x + 1 \in 1 .. n /\ j + 1 = a + (x + 1) /\ k + (x + 1) = (k + x) + 1
        BY ONLY <4>1, <4>2
      <4>4. QED
        BY <4>1, <4>3
    <3>2. t[j + 1] = <<i, p, (k + x) + 1>> /\ t[j] = <<i, p, k + x>>
      BY <1>5, <2>4, <3>1
    <3>3. k + x < PartLen(s, i, p)
      <4>1. PartLen(s, i, p) \in Nat
        BY <1>1
      <4>2. QED
        BY <3>1, <4>1
    <3>4. QED
      BY <3>2, <3>3 DEF After, ByteAfter
  <2>5. QED
    BY <1>6, <2>2, <2>3, <2>4
<1>11. RunsOn(s, t)
  <2>1. SUFFICES ASSUME NEW j \in DOMAIN t, NEW d \in Nat, j + d \in DOMAIN t,
                        t[j][3] + d <= PartLen(s, t[j][1], t[j][2])
                 PROVE  t[j + d] = <<t[j][1], t[j][2], t[j][3] + d>>
    BY DEF RunsOn
  <2>2. ASSUME NEW x \in 1 .. n, j = Len(q) + x
        PROVE  t[j + d] = <<t[j][1], t[j][2], t[j][3] + d>>
    <3>1. x + d \in 1 .. n /\ j + d = Len(q) + (x + d) /\ k + (x + d) = (k + x) + d
      BY <1>3, <2>1, <2>2
    <3>2. t[j + d] = <<i, p, (k + x) + d>> /\ t[j] = <<i, p, k + x>>
      BY <1>5, <2>2, <3>1
    <3>3. QED
      BY <3>2
  <2>3. CASE j \in 1 .. Len(q) /\ j + d \in 1 .. Len(q)
    <3>1. t[j] = q[j] /\ t[j + d] = q[j + d]
      BY <1>4, <2>3
    <3>2. QED
      BY <1>3, <2>1, <2>3, <3>1 DEF InOrder, RunsOn
  <2>4. CASE j \in 1 .. Len(q) /\ j + d \notin 1 .. Len(q)
    <3>1. PICK i0, p0, k0 : q[j] = <<i0, p0, k0>> /\ i0 \in DOMAIN s
             /\ p0 \in {"head", "data"} /\ k0 \in Nat \ {0}
      <4>1. q[j] \in Bytes /\ q[j][1] \in DOMAIN s
        BY <1>3, <2>4, SeqFacts DEF InOrder, Sound
      <4>2. PICK b \in Bytes : b = q[j]
        BY <4>1
      <4>3. /\ b = <<b[1], b[2], b[3]>>
            /\ b[2] \in {"head", "data"} /\ b[3] \in Nat \ {0}
        BY ByteParts
      <4>4. q[j] = <<b[1], b[2], b[3]>> /\ b[1] \in DOMAIN s
        BY <4>1, <4>2, <4>3
      <4>5. QED
        BY <4>3, <4>4
    <3>2. PICK e \in Nat : Len(q) = j + e /\ e < d
      <4>1. Len(q) - j \in Nat /\ Len(q) = j + (Len(q) - j) /\ Len(q) - j < d
        BY <1>3, <2>1, <2>4
      <4>2. QED
        BY <4>1
    <3>3. PartLen(s, i0, p0) \in Nat /\ k0 + d <= PartLen(s, i0, p0) /\ t[j] = <<i0, p0, k0>>
      <4>1. t[j] = <<i0, p0, k0>>
        BY <1>4, <2>4, <3>1
      <4>2. t[j][1] = i0 /\ t[j][2] = p0 /\ t[j][3] = k0
        BY <4>1
      <4>3. PartLen(s, i0, p0) \in Nat
        BY <1>1, <3>1
      <4>4. QED
        BY <2>1, <4>1, <4>2, <4>3
    <3>4. q[Len(q)] = <<i0, p0, k0 + e>>
      <4>1. j + e \in DOMAIN q /\ j \in DOMAIN q /\ k0 + e <= PartLen(s, i0, p0)
        <5>1. k0 + e <= PartLen(s, i0, p0)
          BY <2>1, <3>1, <3>2, <3>3
        <5>2. Len(q) \in 1 .. Len(q)
          BY <1>3, <2>4
        <5>3. QED
          BY <1>3, <2>4, <3>2, <5>1, <5>2
      <4>2. q[j + e] = <<q[j][1], q[j][2], q[j][3] + e>>
        <5>1. q[j][1] = i0 /\ q[j][2] = p0 /\ q[j][3] = k0
          BY <3>1
        <5>2. RunsOn(s, q)
          BY DEF InOrder
        <5>3. QED
          BY <4>1, <5>1, <5>2 DEF RunsOn
      <4>3. QED
        BY <3>1, <3>2, <4>2
    <3>5. k0 + e < PartLen(s, i0, p0)
      BY <3>1, <3>2, <3>3
    <3>6. After(s, q[Len(q)]) = <<i0, p0, (k0 + e) + 1>>
      BY <3>4, <3>5 DEF After, ByteAfter
    <3>7. i0 = i /\ p0 = p /\ (k0 + e) + 1 = k + 1
      <4>1. q # <<>>
        BY <1>3, <2>4, SeqFacts
      <4>2. <<i0, p0, (k0 + e) + 1>> = <<i, p, k + 1>>
        BY <3>6, <4>1
      <4>3. QED
        BY <4>2, SameByte
    <3>8. PICK x \in 1 .. n : j + d = Len(q) + x
      BY <1>6, <2>1, <2>4
    <3>9. k + x = k0 + d
      <4>1. (j + e) + x = j + d
        BY <3>2, <3>8
      <4>2. j \in Nat /\ x \in Nat /\ e \in Nat /\ d \in Nat
        BY <2>1, <2>4, <3>2
      <4>3. e + x = d
        BY ONLY <4>1, <4>2
      <4>4. k0 + e = k
        <5>1. (k0 + e) + 1 = k + 1 /\ k0 \in Nat /\ e \in Nat /\ k \in Nat
          BY <3>1, <3>2, <3>7
        <5>2. QED
          BY ONLY <5>1
      <4>5. k0 \in Nat /\ k \in Nat
        BY <3>1
      <4>6. QED
        BY ONLY <4>2, <4>3, <4>4, <4>5
    <3>10. t[j + d] = <<i, p, k0 + d>>
      BY <1>5, <3>8, <3>9
    <3>11. QED
      BY <3>3, <3>7, <3>10
  <2>5. QED
    BY <1>6, <2>2, <2>3, <2>4
<1>12. \A j \in DOMAIN t : t[j][1] = i \/ \E l \in DOMAIN q : t[j] = q[l]
  <2>1. ASSUME NEW x \in 1 .. n PROVE t[Len(q) + x][1] = i
    <3>1. t[Len(q) + x] = <<i, p, k + x>>
      BY <1>5
    <3>2. QED
      BY <3>1
  <2>2. SUFFICES ASSUME NEW j \in DOMAIN t
                 PROVE t[j][1] = i \/ \E l \in DOMAIN q : t[j] = q[l]
    OBVIOUS
  <2>3. CASE j \in 1 .. Len(q)
    <3>1. j \in DOMAIN q /\ t[j] = q[j]
      BY <1>3, <1>4, <2>3
    <3>2. QED
      BY <3>1
  <2>4. QED
    BY <1>6, <2>1, <2>2, <2>3
<1>13. QED
  BY <1>2, <1>3, <1>7, <1>8, <1>9, <1>10, <1>11, <1>12 DEF InOrder

\* The first n bytes taken off.
LEMMA FrontCut ==
  ASSUME NEW s, NEW q \in Seq(Bytes), InOrder(s, q), NEW n \in 0 .. Len(q)
  PROVE  /\ Drop(q, n) \in Seq(Bytes) /\ InOrder(s, Drop(q, n))
         /\ \A j \in DOMAIN Drop(q, n) : \E l \in DOMAIN q : Drop(q, n)[j] = q[l]
         /\ n = Len(q) => Drop(q, n) = <<>>
         /\ n # Len(q) => /\ Drop(q, n) # <<>> /\ Drop(q, n)[1] = q[n + 1]
                          /\ Drop(q, n)[Len(Drop(q, n))] = q[Len(q)]
         /\ n # Len(q) /\ n # 0 => q[n + 1] = After(s, q[n])
<1>1. PICK t \in Seq(Bytes) : /\ t = Drop(q, n) /\ Len(t) = Len(q) - n
                              /\ \A j \in 1 .. Len(q) - n : t[j] = q[n + j]
  <2>1. PICK t : t = Drop(q, n)
    OBVIOUS
  <2>2. /\ t \in Seq(Bytes) /\ Len(t) = Len(q) - n
        /\ \A j \in 1 .. Len(q) - n : t[j] = q[n + j]
    BY <2>1, DropProps
  <2>3. QED
    BY <2>1, <2>2
<1>2. /\ Len(q) \in Nat /\ DOMAIN q = 1 .. Len(q) /\ DOMAIN t = 1 .. (Len(q) - n)
      /\ Len(q) - n \in Nat
  BY <1>1, SeqFacts
<1>3. \A j \in DOMAIN t : n + j \in DOMAIN q /\ t[j] = q[n + j]
  BY <1>1, <1>2
<1>4. Sound(s, t)
  BY <1>3 DEF InOrder, Sound
<1>5. Linked(s, t)
  <2>1. \A j \in DOMAIN t : n + (j + 1) = (n + j) + 1
    BY <1>2
  <2>2. QED
    BY <1>3, <2>1 DEF InOrder, Linked
<1>6. RunsOn(s, t)
  <2>1. SUFFICES ASSUME NEW j \in DOMAIN t, NEW d \in Nat, j + d \in DOMAIN t,
                        t[j][3] + d <= PartLen(s, t[j][1], t[j][2])
                 PROVE  t[j + d] = <<t[j][1], t[j][2], t[j][3] + d>>
    BY DEF RunsOn
  <2>2. n + (j + d) = (n + j) + d
    BY <1>2
  <2>3. n + j \in DOMAIN q /\ (n + j) + d \in DOMAIN q /\ t[j] = q[n + j]
        /\ t[j + d] = q[(n + j) + d]
    BY <1>3, <2>1, <2>2
  <2>4. QED
    BY <2>1, <2>3 DEF InOrder, RunsOn
<1>7. n = Len(q) => t = <<>>
  BY <1>1, <1>2, SeqFacts
<1>8. n # Len(q) => t # <<>> /\ t[1] = q[n + 1] /\ t[Len(t)] = q[Len(q)]
  <2>1. SUFFICES ASSUME n # Len(q)
                 PROVE  t # <<>> /\ t[1] = q[n + 1] /\ t[Len(t)] = q[Len(q)]
    OBVIOUS
  <2>2. 1 \in DOMAIN t /\ Len(t) \in DOMAIN t /\ n + Len(t) = Len(q)
    BY <1>1, <1>2, <2>1
  <2>3. QED
    BY <1>3, <2>2, SeqFacts
<1>9. n # Len(q) /\ n # 0 => q[n + 1] = After(s, q[n])
  <2>1. n # Len(q) /\ n # 0 => n \in DOMAIN q /\ n + 1 \in DOMAIN q
    <3>1. PICK a \in Nat : a = Len(q)
      BY <1>2
    <3>2. n \in 0 .. a
      BY <3>1
    <3>3. n # a /\ n # 0 => n \in 1 .. a /\ n + 1 \in 1 .. a
      BY <3>2
    <3>4. QED
      BY <1>2, <3>1, <3>3
  <2>2. QED
    BY <2>1 DEF InOrder, Linked
<1>10. QED
  BY <1>1, <1>3, <1>4, <1>5, <1>6, <1>7, <1>8, <1>9 DEF InOrder

\* A part that lies in front, and has come as far as n, is there in its order.
LEMMA RunTaken ==
  ASSUME NEW s, NEW q \in Seq(Bytes), InOrder(s, q), NEW i, NEW p, q # <<>> => q[1] = <<i, p, 1>>,
         NEW n \in 1 .. Len(q), PartLen(s, i, p) \in Nat, n <= PartLen(s, i, p)
  PROVE  /\ Take(q, n) \in Seq(Bytes) /\ Len(Take(q, n)) = n
         /\ \A x \in 1 .. n : Take(q, n)[x] = <<i, p, x>>
         /\ q[n] = <<i, p, n>>
         /\ i \in DOMAIN s
<1>1. Len(q) \in Nat /\ DOMAIN q = 1 .. Len(q) /\ 1 \in DOMAIN q /\ n \in 0 .. Len(q)
      /\ q # <<>>
  BY SeqFacts
<1>2. q[1][1] = i /\ q[1][2] = p /\ q[1][3] = 1
  BY <1>1
<1>3. ASSUME NEW x \in 1 .. n PROVE q[x] = <<i, p, x>>
  <2>1. x - 1 \in Nat /\ 1 + (x - 1) = x /\ x \in DOMAIN q /\ x <= PartLen(s, i, p)
    BY <1>1
  <2>2. q[1 + (x - 1)] = <<q[1][1], q[1][2], q[1][3] + (x - 1)>>
    BY <1>1, <1>2, <2>1 DEF InOrder, RunsOn
  <2>3. QED
    BY <1>2, <2>1, <2>2
<1>4. PICK t \in Seq(Bytes) : t = Take(q, n) /\ Len(t) = n /\ \A x \in 1 .. n : t[x] = q[x]
  BY <1>1, TakeProps
<1>5. \A x \in 1 .. n : t[x] = <<i, p, x>>
  BY <1>3, <1>4
<1>6. i \in DOMAIN s
  BY <1>1, <1>2 DEF InOrder, Sound
<1>7. QED
  BY <1>3, <1>4, <1>5, <1>6

LEMMA PartLengths ==
  ASSUME NEW s \in Seq(Nat), NEW i \in DOMAIN s, NEW p \in {"head", "data"}
  PROVE  PartLen(s, i, p) \in Nat
<1>1. s[i] \in Nat
  BY SeqFacts
<1>2. QED
  BY <1>1, FrameConstants DEF PartLen

\* The order of the bytes depends on the sizes of their own transfers only.
LEMMA OrderKept ==
  ASSUME NEW s, NEW z, NEW q, InOrder(s, q),
         \A j \in DOMAIN q : q[j][1] \in DOMAIN z /\ z[q[j][1]] = s[q[j][1]]
  PROVE  /\ InOrder(z, q)
         /\ \A j \in DOMAIN q : After(z, q[j]) = After(s, q[j])
<1>1. \A j \in DOMAIN q : \A p : PartLen(z, q[j][1], p) = PartLen(s, q[j][1], p)
  BY DEF PartLen
<1>2. \A j \in DOMAIN q : After(z, q[j]) = After(s, q[j])
  BY <1>1 DEF After, ByteAfter
<1>3. Sound(z, q) /\ Linked(z, q) /\ RunsOn(z, q)
  BY <1>1, <1>2 DEF InOrder, Sound, Linked, RunsOn
<1>4. QED
  BY <1>2, <1>3 DEF InOrder

LEMMA LastThere ==
  ASSUME NEW S, NEW q \in Seq(S), q # <<>>
  PROVE  Len(q) \in DOMAIN q /\ 1 \in DOMAIN q
<1>1. Len(q) \in Nat /\ Len(q) # 0 /\ DOMAIN q = 1 .. Len(q)
  BY SeqFacts
<1>2. QED
  BY <1>1

LEMMA DataSizes ==
  ASSUME NEW k \in Kinds, NEW n \in Lengths
  PROVE  DataSize(k, n) \in Nat /\ (k = "plain" => DataSize(k, n) = PlainLen)
<1>1. n \in Nat /\ WCharSize \in Nat /\ PlainLen \in Nat
  BY FrameConstants
<1>2. n * WCharSize \in Nat
  BY <1>1
<1>3. QED
  BY <1>1, <1>2 DEF DataSize, Kinds

\* What the steps of the sender leave alone of what is said of the receiver.
LEMMA ReceiverLeft ==
  ASSUME FrameIInv, UNCHANGED recvVars
  PROVE  /\ Asking' /\ Told' = Told /\ Receiving' = Receiving /\ Given' = Given
         /\ Len(got)' = Len(got)
BY DEF FrameIInv, recvVars, Asking, Told, Receiving, Given, Whole

LEMMA SendTyped ==
  ASSUME FrameIInv, NEW n \in Lengths, Send(n)
  PROVE  /\ FrameTypeOK' /\ Sending'
         /\ Current' = Current + 1 /\ DOMAIN sizes' = 1 .. Current'
         /\ \A i \in 1 .. Current : sizes'[i] = sizes[i]
         /\ Protocol[Current'] = "plain" => sizes'[Current'] = PlainLen
<1>1. PICK c \in Nat : c = Len(sizes) /\ DOMAIN sizes = 1 .. c
  BY SeqFacts DEF FrameIInv, FrameTypeOK
<1>2. Protocol[c + 1] \in Kinds
  <2>1. Len(Protocol) \in Nat /\ DOMAIN Protocol = 1 .. Len(Protocol)
    BY FrameConstants, SeqFacts
  <2>2. c + 1 \in DOMAIN Protocol
    BY <1>1, <2>1 DEF Send
  <2>3. QED
    BY <2>2, FrameConstants, SeqFacts
<1>3. PICK d \in Nat : /\ d = DataSize(Protocol[c + 1], n)
                       /\ Protocol[c + 1] = "plain" => d = PlainLen
  BY <1>2, DataSizes
<1>4. sizes \in Seq(Nat) /\ sizes' = Append(sizes, d)
  BY <1>1, <1>3 DEF Send, FrameIInv, FrameTypeOK
<1>5. /\ sizes' \in Seq(Nat) /\ Len(sizes') = c + 1
      /\ \A i \in 1 .. c : sizes'[i] = sizes[i]
      /\ sizes'[c + 1] = d
  BY <1>1, <1>4, AppendProperties
<1>6. DOMAIN sizes' = 1 .. (c + 1) /\ sizes' # <<>>
  BY <1>5, SeqFacts
<1>7. Current = c /\ Current' = c + 1
  BY <1>1, <1>5 DEF Current
<1>8. FrameTypeOK'
  BY <1>5 DEF FrameIInv, FrameTypeOK, Send, recvVars, AfterWait
<1>9. Sending'
  <2>1. \A i \in DOMAIN sizes' : Protocol[i] = "plain" => sizes'[i] = PlainLen
    <3>1. \A i \in 1 .. (c + 1) : i \in 1 .. c \/ i = c + 1
      OBVIOUS
    <3>2. QED
      BY <1>1, <1>3, <1>5, <1>6, <3>1 DEF FrameIInv, Sending
  <2>2. /\ sresult' = "none" /\ wlen' = 0 /\ spc' \in {"select", "head", "data"}
        /\ spc' = "head" => Protocol[c + 1] # "plain"
    BY <1>1 DEF Send, AfterWait
  <2>3. wlen' <= sizes'[Current']
    BY <1>5, <1>7, <2>2
  <2>4. QED
    BY <1>6, <1>7, <2>1, <2>2, <2>3 DEF Sending
<1>10. QED
  BY <1>3, <1>5, <1>6, <1>7, <1>8, <1>9

LEMMA SendDelivers ==
  ASSUME PlainLen # 0, FrameIInv, NEW n \in Lengths, Send(n), ~split'
  PROVE  Delivers'
<1>1. /\ Told' = Told /\ Receiving' = Receiving /\ Given' = Given /\ Len(got)' = Len(got)
      /\ rpc' = rpc /\ rsize' = rsize /\ chan' = chan
  BY ReceiverLeft DEF Send, recvVars
<1>2. Delivers /\ sresult # "thrown" /\ spc = "idle"
  BY DEF FrameIInv, Send
<1>3. /\ Current \in Nat /\ DOMAIN sizes = 1 .. Current
      /\ Current' = Current + 1 /\ DOMAIN sizes' = 1 .. Current'
      /\ \A i \in 1 .. Current : sizes'[i] = sizes[i]
      /\ Protocol[Current'] = "plain" => sizes'[Current'] = PlainLen
  BY SendTyped, SeqFacts DEF FrameIInv, FrameTypeOK, Current
<1>4. Len(got) \in Nat /\ PlainLen \in Nat
  BY FrameConstants, SeqFacts DEF FrameIInv, FrameTypeOK
<1>5. ASSUME NEW m \in Nat, GivenOf(m) /\ (~Told => m = Len(got))
      PROVE  (GivenOf(m) /\ (~Told => m = Len(got)))'
  <2>1. m < Current' /\ m <= Current'
    BY <1>3, <1>5 DEF GivenOf
  <2>2. QED
    BY <1>1, <1>5, <2>1 DEF GivenOf
<1>6. SUFFICES ASSUME ~Told PROVE (Carries /\ Asks)'
  BY <1>1, <1>2, <1>5 DEF Delivers
<1>7. Carries /\ Asks
  BY <1>2, <1>6 DEF Delivers
<1>8. Asks'
  BY <1>1, <1>3, <1>7 DEF Asks, Unsent
<1>9. RecvPos' = RecvPos
  <2>1. rpc = "data" => PartLen(sizes', Receiving, "data") = PartLen(sizes, Receiving, "data")
    BY <1>3, <1>7 DEF Asks, PartLen
  <2>2. QED
    BY <1>1, <2>1 DEF RecvPos, ByteAfter
<1>10. /\ InOrder(sizes', chan)
       /\ \A j \in DOMAIN chan : After(sizes', chan[j]) = After(sizes, chan[j])
       /\ \A j \in DOMAIN chan : chan[j][1] \in DOMAIN sizes
  <2>1. InOrder(sizes, chan) /\ \A j \in DOMAIN chan : chan[j][1] \in DOMAIN sizes
    BY <1>7 DEF Carries, InOrder, Sound
  <2>2. \A j \in DOMAIN chan : chan[j][1] \in DOMAIN sizes' /\ sizes'[chan[j][1]] = sizes[chan[j][1]]
    BY <1>3, <2>1
  <2>3. PICK z : z = sizes'
    OBVIOUS
  <2>4. InOrder(z, chan) /\ \A j \in DOMAIN chan : After(z, chan[j]) = After(sizes, chan[j])
    BY <2>1, <2>2, <2>3, OrderKept
  <2>5. QED
    BY <2>1, <2>3, <2>4
<1>11. KernelEnd' = KernelEnd
  <2>1. chan # <<>> => Len(chan) \in DOMAIN chan
    BY LastThere DEF FrameIInv, FrameTypeOK
  <2>2. QED
    BY <1>1, <1>9, <1>10, <2>1 DEF KernelEnd
<1>12. SendPos' = SendPos
  <2>1. SendPos = FirstByte(Current + 1)
    BY <1>2 DEF SendPos
  <2>2. CASE spc' = "select"
    BY <1>3, <2>1, <2>2 DEF SendPos
  <2>3. CASE spc' = "head" /\ Protocol[Current + 1] # "plain"
    BY <1>3, <2>1, <2>3 DEF SendPos, FirstByte
  <2>4. CASE spc' = "data" /\ Protocol[Current + 1] = "plain" /\ wlen' = 0
    <3>1. ByteAfter(sizes', Current', "data", 0) = <<Current + 1, "data", 1>>
      BY <1>3, <1>4, <2>4 DEF ByteAfter, PartLen
    <3>2. QED
      BY <2>1, <2>4, <3>1 DEF SendPos, FirstByte
  <2>5. QED
    BY <2>2, <2>3, <2>4 DEF Send, AfterWait, Current
<1>13. \A j \in DOMAIN chan' : ~Unsent(chan[j][1])'
  BY <1>1, <1>3, <1>10 DEF Unsent
<1>14. Carries'
  BY <1>1, <1>2, <1>7, <1>9, <1>10, <1>11, <1>12, <1>13 DEF Carries
<1>15. QED
  BY <1>8, <1>14
-----------------------------------------------------------------------------
\* A step of the sender that moves no bytes leaves everything where it is.
LEMMA SenderStays ==
  ASSUME FrameIInv, UNCHANGED <<sizes, chan, recvVars, split>>, ~split',
         spc' = "select" => spc = "select",
         sresult' # "thrown" => sresult # "thrown" /\ SendPos' = SendPos
  PROVE  Delivers'
<1>1. /\ Told' = Told /\ Receiving' = Receiving /\ Given' = Given /\ Len(got)' = Len(got)
      /\ rpc' = rpc /\ rsize' = rsize /\ chan' = chan /\ sizes' = sizes /\ Current' = Current
  BY ReceiverLeft DEF recvVars, Current
<1>2. Delivers
  BY DEF FrameIInv
<1>3. ASSUME NEW m \in Nat, GivenOf(m) /\ (~Told => m = Len(got))
      PROVE  (GivenOf(m) /\ (~Told => m = Len(got)))'
  BY <1>1, <1>3 DEF GivenOf
<1>4. ASSUME ~Told PROVE (Carries /\ Asks)'
  <2>1. Carries /\ Asks
    BY <1>2, <1>4 DEF Delivers
  <2>2. RecvPos' = RecvPos /\ KernelEnd' = KernelEnd
    BY <1>1 DEF RecvPos, KernelEnd
  <2>3. \A i : Unsent(i)' => Unsent(i)
    BY <1>1 DEF Unsent
  <2>4. Carries'
    BY <1>1, <2>1, <2>2, <2>3 DEF Carries
  <2>5. Asks'
    BY <1>1, <2>1, <2>3 DEF Asks
  <2>6. QED
    BY <2>4, <2>5
<1>5. QED
  BY <1>1, <1>2, <1>3, <1>4 DEF Delivers

LEMMA SendReadyKeeps ==
  ASSUME PlainLen # 0, FrameIInv, SendReady
  PROVE  FrameIInv'
<1>1. /\ UNCHANGED <<sizes, wlen, sresult, chan, fin, recvVars, split>>
      /\ spc = "select" /\ spc' = AfterWait(Protocol[Current]) /\ Current' = Current
  BY DEF SendReady, Current
<1>2. FrameTypeOK'
  BY <1>1 DEF FrameIInv, FrameTypeOK, recvVars, AfterWait
<1>3. wlen = 0 /\ sizes # <<>> /\ sresult # "thrown" /\ sizes \in Seq(Nat)
  BY <1>1 DEF FrameIInv, Sending, FrameTypeOK
<1>4. Current \in DOMAIN sizes /\ sizes[Current] \in Nat
  BY <1>3, LastThere, SeqFacts DEF Current
<1>5. Sending'
  BY <1>1, <1>3, <1>4 DEF FrameIInv, Sending, AfterWait
<1>6. SendPos' = SendPos
  <2>1. SendPos = FirstByte(Current)
    BY <1>1 DEF SendPos
  <2>2. CASE spc' = "head" /\ Protocol[Current] # "plain"
    BY <1>1, <2>1, <2>2 DEF SendPos, FirstByte
  <2>3. CASE spc' = "data" /\ Protocol[Current] = "plain"
    <3>1. PlainLen \in Nat
      BY FrameConstants
    <3>2. ByteAfter(sizes', Current', "data", wlen') = <<Current, "data", 1>>
      BY <1>1, <1>3, <2>3, <3>1 DEF ByteAfter, PartLen
    <3>3. QED
      BY <2>1, <2>3, <3>2 DEF SendPos, FirstByte
  <2>4. QED
    BY <1>1, <2>2, <2>3 DEF AfterWait
<1>7. spc' # "select"
  BY <1>1 DEF AfterWait
<1>8. ~split' => Delivers'
  BY <1>1, <1>3, <1>6, <1>7, SenderStays
<1>9. QED
  BY <1>1, <1>2, <1>5, <1>8, ReceiverLeft DEF FrameIInv

LEMMA SendReturnsKeeps ==
  ASSUME PlainLen # 0, FrameIInv, SendReturns
  PROVE  FrameIInv'
<1>1. /\ UNCHANGED <<sizes, wlen, chan, fin, recvVars, split>> /\ Current' = Current
      /\ spc = "data" /\ spc' = "idle" /\ sresult' = "ok" /\ wlen = sizes[Current]
  BY DEF SendReturns, Current
<1>2. FrameTypeOK' /\ Sending'
  BY <1>1 DEF FrameIInv, FrameTypeOK, recvVars, Sending
<1>3. sizes # <<>> /\ sresult # "thrown" /\ sizes \in Seq(Nat)
  BY <1>1 DEF FrameIInv, Sending, FrameTypeOK
<1>4. Current \in DOMAIN sizes /\ sizes[Current] \in Nat
  BY <1>3, LastThere, SeqFacts DEF Current
<1>5. PartLen(sizes, Current, "data") = sizes[Current]
  BY <1>4 DEF PartLen, FrameIInv, Sending
<1>6. SendPos' = SendPos
  BY <1>1, <1>4, <1>5 DEF SendPos, ByteAfter
<1>7. ~split' => Delivers'
  BY <1>1, <1>3, <1>6, SenderStays
<1>8. QED
  BY <1>1, <1>2, <1>7, ReceiverLeft DEF FrameIInv

LEMMA SendFailsKeeps ==
  ASSUME FrameIInv, SendFails
  PROVE  FrameIInv'
<1>1. /\ UNCHANGED <<sizes, wlen, chan, fin, recvVars, split>>
      /\ spc' = "idle" /\ sresult' = "thrown"
  BY DEF SendFails
<1>2. FrameTypeOK' /\ Sending'
  BY <1>1 DEF FrameIInv, FrameTypeOK, recvVars, Sending
<1>3. ~split' => Delivers'
  BY <1>1, SenderStays
<1>4. QED
  BY <1>1, <1>2, <1>3, ReceiverLeft DEF FrameIInv

LEMMA SenderClosesKeeps ==
  ASSUME FrameIInv, SenderCloses
  PROVE  FrameIInv'
<1>1. /\ UNCHANGED <<spc, sizes, wlen, sresult, chan, recvVars, split>> /\ fin' = TRUE
  BY DEF SenderCloses, sendVars
<1>2. FrameTypeOK' /\ Sending'
  BY <1>1 DEF FrameIInv, FrameTypeOK, recvVars, Sending, Current
<1>3. SendPos' = SendPos
  BY <1>1 DEF SendPos, Current
<1>4. ~split' => Delivers'
  BY <1>1, <1>3, SenderStays
<1>5. QED
  BY <1>1, <1>2, <1>4, ReceiverLeft DEF FrameIInv

-----------------------------------------------------------------------------
LEMMA SendTimesOutKeeps ==
  ASSUME FrameIInv, SendTimesOut
  PROVE  FrameIInv'
<1>1. /\ UNCHANGED <<wlen, chan, fin, recvVars, split>>
      /\ spc = "select" /\ spc' = "idle" /\ sresult' = "timeout" /\ sizes' = Front(sizes)
  BY DEF SendTimesOut
<1>2. sizes \in Seq(Nat) /\ sizes # <<>> /\ sresult # "thrown"
  BY <1>1 DEF FrameIInv, FrameTypeOK, Sending
<1>3. PICK c \in Nat \ {0} : c = Len(sizes) /\ DOMAIN sizes = 1 .. c
  BY <1>2, SeqFacts
<1>4. PICK z : z = SubSeq(sizes, 1, c - 1)
  OBVIOUS
<1>5. z \in Seq(Nat) /\ Len(z) = c - 1 /\ \A i \in 1 .. (c - 1) : z[i] = sizes[i]
  <2>1. 1 \in 1 .. c + 1 /\ c - 1 \in 0 .. c /\ (c - 1) - 1 + 1 = c - 1
    OBVIOUS
  <2>2. QED
    BY <1>2, <1>3, <1>4, <2>1, SubSeqProperties
<1>6. sizes' = z
  BY <1>1, <1>3, <1>4 DEF Front
<1>7. DOMAIN sizes' = 1 .. (c - 1) /\ Current = c /\ Current' = c - 1
  BY <1>3, <1>5, <1>6, SeqFacts DEF Current
<1>8. FrameTypeOK'
  BY <1>1, <1>5, <1>6 DEF FrameIInv, FrameTypeOK, recvVars
<1>9. Sending'
  <2>1. \A i \in 1 .. (c - 1) : i \in 1 .. c
    OBVIOUS
  <2>2. QED
    BY <1>1, <1>3, <1>5, <1>6, <1>7, <2>1 DEF FrameIInv, Sending
<1>10. ASSUME ~split' PROVE Delivers'
  <2>1. /\ Told' = Told /\ Receiving' = Receiving /\ Given' = Given /\ Len(got)' = Len(got)
        /\ rpc' = rpc /\ rsize' = rsize /\ chan' = chan
    BY <1>1, ReceiverLeft DEF recvVars
  <2>2. Delivers
    BY <1>1, <1>10 DEF FrameIInv
  <2>3. ASSUME NEW m \in Nat, GivenOf(m) /\ (~Told => m = Len(got))
        PROVE  (GivenOf(m) /\ (~Told => m = Len(got)))'
    BY <1>1, <1>7, <2>1, <2>3 DEF GivenOf
  <2>4. SUFFICES ASSUME ~Told PROVE (Carries /\ Asks)'
    BY <2>1, <2>2, <2>3 DEF Delivers
  <2>5. Carries /\ Asks
    BY <2>2, <2>4 DEF Delivers
  <2>6. \A i \in 1 .. c : ~Unsent(i) => i \in 1 .. (c - 1)
    BY <1>1, <1>7 DEF Unsent
  <2>7. Asks'
    BY <1>1, <1>3, <1>5, <1>6, <1>7, <2>1, <2>5, <2>6 DEF Asks, Unsent
  <2>8. RecvPos' = RecvPos
    <3>1. rpc = "data" => PartLen(sizes', Receiving, "data") = PartLen(sizes, Receiving, "data")
      BY <1>3, <1>5, <1>6, <2>5, <2>6 DEF Asks, PartLen
    <3>2. QED
      BY <2>1, <3>1 DEF RecvPos, ByteAfter
  <2>9. \A j \in DOMAIN chan : chan[j][1] \in DOMAIN z /\ z[chan[j][1]] = sizes[chan[j][1]]
    <3>1. \A j \in DOMAIN chan : chan[j][1] \in 1 .. c /\ ~Unsent(chan[j][1])
      BY <1>3, <2>5 DEF Carries, InOrder, Sound
    <3>2. QED
      BY <1>5, <1>6, <1>7, <2>6, <3>1
  <2>10. InOrder(z, chan) /\ \A j \in DOMAIN chan : After(z, chan[j]) = After(sizes, chan[j])
    <3>1. InOrder(sizes, chan)
      BY <2>5 DEF Carries
    <3>2. QED
      BY <3>1, <2>9, OrderKept
  <2>11. KernelEnd' = KernelEnd
    <3>1. chan # <<>> => Len(chan) \in DOMAIN chan
      BY LastThere DEF FrameIInv, FrameTypeOK
    <3>2. QED
      BY <1>6, <2>1, <2>8, <2>10, <3>1 DEF KernelEnd
  <2>12. SendPos' = SendPos
    <3>1. SendPos = FirstByte(c) /\ (c - 1) + 1 = c
      BY <1>1, <1>7 DEF SendPos
    <3>2. SendPos' = FirstByte((c - 1) + 1)
      BY <1>1, <1>7 DEF SendPos
    <3>3. QED
      BY <3>1, <3>2
  <2>13. Carries'
    BY <1>1, <1>2, <1>6, <2>1, <2>5, <2>8, <2>10, <2>11, <2>12 DEF Carries, Unsent
  <2>14. QED
    BY <2>7, <2>13
<1>11. QED
  BY <1>1, <1>8, <1>9, <1>10, ReceiverLeft DEF FrameIInv
-----------------------------------------------------------------------------
\* n bytes of the part p of the current transfer, sent after k of them.
LEMMA BytesSent ==
  ASSUME FrameTypeOK, Sending, Carries, sizes # <<>>, sresult # "thrown",
         NEW p \in {"head", "data"}, NEW k \in Nat, NEW n \in Nat \ {0},
         k + n <= PartLen(sizes, Current, p), SendPos = <<Current, p, k + 1>>,
         spc # "select",
         NEW r \in Seq(Bytes), Len(r) = n, ComesAfter(r, Current, p, k)
  PROVE  /\ chan \o r \in Seq(Bytes) /\ InOrder(sizes, chan \o r) /\ chan \o r # <<>>
         /\ (chan \o r)[1] = RecvPos
         /\ After(sizes, (chan \o r)[Len(chan \o r)]) = ByteAfter(sizes, Current, p, k + n)
<1>1. sizes \in Seq(Nat) /\ chan \in Seq(Bytes)
  BY DEF FrameTypeOK
<1>2. PICK c \in Nat \ {0} : c = Current /\ c \in DOMAIN sizes
  BY <1>1, LastThere, SeqFacts DEF Current
<1>3. Sized(sizes)
  BY <1>1, PartLengths DEF Sized
<1>4. /\ InOrder(sizes, chan)
      /\ chan # <<>> => After(sizes, chan[Len(chan)]) = <<c, p, k + 1>> /\ chan[1] = RecvPos
      /\ chan = <<>> => RecvPos = <<c, p, k + 1>>
  BY <1>2 DEF Carries, KernelEnd
<1>5. /\ chan \o r \in Seq(Bytes) /\ InOrder(sizes, chan \o r) /\ chan \o r # <<>>
      /\ (chan \o r)[1] = IF chan = <<>> THEN <<c, p, k + 1>> ELSE chan[1]
      /\ (chan \o r)[Len(chan \o r)] = <<c, p, k + n>>
  <2>1. k + n <= PartLen(sizes, c, p) /\ ComesAfter(r, c, p, k)
    BY <1>2
  <2>2. PICK s : s = sizes
    OBVIOUS
  <2>5. PICK q \in Seq(Bytes) : q = chan
    BY <1>1
  <2>3. /\ Sized(s) /\ InOrder(s, q) /\ c \in DOMAIN s /\ k + n <= PartLen(s, c, p)
        /\ q # <<>> => After(s, q[Len(q)]) = <<c, p, k + 1>>
    BY <1>2, <1>3, <1>4, <2>1, <2>2, <2>5
  <2>4. /\ q \o r \in Seq(Bytes) /\ InOrder(s, q \o r) /\ q \o r # <<>>
        /\ (q \o r)[1] = IF q = <<>> THEN <<c, p, k + 1>> ELSE q[1]
        /\ (q \o r)[Len(q \o r)] = <<c, p, k + n>>
    BY <1>2, <2>1, <2>3, <2>5, RunAdded
  <2>6. QED
    BY <2>2, <2>4, <2>5
<1>6. After(sizes, <<c, p, k + n>>) = ByteAfter(sizes, c, p, k + n)
  BY DEF After
<1>7. QED
  BY <1>2, <1>4, <1>5, <1>6

\* A step of the sender that adds bytes to those in the kernel.
LEMMA BytesDelivered ==
  ASSUME FrameIInv, UNCHANGED <<sizes, recvVars>>, ~split, spc # "select",
         sresult # "thrown", spc' # "select",
         ~Told => /\ InOrder(sizes, chan') /\ chan' # <<>> /\ chan'[1] = RecvPos
                  /\ SendPos' = After(sizes, chan'[Len(chan')])
  PROVE  Delivers'
<1>1. /\ Told' = Told /\ Receiving' = Receiving /\ Given' = Given /\ Len(got)' = Len(got)
      /\ rpc' = rpc /\ rsize' = rsize /\ sizes' = sizes /\ Current' = Current
  BY ReceiverLeft DEF recvVars, Current
<1>2. Delivers
  BY DEF FrameIInv
<1>3. ASSUME NEW m \in Nat, GivenOf(m) /\ (~Told => m = Len(got))
      PROVE  (GivenOf(m) /\ (~Told => m = Len(got)))'
  BY <1>1, <1>3 DEF GivenOf
<1>4. ASSUME ~Told PROVE (Carries /\ Asks)'
  <2>1. Carries /\ Asks
    BY <1>2, <1>4 DEF Delivers
  <2>2. RecvPos' = RecvPos
    BY <1>1 DEF RecvPos
  <2>3. \A i : ~Unsent(i)'
    BY DEF Unsent
  <2>4. Carries'
    BY <1>1, <1>4, <2>2, <2>3 DEF Carries, KernelEnd
  <2>5. Asks'
    BY <1>1, <2>1, <2>3 DEF Asks
  <2>6. QED
    BY <2>4, <2>5
<1>5. QED
  BY <1>1, <1>2, <1>3, <1>4 DEF Delivers

LEMMA SendHeaderKeeps ==
  ASSUME PlainLen # 0, FrameIInv, SendHeader
  PROVE  FrameIInv'
<1>1. PICK n \in 1..HeaderSize :
        /\ chan' = chan \o Take(HeadOf(Current), n)
        /\ split' = (split \/ n < HeaderSize)
  BY DEF SendHeader
<1>2. /\ UNCHANGED <<sizes, wlen, sresult, fin, recvVars>> /\ Current' = Current
      /\ spc = "head" /\ spc' = "data"
  BY DEF SendHeader, Current
<1>3. /\ sizes # <<>> /\ sresult # "thrown" /\ sizes \in Seq(Nat) /\ wlen = 0
      /\ chan \in Seq(Bytes) /\ Protocol[Current] # "plain"
  BY <1>2 DEF FrameIInv, Sending, FrameTypeOK
<1>4. Current \in Nat \ {0} /\ Current \in DOMAIN sizes /\ sizes[Current] \in Nat
  BY <1>3, LastThere, SeqFacts DEF Current
<1>5. HeaderSize \in Nat \ {0} /\ n \in Nat \ {0} /\ n <= HeaderSize
  BY FrameConstants
<1>6. /\ HeadOf(Current) \in Seq(Bytes) /\ Len(HeadOf(Current)) = HeaderSize
      /\ \A x \in 1..HeaderSize : HeadOf(Current)[x] = <<Current, "head", x>>
  BY <1>4, <1>5, PartMade DEF HeadOf
<1>7. PICK r \in Seq(Bytes) : /\ r = Take(HeadOf(Current), n) /\ Len(r) = n
                              /\ \A x \in 1..n : r[x] = HeadOf(Current)[x]
  <2>1. n \in 0..Len(HeadOf(Current))
    BY <1>5, <1>6
  <2>2. QED
    BY <1>6, <2>1, TakeProps
<1>8. \A x \in 1..n : r[x] = <<Current, "head", 0 + x>>
  <2>1. \A x \in 1..n : x \in 1..HeaderSize /\ 0 + x = x
    BY <1>5
  <2>2. QED
    BY <1>6, <1>7, <2>1
<1>9. chan' = chan \o r /\ chan' \in Seq(Bytes)
  BY <1>1, <1>3, <1>7, ConcatProperties
<1>10. split' \in BOOLEAN
  BY <1>1
<1>11. FrameTypeOK'
  BY <1>2, <1>9, <1>10 DEF FrameIInv, FrameTypeOK, recvVars
<1>12. Sending'
  BY <1>2, <1>3, <1>4 DEF FrameIInv, Sending
<1>13. ASSUME ~split' PROVE Delivers'
  <2>1. ~split /\ n = HeaderSize
    <3>1. ~split /\ ~(n < HeaderSize)
      BY <1>1, <1>13
    <3>2. QED
      BY <1>5, <3>1
  <2>2. ASSUME ~Told
        PROVE  /\ InOrder(sizes, chan') /\ chan' # <<>> /\ chan'[1] = RecvPos
               /\ SendPos' = After(sizes, chan'[Len(chan')])
    <3>1. Carries
      BY <2>1, <2>2 DEF FrameIInv, Delivers
    <3>9. PICK k \in Nat : k = 0
      OBVIOUS
    <3>2. SendPos = <<Current, "head", k + 1>>
      BY <1>2, <3>9 DEF SendPos
    <3>3. k + n = HeaderSize /\ k + n <= PartLen(sizes, Current, "head")
      BY <1>5, <2>1, <3>9 DEF PartLen
    <3>4. FrameTypeOK /\ Sending
      BY DEF FrameIInv
    <3>10. ComesAfter(r, Current, "head", k)
      BY <1>7, <1>8, <3>9 DEF ComesAfter
    <3>5. /\ InOrder(sizes, chan \o r) /\ chan \o r # <<>> /\ (chan \o r)[1] = RecvPos
          /\ After(sizes, (chan \o r)[Len(chan \o r)]) = ByteAfter(sizes, Current, "head", k + n)
      BY <1>2, <1>3, <1>5, <1>7, <3>10, <3>1, <3>2, <3>3, <3>4, <3>9, BytesSent
    <3>6. SendPos' = ByteAfter(sizes, Current, "data", 0)
      BY <1>2, <1>3 DEF SendPos
    <3>7. ByteAfter(sizes, Current, "data", 0) = ByteAfter(sizes, Current, "head", HeaderSize)
      <4>1. PartLen(sizes, Current, "data") \in Nat /\ PartLen(sizes, Current, "head") = HeaderSize
        BY <1>3, <1>4, PartLengths DEF PartLen
      <4>2. QED
        BY <1>5, <4>1 DEF ByteAfter
    <3>8. QED
      BY <1>9, <3>3, <3>5, <3>6, <3>7
  <2>3. QED
    BY <1>2, <1>3, <2>1, <2>2, BytesDelivered
<1>14. QED
  BY <1>2, <1>11, <1>12, <1>13, ReceiverLeft DEF FrameIInv

LEMMA SendDataKeeps ==
  ASSUME PlainLen # 0, FrameIInv, SendData
  PROVE  FrameIInv'
<1>1. PICK n \in 1..(sizes[Current] - wlen) : chan' = chan \o NextData(n) /\ wlen' = wlen + n
  BY DEF SendData
<1>2. /\ UNCHANGED <<spc, sizes, sresult, fin, recvVars, split>> /\ Current' = Current
      /\ spc = "data" /\ wlen < sizes[Current]
  BY DEF SendData, Current
<1>3. /\ sizes # <<>> /\ sresult # "thrown" /\ sizes \in Seq(Nat) /\ wlen \in Nat
      /\ chan \in Seq(Bytes)
  BY <1>2 DEF FrameIInv, Sending, FrameTypeOK
<1>4. PICK m \in Nat : m = sizes[Current]
  BY <1>3, LastThere, SeqFacts DEF Current
<1>5. Current \in Nat \ {0} /\ Current \in DOMAIN sizes
  BY <1>3, LastThere, SeqFacts DEF Current
<1>6. PartLen(sizes, Current, "data") = m
  BY <1>4, <1>5 DEF PartLen, FrameIInv, Sending
<1>7. n \in Nat \ {0} /\ wlen + n <= m /\ wlen < m
  BY <1>1, <1>2, <1>3, <1>4
<1>8. /\ DataOf(Current) \in Seq(Bytes) /\ Len(DataOf(Current)) = m
      /\ \A x \in 1..m : DataOf(Current)[x] = <<Current, "data", x>>
  BY <1>4, <1>5, PartMade DEF DataOf
<1>9. PICK r \in Seq(Bytes) : /\ r = NextData(n) /\ Len(r) = n
                              /\ ComesAfter(r, Current, "data", wlen)
  <2>1. PICK r : r = SubSeq(DataOf(Current), wlen + 1, wlen + n)
    OBVIOUS
  <2>2. wlen + 1 \in 1 .. m + 1 /\ wlen + n \in wlen .. m /\ wlen + n - (wlen + 1) + 1 = n
    BY <1>3, <1>7
  <2>3. r \in Seq(Bytes) /\ Len(r) = n /\ \A x \in 1..n : r[x] = DataOf(Current)[wlen + 1 + x - 1]
    <3>1. \A i \in wlen + 1 .. wlen + n : i \in 1..m /\ i \in Nat \ {0}
      BY <1>3, <1>7
    <3>2. PICK q : q = DataOf(Current)
      OBVIOUS
    <3>3. \A i \in wlen + 1 .. wlen + n : q[i] \in Bytes
      BY <1>5, <1>8, <3>1, <3>2, ByteMade
    <3>4. PICK a \in Int, b \in Int : a = wlen + 1 /\ b = wlen + n
      BY <1>3, <1>7
    <3>5. a <= b /\ b - a + 1 = n /\ \A i \in a .. b : q[i] \in Bytes
      BY <1>3, <1>7, <3>3, <3>4
    <3>6. r = SubSeq(q, a, b)
      BY <2>1, <3>2, <3>4
    <3>7. r \in Seq(Bytes) /\ Len(r) = n /\ \A x \in 1..n : r[x] = q[a + x - 1]
      BY <3>5, <3>6, SubSeqProperties
    <3>8. QED
      BY <3>2, <3>4, <3>7
  <2>4. \A x \in 1..n : wlen + 1 + x - 1 = wlen + x /\ wlen + x \in 1..m
    BY <1>3, <1>7
  <2>5. \A x \in 1..n : r[x] = <<Current, "data", wlen + x>>
    BY <1>8, <2>3, <2>4
  <2>6. QED
    BY <2>1, <2>3, <2>5 DEF NextData, ComesAfter
<1>10. chan' = chan \o r /\ chan' \in Seq(Bytes) /\ wlen' \in Nat
  BY <1>1, <1>3, <1>9, ConcatProperties
<1>11. FrameTypeOK'
  BY <1>2, <1>10 DEF FrameIInv, FrameTypeOK, recvVars
<1>12. Sending'
  BY <1>1, <1>2, <1>4, <1>7 DEF FrameIInv, Sending
<1>13. ASSUME ~split' PROVE Delivers'
  <2>1. ASSUME ~Told
        PROVE  /\ InOrder(sizes, chan') /\ chan' # <<>> /\ chan'[1] = RecvPos
               /\ SendPos' = After(sizes, chan'[Len(chan')])
    <3>1. Carries
      BY <1>2, <1>13, <2>1 DEF FrameIInv, Delivers
    <3>2. SendPos = <<Current, "data", wlen + 1>>
      BY <1>2, <1>6, <1>7 DEF SendPos, ByteAfter
    <3>3. FrameTypeOK /\ Sending
      BY DEF FrameIInv
    <3>4. /\ InOrder(sizes, chan \o r) /\ chan \o r # <<>> /\ (chan \o r)[1] = RecvPos
          /\ After(sizes, (chan \o r)[Len(chan \o r)]) = ByteAfter(sizes, Current, "data", wlen + n)
      BY <1>2, <1>3, <1>6, <1>7, <1>9, <3>1, <3>2, <3>3, BytesSent
    <3>5. SendPos' = ByteAfter(sizes, Current, "data", wlen + n)
      BY <1>1, <1>2 DEF SendPos
    <3>6. QED
      BY <1>10, <3>4, <3>5
  <2>2. QED
    BY <1>2, <1>3, <1>13, <2>1, BytesDelivered
<1>14. QED
  BY <1>2, <1>11, <1>12, <1>13, ReceiverLeft DEF FrameIInv

\* What the steps of the receiver leave alone of what is said of the sender.
LEMMA SenderLeft ==
  ASSUME FrameIInv, UNCHANGED <<sendVars, split>>
  PROVE  /\ Sending' /\ Current' = Current /\ SendPos' = SendPos /\ sizes' = sizes
         /\ sresult' = sresult /\ spc' = spc /\ split' = split /\ wlen' = wlen
         /\ \A i : Unsent(i)' <=> Unsent(i)
BY DEF FrameIInv, sendVars, Sending, Current, SendPos, Unsent

\* A step of the receiver that takes no bytes leaves everything where it is.
LEMMA ReceiverStays ==
  ASSUME FrameIInv, UNCHANGED <<sendVars, chan, got, split>>, ~split',
         ~Told' => ~Told /\ RecvPos' = RecvPos /\ Asks'
  PROVE  Delivers'
<1>1. /\ Current' = Current /\ SendPos' = SendPos /\ sizes' = sizes /\ sresult' = sresult
      /\ spc' = spc /\ chan' = chan /\ got' = got /\ Given' = Given /\ Len(got)' = Len(got)
      /\ \A i : Unsent(i)' <=> Unsent(i)
  BY SenderLeft DEF Given, Whole
<1>2. Delivers
  BY DEF FrameIInv
<1>3. ASSUME NEW m \in Nat, GivenOf(m) /\ (~Told => m = Len(got))
      PROVE  (GivenOf(m) /\ (~Told => m = Len(got)))'
  BY <1>1, <1>3 DEF GivenOf
<1>4. ASSUME ~Told' PROVE (Carries /\ Asks)'
  <2>1. Carries
    BY <1>2, <1>4 DEF Delivers
  <2>2. KernelEnd' = KernelEnd
    BY <1>1, <1>4 DEF KernelEnd
  <2>3. QED
    BY <1>1, <1>4, <2>1, <2>2 DEF Carries
<1>5. QED
  BY <1>2, <1>3, <1>4 DEF Delivers

LEMMA RecvKeeps ==
  ASSUME PlainLen # 0, FrameIInv, Recv
  PROVE  FrameIInv'
<1>1. /\ UNCHANGED <<sendVars, chan, fin, got, split>> /\ Receiving' = Receiving
      /\ rpc = "idle" /\ ~Told /\ rresult' = "none"
      /\ rpc' = IF RecvWait # -1 THEN "select" ELSE AfterWait(Protocol[Receiving])
      /\ rsize' = IF Protocol[Receiving] = "plain" THEN PlainLen ELSE 0
  BY DEF Recv, RecvBegins, Receiving, Told
<1>2. PlainLen \in Nat
  BY FrameConstants
<1>3. FrameTypeOK'
  BY <1>1, <1>2 DEF FrameIInv, FrameTypeOK, sendVars, AfterWait
<1>4. Asking' /\ ~Told'
  BY <1>1 DEF Asking, Told, AfterWait
<1>5. RecvPos' = RecvPos
  <2>1. RecvPos = FirstByte(Receiving)
    BY <1>1 DEF RecvPos
  <2>2. CASE rpc' = "select"
    BY <1>1, <2>1, <2>2 DEF RecvPos
  <2>3. CASE rpc' = "head" /\ Protocol[Receiving] # "plain"
    BY <1>1, <2>1, <2>3 DEF RecvPos, FirstByte
  <2>4. CASE rpc' = "data" /\ Protocol[Receiving] = "plain"
    <3>1. ByteAfter(sizes', Receiving', "data", 0) = <<Receiving, "data", 1>>
      BY <1>1, <1>2, <2>4 DEF ByteAfter, PartLen
    <3>2. QED
      BY <2>1, <2>4, <3>1 DEF RecvPos, FirstByte
  <2>5. QED
    BY <1>1, <2>2, <2>3, <2>4 DEF AfterWait
<1>6. Asks'
  BY <1>1 DEF Asks, AfterWait
<1>7. ~split' => Delivers'
  BY <1>1, <1>5, <1>6, ReceiverStays
<1>8. QED
  BY <1>1, <1>3, <1>4, <1>7, SenderLeft DEF FrameIInv

LEMMA RecvReadyKeeps ==
  ASSUME PlainLen # 0, FrameIInv, RecvReady
  PROVE  FrameIInv'
<1>1. /\ UNCHANGED <<sendVars, chan, fin, rsize, got, rresult, split>> /\ Receiving' = Receiving
      /\ rpc = "select" /\ rpc' = AfterWait(Protocol[Receiving])
  BY DEF RecvReady, Receiving
<1>2. PlainLen \in Nat
  BY FrameConstants
<1>3. FrameTypeOK'
  BY <1>1 DEF FrameIInv, FrameTypeOK, sendVars, AfterWait
<1>4. Asking /\ ~Told
  BY <1>1 DEF FrameIInv, Asking
<1>5. Asking' /\ ~Told'
  BY <1>1, <1>4 DEF Asking, Told, AfterWait
<1>6. RecvPos' = RecvPos
  <2>1. RecvPos = FirstByte(Receiving)
    BY <1>1 DEF RecvPos
  <2>2. CASE rpc' = "head" /\ Protocol[Receiving] # "plain"
    BY <1>1, <2>1, <2>2 DEF RecvPos, FirstByte
  <2>3. CASE rpc' = "data" /\ Protocol[Receiving] = "plain"
    <3>1. ByteAfter(sizes', Receiving', "data", 0) = <<Receiving, "data", 1>>
      BY <1>1, <1>2, <2>3 DEF ByteAfter, PartLen
    <3>2. QED
      BY <2>1, <2>3, <3>1 DEF RecvPos, FirstByte
  <2>4. QED
    BY <1>1, <2>2, <2>3 DEF AfterWait
<1>7. Asks'
  BY <1>1 DEF Asks, AfterWait
<1>8. ~split' => Delivers'
  BY <1>1, <1>4, <1>6, <1>7, ReceiverStays
<1>9. QED
  BY <1>1, <1>3, <1>5, <1>8, SenderLeft DEF FrameIInv

LEMMA RecvTimesOutKeeps ==
  ASSUME FrameIInv, RecvTimesOut
  PROVE  FrameIInv'
<1>1. /\ UNCHANGED <<sendVars, chan, fin, rsize, got, split>> /\ Receiving' = Receiving
      /\ rpc = "select" /\ rpc' = "idle" /\ rresult' = "timeout"
  BY DEF RecvTimesOut, Receiving
<1>2. FrameTypeOK' /\ Asking'
  BY <1>1 DEF FrameIInv, FrameTypeOK, sendVars, Asking
<1>3. ~Told /\ ~Told' /\ RecvPos' = RecvPos /\ Asks'
  BY <1>1 DEF FrameIInv, Asking, Told, RecvPos, Asks
<1>4. ~split' => Delivers'
  BY <1>1, <1>3, ReceiverStays
<1>5. QED
  BY <1>1, <1>2, <1>4, SenderLeft DEF FrameIInv

LEMMA RecvFailsKeeps ==
  ASSUME FrameIInv, RecvFails
  PROVE  FrameIInv'
<1>1. /\ UNCHANGED <<sendVars, chan, fin, rsize, got, split>>
      /\ rpc' = "idle" /\ rresult' \in {"minus one", "thrown"}
  BY DEF RecvFails, RecvEnds
<1>2. FrameTypeOK' /\ Asking' /\ Told'
  BY <1>1 DEF FrameIInv, FrameTypeOK, sendVars, Asking, Told
<1>3. ~split' => Delivers'
  BY <1>1, <1>2, ReceiverStays
<1>4. QED
  BY <1>1, <1>2, <1>3, SenderLeft DEF FrameIInv

-----------------------------------------------------------------------------
\* n bytes taken off the kernel: where the receiver is then is where the rest
\* begins.
LEMMA BytesTaken ==
  ASSUME FrameTypeOK, Carries, NEW n \in 0 .. Len(chan),
         UNCHANGED <<sendVars, split>>, chan' = Drop(chan, n),
         RecvPos' = IF n = 0 THEN RecvPos ELSE After(sizes, chan[n])
  PROVE  Carries'
<1>1. /\ Current' = Current /\ SendPos' = SendPos /\ sizes' = sizes /\ sresult' = sresult
      /\ \A i : Unsent(i)' <=> Unsent(i)
  BY DEF sendVars, Current, SendPos, Unsent
<1>2. chan \in Seq(Bytes) /\ Len(chan) \in Nat
  BY SeqFacts DEF FrameTypeOK
<1>3. PICK s, q : s = sizes /\ q = chan
  OBVIOUS
<1>4. q \in Seq(Bytes) /\ InOrder(s, q) /\ n \in 0 .. Len(q)
  BY <1>2, <1>3 DEF Carries
<1>5. PICK t : t = Drop(q, n)
  OBVIOUS
<1>6. /\ InOrder(s, t)
      /\ \A j \in DOMAIN t : \E l \in DOMAIN q : t[j] = q[l]
      /\ n = Len(q) => t = <<>>
      /\ n # Len(q) => t # <<>> /\ t[1] = q[n + 1] /\ t[Len(t)] = q[Len(q)]
      /\ n # Len(q) /\ n # 0 => q[n + 1] = After(s, q[n])
  BY <1>4, <1>5, FrontCut
<1>7. chan' = t
  BY <1>3, <1>5
<1>8. \A j \in DOMAIN t : ~Unsent(t[j][1])
  BY <1>3, <1>6 DEF Carries
<1>9. t # <<>> => t[1] = RecvPos'
  <2>1. CASE n = 0
    <3>1. t # <<>> => q # <<>> /\ t[1] = q[1]
      <4>1. t # <<>> => n # Len(q) /\ n + 1 = 1 /\ Len(q) # 0
        BY <1>6, <2>1
      <4>2. q = <<>> => Len(q) = 0
        BY <1>4, SeqFacts
      <4>3. QED
        BY <1>6, <4>1, <4>2, <2>1
    <3>2. QED
      BY <1>3, <2>1, <3>1 DEF Carries
  <2>2. CASE n # 0
    BY <1>3, <1>6, <2>2
  <2>3. QED
    BY <2>1, <2>2
<1>10. KernelEnd' = KernelEnd
  <2>1. CASE n # Len(q)
    <3>1. q # <<>>
      <4>1. q = <<>> => Len(q) = 0
        BY <1>4, SeqFacts
      <4>2. QED
        BY <1>4, <2>1, <4>1
    <3>2. QED
      BY <1>1, <1>3, <1>6, <1>7, <2>1, <3>1 DEF KernelEnd
  <2>2. CASE n = Len(q) /\ n = 0
    <3>1. q = <<>>
      BY <1>4, <2>2, SeqFacts
    <3>2. QED
      BY <1>1, <1>3, <1>6, <1>7, <2>2, <3>1 DEF KernelEnd
  <2>3. CASE n = Len(q) /\ n # 0
    <3>1. q # <<>>
      <4>1. q = <<>> => Len(q) = 0
        BY <1>4, SeqFacts
      <4>2. QED
        BY <2>3, <4>1
    <3>2. QED
      BY <1>1, <1>3, <1>6, <1>7, <2>3, <3>1 DEF KernelEnd
  <2>4. QED
    BY <2>1, <2>2, <2>3
<1>11. QED
  BY <1>1, <1>3, <1>6, <1>7, <1>8, <1>9, <1>10 DEF Carries
-----------------------------------------------------------------------------
\* A call that tells the receiver of a loss ends what is promised of the rest.
LEMMA LossTold ==
  ASSUME FrameIInv, UNCHANGED <<sendVars, got, split>>, ~split', Told'
  PROVE  Delivers'
<1>1. /\ Current' = Current /\ spc' = spc /\ Given' = Given /\ Len(got)' = Len(got)
  BY SenderLeft DEF Given, Whole
<1>2. Delivers
  BY DEF FrameIInv
<1>3. ASSUME NEW m \in Nat, GivenOf(m) PROVE GivenOf(m)'
  BY <1>1, <1>3 DEF GivenOf
<1>4. QED
  BY <1>2, <1>3 DEF Delivers

LEMMA SizesInTyped ==
  ASSUME FrameTypeOK, NEW b
  PROVE  SizesIn(b) \subseteq Nat
<1>1. \A i \in DOMAIN sizes : sizes[i] \in Nat
  BY SeqFacts DEF FrameTypeOK
<1>2. \A k \in Kinds, n \in Lengths : DataSize(k, n) \in Nat
  BY DataSizes
<1>3. QED
  BY <1>1, <1>2 DEF SizesIn, Announced

\* A whole header stands for the size of its own transfer.
LEMMA HeadTells ==
  ASSUME sizes \in Seq(Nat), NEW i \in DOMAIN sizes, NEW b \in Seq(Bytes),
         Len(b) = HeaderSize, ComesAfter(b, i, "head", 0)
  PROVE  SizesIn(b) = {sizes[i]}
<1>1. HeaderSize \in Nat \ {0} /\ 1 \in 1 .. HeaderSize /\ HeaderSize \in Nat
  BY FrameConstants
<1>2. \A j \in DOMAIN sizes : j \in Nat \ {0}
  BY SeqFacts
<1>3. \A j \in DOMAIN sizes :
        /\ HeadOf(j) \in Seq(Bytes) /\ Len(HeadOf(j)) = HeaderSize
        /\ \A x \in 1 .. HeaderSize : HeadOf(j)[x] = <<j, "head", x>>
  BY <1>1, <1>2, PartMade DEF HeadOf
<1>4. \A x \in 1 .. HeaderSize : b[x] = <<i, "head", x>>
  <2>1. \A x \in 1 .. HeaderSize : 0 + x = x
    OBVIOUS
  <2>2. QED
    BY <2>1 DEF ComesAfter
<1>5. b = HeadOf(i)
  <2>1. PICK h \in Seq(Bytes) : h = HeadOf(i) /\ Len(h) = HeaderSize
                                /\ \A x \in 1 .. HeaderSize : h[x] = <<i, "head", x>>
    BY <1>3
  <2>2. b = h
    BY <1>4, <2>1, SeqEqual
  <2>3. QED
    BY <2>1, <2>2
<1>6. \A j \in DOMAIN sizes : b = HeadOf(j) => j = i
  <2>1. SUFFICES ASSUME NEW j \in DOMAIN sizes, b = HeadOf(j) PROVE j = i
    OBVIOUS
  <2>2. b[1] = <<i, "head", 1>> /\ b[1] = <<j, "head", 1>>
    BY <1>1, <1>3, <1>4, <2>1
  <2>3. <<i, "head", 1>> = <<j, "head", 1>>
    BY <2>2
  <2>4. QED
    BY <2>3, SameByte
<1>7. {Announced(l) : l \in {j \in DOMAIN sizes : b = HeadOf(j)}} = {sizes[i]}
  <2>1. {j \in DOMAIN sizes : b = HeadOf(j)} = {i}
    BY <1>5, <1>6
  <2>2. QED
    BY <2>1 DEF Announced
<1>8. QED
  BY <1>5, <1>7 DEF SizesIn

LEMMA RecvHeaderKeeps ==
  ASSUME PlainLen # 0, FrameIInv, RecvHeader
  PROVE  FrameIInv'
<1>1. PICK n \in 0..HeaderSize :
        /\ IF n = 0 THEN fin /\ chan = <<>> ELSE n <= Len(chan)
        /\ chan' = Drop(chan, n)
        /\ n = 0 => RecvEnds("eof") /\ UNCHANGED rsize
        /\ n \in 1..(HeaderSize - 1) => RecvEnds("thrown") /\ UNCHANGED rsize
        /\ n = HeaderSize => rsize' \in SizesIn(Take(chan, n)) /\ rpc' = "data" /\ UNCHANGED rresult
  <2>1. HeaderSize \in Nat \ {0}
    BY FrameConstants
  <2>2. \A n \in 0..HeaderSize : /\ n = 0 => n \notin 1..(HeaderSize - 1) /\ n # HeaderSize
                                 /\ n \in 1..(HeaderSize - 1) => n # 0 /\ n # HeaderSize
                                 /\ n = HeaderSize => n # 0 /\ n \notin 1..(HeaderSize - 1)
    BY <2>1
  <2>3. QED
    BY <2>2 DEF RecvHeader
<1>2. /\ UNCHANGED <<sendVars, fin, got, split>> /\ rpc = "head" /\ Receiving' = Receiving
  BY DEF RecvHeader, Receiving
<1>3. /\ FrameTypeOK /\ sizes \in Seq(Nat) /\ chan \in Seq(Bytes) /\ Len(chan) \in Nat
      /\ HeaderSize \in Nat \ {0} /\ Protocol[Receiving] # "plain" /\ ~Told
  BY <1>2, SeqFacts, FrameConstants DEF FrameIInv, FrameTypeOK, Asking
<1>4. n \in 0 .. Len(chan)
  BY <1>1, <1>3
<1>5. chan' \in Seq(Bytes)
  BY <1>1, <1>3, <1>4, DropProps
<1>6. CASE n # HeaderSize
  <2>1. rpc' = "idle" /\ rresult' \in {"eof", "thrown"} /\ rsize' = rsize
    <3>1. n = 0 \/ n \in 1..(HeaderSize - 1)
      BY <1>3, <1>6
    <3>2. QED
      BY <1>1, <3>1 DEF RecvEnds
  <2>2. FrameTypeOK' /\ Asking' /\ Told'
    BY <1>2, <1>3, <1>5, <2>1 DEF FrameTypeOK, sendVars, Asking, Told
  <2>3. ~split' => Delivers'
    BY <1>2, <2>2, LossTold
  <2>4. QED
    BY <1>2, <2>2, <2>3, SenderLeft DEF FrameIInv
<1>7. CASE n = HeaderSize
  <2>1. rsize' \in SizesIn(Take(chan, n)) /\ rpc' = "data" /\ rresult' = rresult /\ n # 0
    BY <1>1, <1>3, <1>7
  <2>2. rsize' \in Nat
    BY <1>3, <2>1, SizesInTyped
  <2>3. FrameTypeOK' /\ Asking' /\ ~Told'
    BY <1>2, <1>3, <1>5, <2>1, <2>2 DEF FrameTypeOK, sendVars, Asking, Told
  <2>4. ASSUME ~split' PROVE Delivers'
    <3>1. Delivers /\ Carries
      BY <1>2, <1>3, <2>4 DEF FrameIInv, Delivers
    <3>2. /\ InOrder(sizes, chan)
          /\ chan # <<>> => chan[1] = <<Receiving, "head", 1>>
      BY <1>2, <3>1 DEF Carries, RecvPos
    <3>3. n \in 1 .. Len(chan) /\ chan # <<>> /\ 1 \in DOMAIN chan
      <4>1. n \in 1 .. Len(chan)
        BY <1>3, <1>4, <1>7
      <4>2. QED
        BY <1>3, <4>1, SeqFacts
    <3>4. PartLen(sizes, Receiving, "head") = HeaderSize
      BY DEF PartLen
    <3>5. /\ Take(chan, n) \in Seq(Bytes) /\ Len(Take(chan, n)) = n
          /\ \A x \in 1 .. n : Take(chan, n)[x] = <<Receiving, "head", x>>
          /\ chan[n] = <<Receiving, "head", n>>
          /\ Receiving \in DOMAIN sizes
      <4>1. PICK s, q, i : s = sizes /\ q = chan /\ i = Receiving
        OBVIOUS
      <4>2. /\ q \in Seq(Bytes) /\ InOrder(s, q)
            /\ q # <<>> => q[1] = <<i, "head", 1>>
            /\ n \in 1 .. Len(q) /\ PartLen(s, i, "head") \in Nat /\ n <= PartLen(s, i, "head")
        BY <1>3, <1>7, <3>2, <3>3, <3>4, <4>1
      <4>3. /\ Take(q, n) \in Seq(Bytes) /\ Len(Take(q, n)) = n
            /\ \A x \in 1 .. n : Take(q, n)[x] = <<i, "head", x>>
            /\ q[n] = <<i, "head", n>>
            /\ i \in DOMAIN s
        BY <4>2, RunTaken
      <4>4. QED
        BY <4>1, <4>3
    <3>6. rsize' = sizes[Receiving]
      <4>1. PICK b \in Seq(Bytes) : b = Take(chan, n)
        BY <3>5
      <4>2. Len(b) = HeaderSize /\ ComesAfter(b, Receiving, "head", 0)
        <5>1. \A x \in 1 .. n : 0 + x = x
          OBVIOUS
        <5>2. QED
          BY <1>7, <3>5, <4>1, <5>1 DEF ComesAfter
      <4>3. SizesIn(b) = {sizes[Receiving]}
        BY <1>3, <3>5, <4>1, <4>2, HeadTells
      <4>4. QED
        BY <2>1, <4>1, <4>3
    <3>7. Asks'
      <4>1. ~Unsent(Receiving)
        BY <3>1, <3>2, <3>3 DEF Carries
      <4>2. QED
        BY <1>2, <3>5, <3>6, <4>1, SenderLeft DEF Asks
    <3>8. Carries'
      <4>1. RecvPos' = After(sizes, chan[n])
        <5>1. PartLen(sizes, Receiving, "data") \in Nat
          BY <1>3, <3>5, PartLengths
        <5>2. RecvPos' = ByteAfter(sizes, Receiving, "data", 0)
          BY <1>2, <2>1 DEF RecvPos, sendVars
        <5>3. After(sizes, chan[n]) = ByteAfter(sizes, Receiving, "head", n)
          BY <3>5 DEF After
        <5>4. QED
          BY <1>3, <1>7, <3>4, <5>1, <5>2, <5>3 DEF ByteAfter
      <4>2. QED
        BY <1>1, <1>2, <1>3, <1>4, <2>1, <3>1, <4>1, BytesTaken
    <3>9. QED
      <4>1. ASSUME NEW m \in Nat, GivenOf(m) /\ (~Told => m = Len(got))
            PROVE  (GivenOf(m) /\ (~Told => m = Len(got)))'
        <5>1. Given' = Given /\ Len(got)' = Len(got)
          BY <1>2 DEF Given, Whole
        <5>2. QED
          BY <1>2, <1>3, <4>1, <5>1, SenderLeft DEF GivenOf
      <4>2. QED
        BY <3>1, <3>7, <3>8, <4>1 DEF Delivers
  <2>5. QED
    BY <1>2, <2>3, <2>4, SenderLeft DEF FrameIInv
<1>8. QED
  BY <1>6, <1>7

\* All that a recv asks for, when it has come, is the transfer's data.
LEMMA DataTaken ==
  ASSUME PlainLen # 0, FrameIInv, ~split, rpc = "data", rsize <= Len(chan)
  PROVE  /\ Receiving \in DOMAIN sizes /\ ~Unsent(Receiving)
         /\ Take(chan, rsize) = DataOf(Receiving)
         /\ (IF rsize = 0 THEN RecvPos ELSE After(sizes, chan[rsize])) = FirstByte(Receiving + 1)
<1>1. /\ FrameTypeOK /\ sizes \in Seq(Nat) /\ chan \in Seq(Bytes) /\ Len(chan) \in Nat
      /\ rsize \in Nat /\ ~Told /\ PlainLen \in Nat
      /\ Protocol[Receiving] = "plain" => rsize = PlainLen
  BY SeqFacts, FrameConstants DEF FrameIInv, FrameTypeOK, Asking
<1>2. Carries /\ Asks
  BY <1>1 DEF FrameIInv, Delivers
<1>3. PartLen(sizes, Receiving, "data") = rsize
  BY <1>1, <1>2 DEF PartLen, Asks
<1>4. RecvPos = ByteAfter(sizes, Receiving, "data", 0)
  BY DEF RecvPos
<1>5. ASSUME NEW b \in Seq(Bytes), Receiving \in DOMAIN sizes, sizes[Receiving] = rsize,
             Len(b) = rsize, ComesAfter(b, Receiving, "data", 0)
      PROVE  b = DataOf(Receiving)
  <2>1. Receiving \in Nat \ {0}
    BY <1>1, <1>5, SeqFacts
  <2>2. PICK d \in Seq(Bytes) : d = DataOf(Receiving) /\ Len(d) = rsize
                                /\ \A x \in 1 .. rsize : d[x] = <<Receiving, "data", x>>
    BY <1>1, <1>5, <2>1, PartMade DEF DataOf
  <2>3. \A x \in 1 .. rsize : b[x] = <<Receiving, "data", x>>
    <3>1. \A x \in 1 .. rsize : 0 + x = x
      BY <1>1
    <3>2. QED
      BY <1>5, <3>1 DEF ComesAfter
  <2>4. b = d
    BY <1>5, <2>2, <2>3, SeqEqual
  <2>5. QED
    BY <2>2, <2>4
<1>6. rsize \in 0 .. Len(chan)
  BY <1>1
<1>7. PICK b \in Seq(Bytes) : b = Take(chan, rsize) /\ Len(b) = rsize
  BY <1>1, <1>6, TakeProps
<1>8. CASE rsize = 0
  <2>1. Receiving \in DOMAIN sizes /\ ~Unsent(Receiving) /\ rsize = sizes[Receiving]
    BY <1>1, <1>2, <1>8 DEF Asks
  <2>2. ComesAfter(b, Receiving, "data", 0)
    BY <1>7, <1>8 DEF ComesAfter
  <2>3. RecvPos = FirstByte(Receiving + 1)
    BY <1>3, <1>4, <1>8 DEF ByteAfter
  <2>4. QED
    BY <1>5, <1>7, <1>8, <2>1, <2>2, <2>3
<1>9. CASE rsize # 0
  <2>1. RecvPos = <<Receiving, "data", 1>>
    BY <1>1, <1>3, <1>4, <1>9 DEF ByteAfter
  <2>2. rsize \in 1 .. Len(chan) /\ chan # <<>> /\ 1 \in DOMAIN chan
    <3>1. rsize \in 1 .. Len(chan)
      BY <1>6, <1>9
    <3>2. QED
      BY <1>1, <3>1, SeqFacts
  <2>3. PICK s, q, i, n : s = sizes /\ q = chan /\ i = Receiving /\ n = rsize
    OBVIOUS
  <2>4. /\ q \in Seq(Bytes) /\ InOrder(s, q)
        /\ q # <<>> => q[1] = <<i, "data", 1>>
        /\ n \in 1 .. Len(q) /\ PartLen(s, i, "data") \in Nat /\ n <= PartLen(s, i, "data")
    BY <1>1, <1>2, <1>3, <2>1, <2>2, <2>3 DEF Carries
  <2>5. /\ \A x \in 1 .. n : Take(q, n)[x] = <<i, "data", x>>
        /\ q[n] = <<i, "data", n>>
        /\ i \in DOMAIN s
    BY <2>4, RunTaken
  <2>6. Receiving \in DOMAIN sizes /\ chan[rsize] = <<Receiving, "data", rsize>>
    BY <2>3, <2>5
  <2>7. sizes[Receiving] = rsize
    BY <1>1, <1>2, <2>6 DEF FrameIInv, Sending, Asks
  <2>8. ~Unsent(Receiving)
    BY <1>2, <2>1, <2>2 DEF Carries
  <2>9. ComesAfter(b, Receiving, "data", 0)
    <3>1. \A x \in 1 .. rsize : 0 + x = x
      BY <1>1
    <3>2. QED
      BY <1>7, <2>3, <2>5, <3>1 DEF ComesAfter
  <2>10. After(sizes, chan[rsize]) = FirstByte(Receiving + 1)
    BY <1>1, <1>3, <2>6 DEF After, ByteAfter
  <2>11. QED
    BY <1>5, <1>7, <1>9, <2>6, <2>7, <2>8, <2>9, <2>10
<1>10. QED
  BY <1>8, <1>9

\* What has been given when one more recv returns.
LEMMA OneGiven ==
  ASSUME FrameTypeOK, NEW g \in [size : Nat, bytes : Seq(Bytes)], got' = Append(got, g)
  PROVE  /\ got' \in Seq([size : Nat, bytes : Seq(Bytes)])
         /\ Len(got) \in Nat /\ Len(got') = Len(got) + 1
         /\ \A i \in 1 .. Len(got) : got'[i] = got[i]
         /\ got'[Len(got) + 1] = g
         /\ ~Whole(g) => Given' = Given
         /\ Whole(g) /\ Given = 1 .. Len(got) => Given' = 1 .. (Len(got) + 1)
<1>1. PICK c \in Nat : c = Len(got) /\ DOMAIN got = 1 .. c
  BY SeqFacts DEF FrameTypeOK
<1>2. /\ got' \in Seq([size : Nat, bytes : Seq(Bytes)]) /\ Len(got') = c + 1
      /\ \A i \in 1 .. c : got'[i] = got[i]
      /\ got'[c + 1] = g
  <2>1. PICK S : S = [size : Nat, bytes : Seq(Bytes)]
    OBVIOUS
  <2>2. got \in Seq(S) /\ g \in S
    BY <2>1 DEF FrameTypeOK
  <2>3. got' \in Seq(S) /\ Len(got') = c + 1 /\ (\A i \in 1 .. c : got'[i] = got[i]) /\ got'[c + 1] = g
    BY <1>1, <2>2, AppendProperties
  <2>4. QED
    BY <2>1, <2>3
<1>3. DOMAIN got' = 1 .. (c + 1)
  BY <1>2, SeqFacts
<1>4. Given = {i \in 1 .. c : \A k \in 1 .. i : Whole(got[k])}
  BY <1>1 DEF Given
<1>5. Given' = {i \in 1 .. (c + 1) : \A k \in 1 .. i : Whole(got'[k])}
  BY <1>3 DEF Given, Whole
<1>6. \A i \in 1 .. c : \A k \in 1 .. i : k \in 1 .. c
  OBVIOUS
<1>7. \A i \in 1 .. c : i \in 1 .. (c + 1) /\ (i \in Given' <=> i \in Given)
  <2>1. \A i \in 1 .. c : i \in 1 .. (c + 1)
    OBVIOUS
  <2>2. \A i \in 1 .. c : \A k \in 1 .. i : got'[k] = got[k]
    BY <1>2, <1>6
  <2>3. QED
    BY <1>4, <1>5, <2>1, <2>2
<1>8. \A i \in 1 .. (c + 1) : i \in 1 .. c \/ i = c + 1
  OBVIOUS
<1>9. ~Whole(g) => Given' = Given
  <2>1. c + 1 \in 1 .. (c + 1) /\ c + 1 \notin 1 .. c
    OBVIOUS
  <2>2. ~Whole(g) => c + 1 \notin Given'
    BY <1>2, <1>5, <2>1
  <2>3. QED
    BY <1>4, <1>5, <1>7, <1>8, <2>1, <2>2
<1>10. ASSUME Whole(g), Given = 1 .. c PROVE Given' = 1 .. (c + 1)
  <2>1. \A k \in 1 .. c : Whole(got[k])
    <3>1. \A k \in 1 .. c : k \in 1 .. k
      OBVIOUS
    <3>2. QED
      BY <1>4, <1>10, <3>1
  <2>2. \A k \in 1 .. (c + 1) : Whole(got'[k])
    BY <1>2, <1>8, <1>10, <2>1
  <2>3. \A i \in 1 .. (c + 1) : \A k \in 1 .. i : k \in 1 .. (c + 1)
    OBVIOUS
  <2>4. QED
    BY <1>5, <2>2, <2>3
<1>11. QED
  BY <1>1, <1>2, <1>9, <1>10

LEMMA RecvDataKeeps ==
  ASSUME PlainLen # 0, FrameIInv, RecvData
  PROVE  FrameIInv'
<1>1. PICK n \in 0..rsize :
        /\ IF n = 0 THEN rsize = 0 \/ (fin /\ chan = <<>>) ELSE n <= Len(chan)
        /\ chan' = Drop(chan, n)
        /\ got' = Append(got, [size |-> rsize, bytes |-> Take(chan, n)])
        /\ rpc' = "idle" /\ rresult' = IF n = rsize THEN "ok" ELSE "short"
  BY DEF RecvData, RecvEnds
<1>2. UNCHANGED <<sendVars, fin, rsize, split>> /\ rpc = "data"
  BY DEF RecvData
<1>3. /\ FrameTypeOK /\ sizes \in Seq(Nat) /\ chan \in Seq(Bytes) /\ Len(chan) \in Nat
      /\ rsize \in Nat /\ n \in Nat /\ ~Told
  <2>1. FrameTypeOK /\ sizes \in Seq(Nat) /\ chan \in Seq(Bytes) /\ rsize \in Nat /\ ~Told
    BY <1>2 DEF FrameIInv, FrameTypeOK, Asking
  <2>2. QED
    BY <2>1, SeqFacts
<1>4. n \in 0 .. Len(chan)
  BY <1>1, <1>3
<1>5. chan' \in Seq(Bytes) /\ Take(chan, n) \in Seq(Bytes) /\ Len(Take(chan, n)) = n
  BY <1>1, <1>3, <1>4, DropProps, TakeProps
<1>6. PICK g \in [size : Nat, bytes : Seq(Bytes)] :
        g = [size |-> rsize, bytes |-> Take(chan, n)] /\ (Whole(g) <=> n = rsize)
  <2>1. PICK g : g = [size |-> rsize, bytes |-> Take(chan, n)]
    OBVIOUS
  <2>2. g \in [size : Nat, bytes : Seq(Bytes)] /\ g.size = rsize /\ Len(g.bytes) = n
    BY <1>3, <1>5, <2>1
  <2>3. QED
    BY <2>1, <2>2 DEF Whole
<1>7. got' = Append(got, g)
  BY <1>1, <1>6
<1>8. /\ got' \in Seq([size : Nat, bytes : Seq(Bytes)])
      /\ Len(got) \in Nat /\ Len(got') = Len(got) + 1
      /\ ~Whole(g) => Given' = Given
      /\ Whole(g) /\ Given = 1 .. Len(got) => Given' = 1 .. (Len(got) + 1)
  BY <1>3, <1>7, OneGiven
<1>9. FrameTypeOK' /\ Asking'
  BY <1>1, <1>2, <1>3, <1>5, <1>8 DEF FrameTypeOK, sendVars, Asking
<1>10. ASSUME ~split' PROVE Delivers'
  <2>1. /\ Delivers /\ Carries /\ Asks /\ ~split
        /\ Len(got) <= Current /\ Given = 1 .. Len(got)
        /\ spc = "select" => Len(got) < Current
    BY <1>2, <1>3, <1>10 DEF FrameIInv, Delivers, GivenOf
  <2>6. PICK m \in Nat : m = Len(got)
    BY <1>8
  <2>2. /\ Current' = Current /\ sizes' = sizes /\ spc' = spc /\ \A i : Unsent(i)' <=> Unsent(i)
    BY <1>2, SenderLeft
  <2>3. CASE n # rsize
    <3>1. GivenOf(m)'
      BY <1>6, <1>8, <2>1, <2>2, <2>3, <2>6 DEF GivenOf
    <3>2. Told'
      BY <1>1, <2>3 DEF Told
    <3>3. QED
      BY <3>1, <3>2 DEF Delivers
  <2>4. CASE n = rsize
    <3>1. /\ Receiving \in DOMAIN sizes /\ ~Unsent(Receiving)
          /\ (IF n = 0 THEN RecvPos ELSE After(sizes, chan[n])) = FirstByte(Receiving + 1)
      BY <1>2, <1>3, <1>4, <2>1, <2>4, DataTaken
    <3>2. ~Told' /\ Receiving' = Receiving + 1 /\ Receiving = Len(got) + 1
      BY <1>1, <1>8, <2>4 DEF Told, Receiving
    <3>3. DOMAIN sizes = 1 .. Current /\ Current \in Nat
      BY <1>3, SeqFacts DEF Current
    <3>4. GivenOf(m + 1)'
      <4>1. Given' = 1 .. (Len(got) + 1)
        BY <1>6, <1>8, <2>1, <2>4
      <4>2. Len(got) + 1 <= Current /\ (spc = "select" => Len(got) + 1 < Current)
        BY <1>8, <3>1, <3>2, <3>3 DEF Unsent
      <4>3. QED
        BY <1>8, <2>2, <2>6, <4>1, <4>2 DEF GivenOf
    <3>5. RecvPos' = FirstByte(Receiving + 1)
      BY <1>1, <3>2 DEF RecvPos
    <3>6. Carries'
      BY <1>1, <1>2, <1>3, <1>4, <2>1, <3>1, <3>5, BytesTaken
    <3>7. Asks'
      BY <1>1 DEF Asks
    <3>8. QED
      BY <1>8, <2>6, <3>4, <3>6, <3>7 DEF Delivers
  <2>5. QED
    BY <2>3, <2>4
<1>11. QED
  BY <1>2, <1>9, <1>10, SenderLeft DEF FrameIInv

LEMMA FrameInitHolds ==
  ASSUME PlainLen # 0, FramesInit
  PROVE  FrameIInv
<1>1. /\ <<>> \in Seq(Nat) /\ <<>> \in Seq(Bytes) /\ <<>> \in Seq([size : Nat, bytes : Seq(Bytes)])
      /\ Len(sizes) = 0 /\ Len(got) = 0 /\ DOMAIN sizes = {} /\ DOMAIN chan = {} /\ DOMAIN got = {}
  BY EmptySeq DEF FramesInit
<1>2. FrameTypeOK
  BY <1>1 DEF FramesInit, FrameTypeOK
<1>3. Sending /\ Asking /\ ~Told
  BY <1>1 DEF FramesInit, Sending, Asking, Told
<1>4. GivenOf(0)
  <2>1. Given = {}
    BY <1>1 DEF Given
  <2>2. 1 .. 0 = {} /\ 0 \in 0 .. 0
    OBVIOUS
  <2>3. QED
    BY <1>1, <2>1, <2>2 DEF FramesInit, GivenOf, Current
<1>5. Carries
  <2>1. InOrder(sizes, chan)
    BY <1>1 DEF InOrder, Sound, Linked, RunsOn
  <2>2. SendPos = FirstByte(1) /\ KernelEnd = FirstByte(1)
    BY <1>1 DEF FramesInit, SendPos, KernelEnd, RecvPos, Current, Receiving
  <2>3. QED
    BY <1>1, <2>1, <2>2 DEF Carries, FramesInit
<1>6. Asks
  BY DEF FramesInit, Asks
<1>7. Delivers
  BY <1>1, <1>4, <1>5, <1>6 DEF Delivers
<1>8. QED
  BY <1>2, <1>3, <1>7 DEF FrameIInv

LEMMA FrameNextKeeps ==
  ASSUME PlainLen # 0, FrameIInv, [FramesNext]_frameVars
  PROVE  FrameIInv'
<1>1. CASE UNCHANGED frameVars
  <2>1. UNCHANGED <<spc, sizes, wlen, sresult, chan, fin, rpc, rsize, got, rresult, split>>
    BY <1>1 DEF frameVars, sendVars, recvVars
  <2>2. FrameTypeOK' /\ Sending' /\ Asking' /\ Told' = Told /\ split' = split
    <3>1. FrameTypeOK' /\ split' = split /\ Told' = Told
      BY <2>1 DEF FrameIInv, FrameTypeOK, Told
    <3>2. Sending'
      BY <2>1 DEF FrameIInv, Sending, Current
    <3>3. Asking'
      BY <2>1, <3>1 DEF FrameIInv, Asking, Receiving
    <3>4. QED
      BY <3>1, <3>2, <3>3
  <2>3. ~split' => Delivers'
    <3>1. SendPos' = SendPos
      BY <2>1 DEF SendPos, Current
    <3>2. UNCHANGED recvVars
      BY <2>1 DEF recvVars
    <3>3. spc' = spc /\ sresult' = sresult
      BY <2>1
    <3>4. CASE sresult # "thrown"
      BY <2>1, <3>1, <3>2, <3>3, <3>4, SenderStays
    <3>5. CASE sresult = "thrown"
      BY <2>1, <3>1, <3>2, <3>3, <3>5, SenderStays
    <3>6. QED
      BY <3>4, <3>5
  <2>4. QED
    BY <2>2, <2>3 DEF FrameIInv
<1>2. ASSUME NEW n \in Lengths, Send(n) PROVE FrameIInv'
  <2>1. FrameTypeOK' /\ Sending'
    BY <1>2, SendTyped
  <2>2. Asking'
    BY <1>2, ReceiverLeft DEF Send
  <2>3. ~split' => Delivers'
    BY <1>2, SendDelivers
  <2>4. QED
    BY <2>1, <2>2, <2>3 DEF FrameIInv
<1>3. SendStep => FrameIInv'
  BY SendReadyKeeps, SendHeaderKeeps, SendDataKeeps, SendReturnsKeeps DEF SendStep
<1>4. RecvStep => FrameIInv'
  BY RecvReadyKeeps, RecvHeaderKeeps, RecvDataKeeps DEF RecvStep
<1>5. QED
  BY <1>1, <1>2, <1>3, <1>4, SendTimesOutKeeps, SendFailsKeeps, SenderClosesKeeps,
     RecvKeeps, RecvTimesOutKeeps, RecvFailsKeeps DEF FramesNext

-----------------------------------------------------------------------------
LEMMA FrontAgain ==
  ASSUME NEW S, NEW a \in Seq(S), NEW b \in Seq(S), Len(b) = Len(a) + 1,
         \A i \in 1 .. Len(a) : b[i] = a[i]
  PROVE  Front(b) = a /\ b # <<>>
<1>1. PICK c \in Nat : c = Len(a)
  BY SeqFacts
<1>2. b # <<>>
  <2>1. b = <<>> => Len(b) = 0
    BY SeqFacts
  <2>2. QED
    BY <1>1, <2>1
<1>3. \A i \in 1 .. c : b[i] \in S
  BY <1>1, SeqFacts
<1>4. PICK z : z = SubSeq(b, 1, c)
  OBVIOUS
<1>5. z \in Seq(S) /\ Len(z) = c /\ \A i \in 1 .. c : z[i] = b[i]
  <2>1. c - 1 + 1 = c /\ (1 <= c \/ c = 0) /\ 1 \in Int /\ c \in Int
    OBVIOUS
  <2>2. \A i \in 1 .. c : 1 + i - 1 = i
    OBVIOUS
  <2>3. QED
    BY <1>3, <1>4, <2>1, <2>2, SubSeqProperties
<1>6. z = a
  BY <1>1, <1>5, SeqEqual
<1>7. Front(b) = SubSeq(b, 1, c)
  <2>1. Len(b) - 1 = c
    BY <1>1
  <2>2. QED
    BY <2>1 DEF Front
<1>8. QED
  BY <1>2, <1>4, <1>6, <1>7

DataOfAll(s) == [i \in DOMAIN s |-> Part(i, "data", s[i])]

LEMMA DataOfAllSeq ==
  ASSUME NEW s \in Seq(Nat)
  PROVE  /\ DataOfAll(s) \in Seq(Seq(Bytes)) /\ Len(DataOfAll(s)) = Len(s)
         /\ \A i \in 1 .. Len(s) : DataOfAll(s)[i] = Part(i, "data", s[i])
<1>1. Len(s) \in Nat /\ DOMAIN s = 1 .. Len(s) /\ \A i \in DOMAIN s : s[i] \in Nat
  BY SeqFacts
<1>2. PICK c \in Nat : c = Len(s)
  BY <1>1
<1>3. PICK f : f = DataOfAll(s)
  OBVIOUS
<1>4. f = [i \in 1 .. c |-> Part(i, "data", s[i])]
  BY <1>1, <1>2, <1>3 DEF DataOfAll
<1>5. \A i \in 1 .. c : i \in Nat \ {0}
  OBVIOUS
<1>6. \A i \in 1 .. c : Part(i, "data", s[i]) \in Seq(Bytes)
  BY <1>1, <1>2, <1>5, PartMade
<1>7. \A i \in 1 .. c : f[i] = Part(i, "data", s[i])
  BY <1>4
<1>8. f = [i \in 1 .. c |-> f[i]] /\ \A i \in 1 .. c : f[i] \in Seq(Bytes)
  BY <1>4, <1>6, <1>7
<1>9. f \in Seq(Seq(Bytes))
  BY <1>8, IsASeq
<1>10. Len(f) = c
  BY <1>4, <1>9, SeqFacts
<1>11. QED
  BY <1>2, <1>3, <1>7, <1>9, <1>10

BytesOf(g, n) == [i \in 1 .. n |-> g[i].bytes]

LEMMA BytesOfSeq ==
  ASSUME NEW g \in Seq([size : Nat, bytes : Seq(Bytes)]), NEW n \in 0 .. Len(g)
  PROVE  /\ BytesOf(g, n) \in Seq(Seq(Bytes)) /\ Len(BytesOf(g, n)) = n
         /\ \A i \in 1 .. n : BytesOf(g, n)[i] = g[i].bytes
<1>1. Len(g) \in Nat /\ DOMAIN g = 1 .. Len(g)
      /\ \A i \in DOMAIN g : g[i] \in [size : Nat, bytes : Seq(Bytes)]
  BY SeqFacts
<1>2. PICK f : f = BytesOf(g, n)
  OBVIOUS
<1>3. f = [i \in 1 .. n |-> g[i].bytes] /\ n \in Nat
  BY <1>1, <1>2 DEF BytesOf
<1>4. \A i \in 1 .. n : g[i].bytes \in Seq(Bytes) /\ f[i] = g[i].bytes
  <2>1. \A i \in 1 .. n : i \in DOMAIN g
    BY <1>1
  <2>2. QED
    BY <1>1, <1>3, <2>1
<1>5. f = [i \in 1 .. n |-> f[i]]
  BY <1>3
<1>6. f \in Seq(Seq(Bytes))
  BY <1>3, <1>4, <1>5, IsASeq
<1>7. Len(f) = n
  <2>1. DOMAIN f = 1 .. n
    BY <1>3
  <2>2. QED
    BY <1>3, <1>6, <2>1, SeqFacts
<1>8. QED
  BY <1>2, <1>4, <1>6, <1>7
-----------------------------------------------------------------------------
\* The queue as the transfers show it.
LEMMA QueueShown ==
  ASSUME FrameTypeOK
  PROVE  /\ DataOfAll(sizes) = [i \in DOMAIN sizes |-> DataOf(i)]
         /\ \A n \in 0 .. Len(got) : Given = 1 .. n =>
              BytesOf(got, n) = [i \in Given |-> got[i].bytes]
BY DEF DataOfAll, DataOf, BytesOf

\* A step that leaves the sizes, what has been given and split alone.
LEMMA QueueStays ==
  ASSUME UNCHANGED <<sizes, got, split>>
  PROVE  [Queue!QueueNext]_(Queue!queueVars)
<1>1. DOMAIN sizes' = DOMAIN sizes /\ \A i \in DOMAIN sizes : DataOf(i)' = DataOf(i)
  BY DEF DataOf
<1>2. Given' = Given
  BY DEF Given, Whole
<1>3. [i \in DOMAIN sizes' |-> DataOf(i)'] = [i \in DOMAIN sizes |-> DataOf(i)]
  BY <1>1
<1>4. [i \in Given' |-> got'[i].bytes] = [i \in Given |-> got[i].bytes]
  BY <1>2
<1>5. UNCHANGED Queue!queueVars
  BY <1>1, <1>2, <1>3, <1>4 DEF Queue!queueVars, DataOf
<1>6. QED
  BY <1>5

LEMMA QueueStep ==
  ASSUME PlainLen # 0, FrameIInv, [FramesNext]_frameVars
  PROVE  [Queue!QueueNext]_(Queue!queueVars)
<1>1. FrameIInv'
  BY FrameNextKeeps
<1>2. /\ sizes \in Seq(Nat) /\ sizes' \in Seq(Nat)
      /\ FrameTypeOK /\ FrameTypeOK'
  BY <1>1 DEF FrameIInv, FrameTypeOK
<1> DEFINE O == [i \in DOMAIN sizes |-> DataOf(i)]
           P == [i \in DOMAIN sizes' |-> Part(i, "data", sizes'[i])]
           T == [i \in Given |-> got[i].bytes]
<1>3. O = DataOfAll(sizes) /\ P = DataOfAll(sizes')
  BY <1>2 DEF DataOf, DataOfAll
<1>4. /\ O \in Seq(Seq(Bytes)) /\ Len(O) = Len(sizes) /\ Len(sizes) \in Nat
      /\ \A i \in 1 .. Len(sizes) : O[i] = Part(i, "data", sizes[i])
  BY <1>2, <1>3, DataOfAllSeq, SeqFacts
<1>5. /\ P \in Seq(Seq(Bytes)) /\ Len(P) = Len(sizes') /\ Len(sizes') \in Nat
      /\ \A i \in 1 .. Len(sizes') : P[i] = Part(i, "data", sizes'[i])
  BY <1>2, <1>3, DataOfAllSeq, SeqFacts
<1>6. O' = P
  BY DEF DataOf
<1>7. ASSUME split, split' PROVE Queue!QueueNext
  BY <1>7 DEF Queue!QueueNext, Queue!Broken
<1>8. ASSUME NEW n \in Lengths, Send(n) PROVE [Queue!QueueNext]_(Queue!queueVars)
  <2>1. /\ Len(sizes') = Len(sizes) + 1
        /\ \A i \in 1 .. Len(sizes) : sizes'[i] = sizes[i]
        /\ UNCHANGED <<got, split>>
    BY <1>8, SendTyped DEF Current, Send, recvVars
  <2>2. Len(P) = Len(O) + 1 /\ \A i \in 1 .. Len(O) : P[i] = O[i]
    <3>1. \A i \in 1 .. Len(sizes) : i \in 1 .. Len(sizes')
      BY <1>4, <2>1
    <3>2. QED
      BY <1>4, <1>5, <2>1, <3>1
  <2>3. Front(P) = O /\ P # <<>>
    BY <1>4, <1>5, <2>2, FrontAgain
  <2>4. Given' = Given /\ T' = T
    BY <2>1 DEF Given, Whole
  <2>5. O' # <<>> /\ Front(O') = O
    BY <1>6, <2>3
  <2>6. T' = T /\ split' = split
    BY <2>1, <2>4
  <2>7. Queue!Offer
    BY <2>5, <2>6 DEF Queue!Offer, Queue!Front, Front
  <2>8. QED
    BY <2>7 DEF Queue!QueueNext
<1>9. ASSUME SendTimesOut, ~split PROVE [Queue!QueueNext]_(Queue!queueVars)
  <2>1. spc = "select" /\ sizes' = Front(sizes) /\ UNCHANGED <<got, split>> /\ sizes # <<>>
    BY <1>9 DEF SendTimesOut, recvVars, FrameIInv, Sending
  <2>2. PICK n \in Nat : n \in 0 .. Len(got) /\ n < Len(sizes) /\ Given = 1 .. n
    BY <1>9, <2>1 DEF FrameIInv, Delivers, GivenOf, Current
  <2>3. T = BytesOf(got, n)
    BY <2>2 DEF BytesOf
  <2>4. Len(T) = n
    BY <1>2, <2>2, <2>3, BytesOfSeq DEF FrameTypeOK
  <2>5. Len(sizes) = Len(sizes') + 1 /\ \A i \in 1 .. Len(sizes') : sizes'[i] = sizes[i]
    <3>1. PICK c \in Nat \ {0} : c = Len(sizes) /\ DOMAIN sizes = 1 .. c
      BY <1>2, <2>1, SeqFacts
    <3>2. \A i \in 1 .. (c - 1) : sizes[i] \in Nat
      <4>1. \A i \in 1 .. (c - 1) : i \in 1 .. c
        OBVIOUS
      <4>2. QED
        BY <1>2, <3>1, <4>1, SeqFacts
    <3>3. PICK m \in Nat : m = c - 1
      BY <3>1
    <3>4. sizes' = SubSeq(sizes, 1, m)
      BY <2>1, <3>1, <3>3 DEF Front
    <3>5. Len(sizes') = m /\ \A i \in 1 .. m : sizes'[i] = sizes[i]
      <4>1. m - 1 + 1 = m /\ (1 <= m \/ m = 0) /\ 1 \in Int /\ m \in Int
            /\ \A i \in 1 .. m : 1 + i - 1 = i
        OBVIOUS
      <4>2. QED
        BY <3>2, <3>3, <3>4, <4>1, SubSeqProperties
    <3>6. QED
      BY <3>1, <3>3, <3>5
  <2>6. Len(O) = Len(P) + 1 /\ \A i \in 1 .. Len(P) : O[i] = P[i]
    <3>1. \A i \in 1 .. Len(sizes') : i \in 1 .. Len(sizes)
      BY <1>4, <1>5, <2>5
    <3>2. QED
      BY <1>4, <1>5, <2>5, <3>1
  <2>7. Front(O) = P
    BY <1>4, <1>5, <2>6, FrontAgain
  <2>8. Given' = Given /\ T' = T
    BY <2>1 DEF Given, Whole
  <2>9. Len(T) < Len(O)
    BY <1>4, <2>2, <2>4
  <2>10. O' = Front(O)
    BY <1>6, <2>7
  <2>11. T' = T /\ split' = split
    BY <2>1, <2>8
  <2>12. Queue!Withdraw
    BY <2>9, <2>10, <2>11 DEF Queue!Withdraw, Queue!Front, Front
  <2>13. QED
    BY <2>12 DEF Queue!QueueNext
<1>10. ASSUME SendHeader, ~split PROVE [Queue!QueueNext]_(Queue!queueVars)
  <2>1. UNCHANGED <<sizes, got>> /\ split' \in BOOLEAN
    BY <1>1, <1>10 DEF SendHeader, recvVars, FrameIInv, FrameTypeOK
  <2>2. CASE ~split'
    <3>1. split' = split
      BY <1>10, <2>1, <2>2, <1>2 DEF FrameTypeOK
    <3>2. QED
      BY <2>1, <3>1, QueueStays
  <2>3. CASE split'
    <3>1. P = O
      BY <2>1 DEF DataOf
    <3>2. Given' = Given /\ T' = T
      BY <2>1 DEF Given, Whole
    <3>3. split' = TRUE
      BY <2>1, <2>3
    <3>4. Queue!Break
      BY <1>6, <1>10, <3>1, <3>2, <3>3 DEF Queue!Break
    <3>5. QED
      BY <3>4 DEF Queue!QueueNext
  <2>4. QED
    BY <2>2, <2>3
<1>11. ASSUME RecvData, ~split PROVE [Queue!QueueNext]_(Queue!queueVars)
  <2>1. PICK n \in 0..rsize :
          /\ n <= Len(chan)
          /\ got' = Append(got, [size |-> rsize, bytes |-> Take(chan, n)])
    <3>1. Len(chan) \in Nat /\ rsize \in Nat
      BY <1>2, SeqFacts DEF FrameTypeOK
    <3>2. QED
      BY <1>11, <3>1 DEF RecvData
  <2>2. UNCHANGED <<sizes, split>> /\ rpc = "data"
    BY <1>11 DEF RecvData, sendVars
  <2>3. /\ ~Told /\ Len(got) \in Nat /\ rsize \in Nat /\ n \in Nat /\ chan \in Seq(Bytes)
        /\ Len(chan) \in Nat
    <3>1. ~Told /\ chan \in Seq(Bytes) /\ rsize \in Nat
      BY <1>2, <2>2 DEF FrameIInv, Asking, FrameTypeOK
    <3>2. Len(got) \in Nat
      BY <1>2, SeqFacts DEF FrameTypeOK
    <3>3. QED
      BY <3>1, <3>2, SeqFacts
  <2>4. PICK m \in Nat : m = Len(got) /\ Given = 1 .. m /\ m <= Len(sizes)
    BY <1>11, <2>3 DEF FrameIInv, Delivers, GivenOf, Current
  <2>5. n \in 0 .. Len(chan)
    BY <2>1, <2>3
  <2>6. PICK b \in Seq(Bytes) : b = Take(chan, n) /\ Len(b) = n
    BY <2>3, <2>5, TakeProps
  <2>7. PICK g \in [size : Nat, bytes : Seq(Bytes)] :
          g = [size |-> rsize, bytes |-> b] /\ g.bytes = b /\ (Whole(g) <=> n = rsize)
    <3>1. PICK g : g = [size |-> rsize, bytes |-> b]
      OBVIOUS
    <3>2. g \in [size : Nat, bytes : Seq(Bytes)] /\ g.size = rsize /\ g.bytes = b
      BY <2>3, <3>1
    <3>3. QED
      BY <2>6, <3>1, <3>2 DEF Whole
  <2>8. got' = Append(got, g)
    BY <2>1, <2>6, <2>7
  <2>9. /\ got' \in Seq([size : Nat, bytes : Seq(Bytes)]) /\ Len(got') = m + 1
        /\ \A i \in 1 .. m : got'[i] = got[i]
        /\ got'[m + 1] = g
        /\ ~Whole(g) => Given' = Given
        /\ Whole(g) => Given' = 1 .. (m + 1)
    BY <1>2, <2>4, <2>8, OneGiven
  <2>10. O' = O
    BY <2>2 DEF DataOf
  <2>11. CASE n # rsize
    <3>1. Given' = Given
      BY <2>7, <2>9, <2>11
    <3>2. T' = T
      BY <2>4, <2>9, <3>1
    <3>3. UNCHANGED Queue!queueVars
      BY <2>2, <2>10, <3>2 DEF Queue!queueVars
    <3>4. QED
      BY <3>3
  <2>12. CASE n = rsize
    <3>1. Given' = 1 .. (m + 1)
      BY <2>7, <2>9, <2>12
    <3>2. T = BytesOf(got, m) /\ T' = BytesOf(got', m + 1)
      BY <2>4, <3>1 DEF BytesOf
    <3>3. PICK t, z : t = T /\ z = T'
      OBVIOUS
    <3>4. /\ t \in Seq(Seq(Bytes)) /\ Len(t) = m /\ \A i \in 1 .. m : t[i] = got[i].bytes
      <4>1. t = BytesOf(got, m) /\ m \in 0 .. Len(got)
        BY <2>4, <3>2, <3>3
      <4>2. got \in Seq([size : Nat, bytes : Seq(Bytes)])
        BY <1>2 DEF FrameTypeOK
      <4>3. QED
        BY <4>1, <4>2, BytesOfSeq
    <3>12. /\ z \in Seq(Seq(Bytes)) /\ Len(z) = m + 1
           /\ \A i \in 1 .. (m + 1) : z[i] = got'[i].bytes
      <4>1. z = BytesOf(got', m + 1) /\ m + 1 \in 0 .. Len(got')
        BY <2>9, <3>2, <3>3
      <4>2. QED
        BY <2>9, <4>1, BytesOfSeq
    <3>5. /\ m + 1 \in DOMAIN sizes /\ b = DataOf(m + 1)
      BY <1>11, <2>1, <2>2, <2>4, <2>6, <2>12, DataTaken DEF Receiving
    <3>6. m + 1 \in 1 .. Len(sizes) /\ m < Len(sizes)
      BY <1>2, <1>4, <3>5, SeqFacts
    <3>7. O[m + 1] = b
      BY <1>4, <3>5, <3>6 DEF DataOf
    <3>8. T' = Append(T, O[m + 1])
      <4>1. PICK a : a = Append(t, b)
        OBVIOUS
      <4>2. /\ a \in Seq(Seq(Bytes)) /\ Len(a) = m + 1
            /\ \A i \in 1 .. m : a[i] = t[i]
            /\ a[m + 1] = b
        BY <2>6, <3>4, <4>1, AppendProperties
      <4>3. \A i \in 1 .. (m + 1) : i \in 1 .. m \/ i = m + 1
        OBVIOUS
      <4>4. \A i \in 1 .. (m + 1) : z[i] = a[i]
        <5>1. \A i \in 1 .. m : i \in 1 .. (m + 1) /\ z[i] = got'[i].bytes
          BY <3>12
        <5>2. \A i \in 1 .. m : z[i] = a[i]
          BY <2>9, <3>4, <4>2, <5>1
        <5>3. m + 1 \in 1 .. (m + 1)
          OBVIOUS
        <5>4. z[m + 1] = a[m + 1]
          BY <2>7, <2>9, <3>12, <4>2, <5>3
        <5>5. QED
          BY <4>3, <5>2, <5>4
      <4>5. z = a
        BY <3>12, <4>2, <4>4, SeqEqual
      <4>6. QED
        BY <3>3, <3>7, <4>1, <4>5
    <3>9. Len(T) < Len(O) /\ T' = Append(T, O[Len(T) + 1]) /\ split' = split
      BY <1>4, <2>2, <3>3, <3>4, <3>6, <3>8
    <3>10. Queue!TakeNext
      BY <2>10, <3>9 DEF Queue!TakeNext
    <3>11. QED
      BY <3>10 DEF Queue!QueueNext
  <2>13. QED
    BY <2>11, <2>12
<1>12. ASSUME UNCHANGED <<sizes, got, split>> PROVE [Queue!QueueNext]_(Queue!queueVars)
  BY <1>12, QueueStays
<1>13. split => split' \/ UNCHANGED <<sizes, got, split>>
  BY DEF FramesNext, Send, SendStep, SendReady, SendHeader, SendData, SendReturns, SendTimesOut,
         SendFails, SenderCloses, Recv, RecvStep, RecvReady, RecvHeader, RecvData, RecvTimesOut,
         RecvFails, frameVars
<1>14. CASE split
  BY <1>7, <1>12, <1>13, <1>14
<1>15. CASE ~split
  <2>1. SendReady \/ SendData \/ SendReturns \/ SendFails \/ SenderCloses
        \/ Recv \/ RecvReady \/ RecvHeader \/ RecvTimesOut \/ RecvFails \/ UNCHANGED frameVars
          => UNCHANGED <<sizes, got, split>>
    BY DEF SendReady, SendData, SendReturns, SendFails, SenderCloses, Recv, RecvReady, RecvHeader,
           RecvTimesOut, RecvFails, frameVars, sendVars, recvVars
  <2>2. QED
    BY <1>8, <1>9, <1>10, <1>11, <1>12, <1>15, <2>1 DEF FramesNext, SendStep, RecvStep
<1>16. QED
  BY <1>14, <1>15

LEMMA QueueBegins ==
  ASSUME PlainLen # 0, FramesInit
  PROVE  Queue!QueueInit
<1>1. sizes = <<>> /\ got = <<>> /\ split = FALSE
  BY DEF FramesInit
<1>2. DOMAIN sizes = {} /\ DOMAIN got = {}
  BY <1>1
<1>3. [i \in {} |-> DataOf(i)] = <<>> /\ [i \in {} |-> got[i].bytes] = <<>>
  OBVIOUS
<1>4. Given = {}
  BY <1>2 DEF Given
<1>5. QED
  BY <1>1, <1>2, <1>3, <1>4 DEF Queue!QueueInit

\* Whatever the protocol, the lengths, the channel and the timeouts, and
\* wherever a call times out, fails or comes short: what recv gives as whole is
\* what send was given, each transfer once and in order, until ::send takes a
\* header in part (sockstream.cpp:478-711).  A plain transfer of no bytes is
\* left out: its recv is satisfied by nothing at all.
THEOREM FramesAreQueue ==
  ASSUME PlainLen # 0
  PROVE  FramesSpec => RefinesMessageQueue
<1>1. FramesInit => FrameIInv
  BY FrameInitHolds
<1>2. FrameIInv /\ [FramesNext]_frameVars => FrameIInv'
  BY FrameNextKeeps
<1>3. FramesInit => Queue!QueueInit
  BY QueueBegins
<1>4. FrameIInv /\ [FramesNext]_frameVars => [Queue!QueueNext]_(Queue!queueVars)
  BY QueueStep
<1>5. QED
  BY <1>1, <1>2, <1>3, <1>4, PTL DEF FramesSpec, RefinesMessageQueue, Queue!QueueSpec
=============================================================================
