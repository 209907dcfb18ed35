--------------------------- MODULE ProcessProofs ---------------------------
(***************************************************************************)
(* Theorems about the classes that make processes: the pipe streams        *)
(* (PipeStream), for any streams and number of processes, and the Fork     *)
(* class (ForkProcess), for any children.                                  *)
(***************************************************************************)
EXTENDS PipeStream, ForkProcess, SequenceTheorems, TLAPS

(***************************************************************************)
(* PART I.  The pipe streams: however they are opened, forked and deleted, *)
(* who holds which end is what pid() says, and no process waits for itself.*)
(***************************************************************************)

(***************************************************************************)
(* The inductive invariant.  A process that has not been started has       *)
(* nothing; nobody holds an end of a stream that has not been opened; a    *)
(* child has copies of open streams only, and never of a pair, because     *)
(* every pair is in the chain; and the processes that iopipestream::fork   *)
(* made know each other.                                                   *)
(***************************************************************************)

NotStarted ==
  /\ \A p \in Procs : p > started =>
       /\ objects[p] = {} /\ reads[p] = {}
       /\ \A s \in Streams : cpid[p][s] = -1
  /\ \A h \in holds : h[1] <= started

NotOpened == \A h \in holds : kind[h[2]] # "none"

ObjectKinds ==
  /\ \A s \in objects[Program] : kind[s] \in {"command", "pair", "forked"}
  /\ \A p \in Procs \ {Program} :
       \A s \in objects[p] : kind[s] \in {"command", "forked"}

ChainIsPairs == ToSet(chain) = {s \in Streams : kind[s] = "pair"}

Parents ==
  \A s \in Streams :
    /\ kind[s] = "forked" =>
         /\ cpid[Program][s] \in 1..started
         /\ \A q \in Procs : cpid[q][s] = 0 <=> q = cpid[Program][s]
    /\ kind[s] # "forked" => \A p \in Procs : cpid[p][s] = -1

\* The ends that a process with a copy of a stream holds.
HoldsItsEnds(p, s) ==
  \A e \in {0, 1} :
    <<p, s, e>> \in holds <=>
      \/ kind[s] = "pair"
      \/ kind[s] = "command" /\ e = 1
      \/ kind[s] = "forked" /\ cpid[p][s] = 0 /\ e = 1
      \/ kind[s] = "forked" /\ cpid[p][s] # 0 /\ e = 0

EndsHeld ==
  \A p \in {Program} \cup running : \A s \in objects[p] : HoldsItsEnds(p, s)

PipeIInv ==
  /\ PipeTypeOK /\ NotStarted /\ NotOpened /\ ObjectKinds /\ ChainIsPairs
  /\ Parents /\ EndsHeld /\ NoSelfWait

LEMMA ProcFacts ==
  ASSUME PipeTypeOK
  PROVE  /\ Program \in Procs /\ started \in Nat /\ MaxProcs \in Nat
         /\ running \subseteq Procs \ {Program}
         /\ started < MaxProcs =>
              /\ Child \in Procs /\ Child # Program /\ Child > started
              /\ Child \notin running /\ Child \in 1..MaxProcs
BY PipeConstants DEF PipeTypeOK, Procs, Program, Child

\* What is held, by whom: the processes below are those that were started.
LEMMA HeldTriple ==
  ASSUME PipeTypeOK, NEW h \in holds
  PROVE  /\ h[1] \in Procs /\ h[2] \in Streams /\ h[3] \in {0, 1}
         /\ h = <<h[1], h[2], h[3]>>
BY DEF PipeTypeOK

LEMMA ChildInherits ==
  ASSUME PipeTypeOK, NotStarted, started < MaxProcs,
         NEW s \in Streams, NEW e \in {0, 1}
  PROVE  /\ <<Child, s, e>> \in Inherited <=> <<Program, s, e>> \in holds
         /\ <<Child, s, e>> \notin holds
         /\ \A p \in Procs \ {Child} : <<p, s, e>> \notin Inherited
         /\ Inherited \subseteq Procs \X Streams \X {0, 1}
<1>1. Child \in Procs /\ Child > started /\ started \in Nat
  BY ProcFacts
<1>2. <<Child, s, e>> \in Inherited <=> <<Program, s, e>> \in holds
  BY HeldTriple DEF Inherited, HeldBy
<1>3. <<Child, s, e>> \notin holds
  <2>1. SUFFICES ASSUME <<Child, s, e>> \in holds PROVE FALSE
    OBVIOUS
  <2>2. <<Child, s, e>>[1] <= started
    BY <2>1 DEF NotStarted
  <2>3. Child <= started
    BY <2>2
  <2>4. QED
    BY <1>1, <2>3 DEF Child
<1>4. Inherited \subseteq Procs \X Streams \X {0, 1}
  BY <1>1, HeldTriple DEF Inherited, HeldBy
<1>5. \A p \in Procs \ {Child} : <<p, s, e>> \notin Inherited
  BY DEF Inherited
<1>6. QED
  BY <1>2, <1>3, <1>4, <1>5

\* A stream that has not been opened has no object, no end and no child.
LEMMA Fresh ==
  ASSUME PipeIInv, NEW s \in Streams, kind[s] = "none"
  PROVE  /\ \A p, e : <<p, s, e>> \notin holds
         /\ \A p \in Procs : s \notin objects[p] /\ cpid[p][s] = -1
         /\ s \notin ToSet(chain)
<1>1. ASSUME NEW p, NEW e, <<p, s, e>> \in holds PROVE FALSE
  <2>1. kind[<<p, s, e>>[2]] # "none"
    BY <1>1 DEF PipeIInv, NotOpened
  <2>2. QED
    BY <2>1
<1>2. \A p \in Procs : s \notin objects[p] /\ cpid[p][s] = -1
  BY DEF PipeIInv, ObjectKinds, Parents
<1>3. s \notin ToSet(chain)
  BY DEF PipeIInv, ChainIsPairs
<1>4. QED
  BY <1>1, <1>2, <1>3

LEMMA EndsKept ==
  ASSUME PipeIInv, NEW p \in {Program} \cup running, NEW s \in objects[p],
         kind'[s] = kind[s], cpid'[p][s] = cpid[p][s],
         \A e : <<p, s, e>> \in holds' <=> <<p, s, e>> \in holds
  PROVE  HoldsItsEnds(p, s)'
<1>1. HoldsItsEnds(p, s)
  BY DEF PipeIInv, EndsHeld
<1>2. QED
  BY <1>1 DEF HoldsItsEnds

-----------------------------------------------------------------------------
(***************************************************************************)
(* Each step keeps the invariant.                                          *)
(***************************************************************************)

LEMMA ShutWriteKeeps ==
  ASSUME PipeIInv, NEW s \in Streams, ShutWrite(s)
  PROVE  PipeIInv'
<1>1. UNCHANGED <<kind, objects, cpid, chain, started, running, reads, holds,
                  mixed, undefined>>
  BY DEF ShutWrite
<1>2. PipeTypeOK'
  BY DEF ShutWrite, OwnEnd, PipeIInv, PipeTypeOK
<1>3. QED
  BY <1>1, <1>2 DEF PipeIInv, NotStarted, NotOpened, ObjectKinds, ChainIsPairs,
     Parents, EndsHeld, HoldsItsEnds, NoSelfWait

LEMMA ForkUndefinedKeeps ==
  ASSUME PipeIInv, ForkUndefined
  PROVE  PipeIInv'
<1>1. /\ UNCHANGED <<kind, objects, cpid, chain, started, running, reads, holds,
                     shut, mixed>>
      /\ undefined' \in BOOLEAN
  BY DEF ForkUndefined
<1>2. PipeTypeOK'
  BY <1>1 DEF PipeIInv, PipeTypeOK
<1>3. QED
  BY <1>1, <1>2 DEF PipeIInv, NotStarted, NotOpened, ObjectKinds, ChainIsPairs,
     Parents, EndsHeld, HoldsItsEnds, NoSelfWait

LEMMA ProcessEndsKeeps ==
  ASSUME PipeIInv, NEW p \in Procs, ProcessEnds(p)
  PROVE  PipeIInv'
<1>1. /\ p \in running /\ running' = running \ {p}
      /\ holds' = holds \ HeldBy(p)
      /\ UNCHANGED <<kind, objects, cpid, chain, started, reads, shut, mixed,
                     undefined>>
  BY DEF ProcessEnds
<1>2. PipeTypeOK'
  BY <1>1 DEF PipeIInv, PipeTypeOK
<1>3. p # Program
  BY <1>1, ProcFacts DEF PipeIInv
<1>4. \A q, s, e : q # p => (<<q, s, e>> \in holds' <=> <<q, s, e>> \in holds)
  BY <1>1 DEF HeldBy
<1>5. NotStarted' /\ NotOpened'
  BY <1>1 DEF PipeIInv, NotStarted, NotOpened
<1>6. ObjectKinds' /\ ChainIsPairs' /\ Parents'
  BY <1>1 DEF PipeIInv, ObjectKinds, ChainIsPairs, Parents
<1>7. EndsHeld'
  <2>1. SUFFICES ASSUME NEW q \in ({Program} \cup running'), NEW t \in objects'[q]
                 PROVE  HoldsItsEnds(q, t)'
    BY DEF EndsHeld
  <2>2. q \in {Program} \cup running /\ q # p /\ t \in objects[q]
    BY <1>1, <1>3
  <2>3. QED
    BY <1>1, <1>4, <2>2, EndsKept
<1>8. NoSelfWait'
  BY <1>1 DEF PipeIInv, NoSelfWait
<1>9. QED
  BY <1>2, <1>5, <1>6, <1>7, <1>8 DEF PipeIInv

\* The program gives up its end of a stream together with its object.
LEMMA DestroyKeeps ==
  ASSUME PipeIInv, NEW s \in Streams, Destroy(s)
  PROVE  PipeIInv'
<1>1. /\ objects' = [objects EXCEPT ![Program] = objects[Program] \ {s}]
      /\ holds' = holds \ DestroyCloses(s)
      /\ UNCHANGED <<kind, cpid, chain, started, running, reads, shut, mixed,
                     undefined>>
  BY DEF Destroy
<1>2. Program \in Procs /\ running \subseteq Procs \ {Program}
  BY ProcFacts DEF PipeIInv
<1>3. /\ objects' \in [Procs -> SUBSET Streams]
      /\ objects'[Program] = objects[Program] \ {s}
      /\ \A q \in Procs \ {Program} : objects'[q] = objects[q]
  BY <1>1, <1>2 DEF PipeIInv, PipeTypeOK
<1>4. PipeTypeOK'
  BY <1>1, <1>3 DEF PipeIInv, PipeTypeOK
<1>5. \A q, t, e : (q # Program \/ t # s) =>
        (<<q, t, e>> \in holds' <=> <<q, t, e>> \in holds)
  BY <1>1 DEF DestroyCloses
<1>6. holds' \subseteq holds
  BY <1>1
<1>7. NotStarted'
  BY <1>1, <1>2, <1>3, <1>6 DEF PipeIInv, NotStarted
<1>8. NotOpened' /\ ChainIsPairs' /\ Parents'
  BY <1>1, <1>6 DEF PipeIInv, NotOpened, ChainIsPairs, Parents
<1>9. ObjectKinds'
  BY <1>1, <1>2, <1>3 DEF PipeIInv, ObjectKinds
<1>10. EndsHeld'
  <2>1. SUFFICES ASSUME NEW q \in ({Program} \cup running'), NEW t \in objects'[q]
                 PROVE  HoldsItsEnds(q, t)'
    BY DEF EndsHeld
  <2>2. q \in {Program} \cup running /\ t \in objects[q] /\ (q # Program \/ t # s)
    BY <1>1, <1>2, <1>3
  <2>3. QED
    BY <1>1, <1>5, <2>2, EndsKept
<1>11. NoSelfWait'
  BY <1>1, <1>6 DEF PipeIInv, NoSelfWait
<1>12. QED
  BY <1>4, <1>7, <1>8, <1>9, <1>10, <1>11 DEF PipeIInv

\* A stream is opened: its kind is set, and nothing of the others changes.
LEMMA KindsOpened ==
  ASSUME PipeIInv, NEW s \in Streams, kind[s] = "none",
         NEW k \in {"command", "pair", "failed"}, kind' = [kind EXCEPT ![s] = k]
  PROVE  /\ kind' \in [Streams -> {"none", "command", "pair", "forked", "failed"}]
         /\ kind'[s] = k
         /\ \A t \in Streams \ {s} : kind'[t] = kind[t]
BY DEF PipeIInv, PipeTypeOK

LEMMA OpenCommandFailsKeeps ==
  ASSUME PipeIInv, NEW s \in Streams, OpenCommandFails(s)
  PROVE  PipeIInv'
<1>1. /\ kind[s] = "none" /\ kind' = [kind EXCEPT ![s] = "failed"]
      /\ holds' = holds \cup BothEnds(Program, s)
      /\ UNCHANGED <<objects, cpid, chain, started, running, reads, shut, mixed,
                     undefined>>
  BY DEF OpenCommandFails
<1>2. Program \in Procs /\ running \subseteq Procs \ {Program} /\ started \in Nat
  BY ProcFacts DEF PipeIInv
<1>3. /\ kind' \in [Streams -> {"none", "command", "pair", "forked", "failed"}]
      /\ kind'[s] = "failed"
      /\ \A t \in Streams \ {s} : kind'[t] = kind[t]
  BY <1>1, KindsOpened
<1>4. /\ \A p \in Procs : s \notin objects[p] /\ cpid[p][s] = -1
      /\ s \notin ToSet(chain)
  BY <1>1, Fresh
<1>5. \A q, t, e : (q # Program \/ t # s) =>
        (<<q, t, e>> \in holds' <=> <<q, t, e>> \in holds)
  BY <1>1 DEF BothEnds
<1>6. PipeTypeOK'
  BY <1>1, <1>2, <1>3 DEF PipeIInv, PipeTypeOK, BothEnds
<1>7. NotStarted'
  BY <1>1, <1>2 DEF PipeIInv, NotStarted, BothEnds, Program
<1>8. NotOpened'
  <2>1. SUFFICES ASSUME NEW h \in holds' PROVE kind'[h[2]] # "none"
    BY DEF NotOpened
  <2>2. CASE h \in BothEnds(Program, s)
    BY <1>3, <2>2 DEF BothEnds
  <2>3. CASE h \in holds
    <3>1. h[2] \in Streams /\ kind[h[2]] # "none"
      BY <2>3, HeldTriple DEF PipeIInv, NotOpened
    <3>2. QED
      BY <1>3, <3>1
  <2>4. QED
    BY <1>1, <2>1, <2>2, <2>3
<1>9. ObjectKinds'
  <2>1. \A p \in Procs : \A t \in objects[p] : t \in Streams \ {s}
    BY <1>4 DEF PipeIInv, PipeTypeOK
  <2>2. QED
    BY <1>1, <1>2, <1>3, <2>1 DEF PipeIInv, ObjectKinds
<1>10. ChainIsPairs'
  BY <1>1, <1>3 DEF PipeIInv, ChainIsPairs
<1>11. Parents'
  BY <1>1, <1>3, <1>4 DEF PipeIInv, Parents
<1>12. EndsHeld'
  <2>1. SUFFICES ASSUME NEW q \in ({Program} \cup running'), NEW t \in objects'[q]
                 PROVE  HoldsItsEnds(q, t)'
    BY DEF EndsHeld
  <2>2. q \in {Program} \cup running /\ q \in Procs /\ t \in objects[q]
    BY <1>1, <1>2
  <2>3. t \in Streams /\ t # s
    BY <1>4, <2>2 DEF PipeIInv, PipeTypeOK
  <2>4. QED
    BY <1>1, <1>3, <1>5, <2>2, <2>3, EndsKept
<1>13. NoSelfWait'
  BY <1>1, <1>2, <1>5 DEF PipeIInv, NoSelfWait
<1>14. QED
  BY <1>6, <1>7, <1>8, <1>9, <1>10, <1>11, <1>12, <1>13 DEF PipeIInv

LEMMA Prepended ==
  ASSUME NEW S, NEW q \in Seq(S), NEW s \in S
  PROVE  /\ <<s>> \o q \in Seq(S)
         /\ ToSet(<<s>> \o q) = {s} \cup ToSet(q)
<1>1. PICK r \in Seq(S) : r = <<s>> /\ Len(r) = 1 /\ r[1] = s
  <2>1. <<s>> \in Seq(S) /\ Len(<<s>>) = 1 /\ <<s>>[1] = s
    OBVIOUS
  <2>2. QED
    BY <2>1, Zenon
<1>2. /\ r \o q \in Seq(S) /\ Len(r \o q) = 1 + Len(q)
      /\ \A i \in 1..(1 + Len(q)) : (r \o q)[i] = IF i <= 1 THEN r[i] ELSE q[i - 1]
  BY <1>1, ConcatProperties
<1>3. PICK c \in Seq(S) :
        /\ c = r \o q /\ DOMAIN c = 1..(1 + Len(q)) /\ c[1] = s
        /\ \A i \in 1..Len(q) : c[i + 1] = q[i]
  <2>1. Len(q) \in Nat /\ DOMAIN (r \o q) = 1..(1 + Len(q))
    BY <1>2, LenProperties
  <2>2. \A i \in 1..Len(q) : i + 1 \in 1..(1 + Len(q)) /\ (i + 1) - 1 = i /\ ~(i + 1 <= 1)
    BY <2>1
  <2>3. (r \o q)[1] = s /\ \A i \in 1..Len(q) : (r \o q)[i + 1] = q[i]
    BY <1>1, <1>2, <2>1, <2>2
  <2>4. QED
    BY <1>2, <2>1, <2>3
<1>4. Len(q) \in Nat /\ DOMAIN q = 1..Len(q)
  BY LenProperties
<1>5. ToSet(c) = {s} \cup ToSet(q)
  <2>1. ASSUME NEW x \in ToSet(c) PROVE x \in {s} \cup ToSet(q)
    <3>1. PICK i \in 1..(1 + Len(q)) : x = c[i]
      BY <1>3 DEF ToSet
    <3>2. CASE i = 1
      BY <1>3, <3>1, <3>2
    <3>3. CASE i # 1
      <4>1. i - 1 \in 1..Len(q) /\ (i - 1) + 1 = i
        BY <1>4, <3>3
      <4>2. c[i] = q[i - 1]
        BY <1>3, <4>1
      <4>3. QED
        BY <1>4, <3>1, <4>1, <4>2 DEF ToSet
    <3>4. QED
      BY <3>2, <3>3
  <2>2. ASSUME NEW x \in ToSet(q) PROVE x \in ToSet(c)
    <3>1. PICK i \in 1..Len(q) : x = q[i]
      BY <1>4 DEF ToSet
    <3>2. i + 1 \in 1..(1 + Len(q)) /\ c[i + 1] = x
      BY <1>3, <1>4, <3>1
    <3>3. QED
      BY <1>3, <3>2 DEF ToSet
  <2>3. s \in ToSet(c)
    <3>1. 1 \in 1..(1 + Len(q))
      BY <1>4
    <3>2. QED
      BY <1>3, <3>1 DEF ToSet
  <2>4. QED
    BY <2>1, <2>2, <2>3
<1>6. QED
  BY <1>1, <1>3, <1>5

\* The new pair is at the head of the chain.
LEMMA NewPairKeeps ==
  ASSUME PipeIInv, NEW s \in Streams, NewPair(s)
  PROVE  PipeIInv'
<1>1. /\ kind[s] = "none" /\ kind' = [kind EXCEPT ![s] = "pair"]
      /\ objects' = [objects EXCEPT ![Program] = objects[Program] \cup {s}]
      /\ holds' = holds \cup BothEnds(Program, s)
      /\ chain' = <<s>> \o chain
      /\ UNCHANGED <<cpid, started, running, reads, shut, mixed, undefined>>
  BY DEF NewPair
<1>2. Program \in Procs /\ running \subseteq Procs \ {Program} /\ started \in Nat
  BY ProcFacts DEF PipeIInv
<1>3. /\ kind' \in [Streams -> {"none", "command", "pair", "forked", "failed"}]
      /\ kind'[s] = "pair"
      /\ \A t \in Streams \ {s} : kind'[t] = kind[t]
  BY <1>1, KindsOpened
<1>4. /\ \A p \in Procs : s \notin objects[p] /\ cpid[p][s] = -1
      /\ s \notin ToSet(chain)
  BY <1>1, Fresh
<1>5. \A q, t, e : (q # Program \/ t # s) =>
        (<<q, t, e>> \in holds' <=> <<q, t, e>> \in holds)
  BY <1>1 DEF BothEnds
<1>6. /\ objects' \in [Procs -> SUBSET Streams]
      /\ objects'[Program] = objects[Program] \cup {s}
      /\ \A q \in Procs \ {Program} : objects'[q] = objects[q]
  BY <1>1, <1>2 DEF PipeIInv, PipeTypeOK
<1>7. chain' \in Seq(Streams) /\ ToSet(chain') = {s} \cup ToSet(chain)
  BY <1>1, Prepended DEF PipeIInv, PipeTypeOK
<1>8. PipeTypeOK'
  <2>1. BothEnds(Program, s) \subseteq Procs \X Streams \X {0, 1}
    BY <1>2 DEF BothEnds
  <2>2. QED
    BY <1>1, <1>3, <1>6, <1>7, <2>1 DEF PipeIInv, PipeTypeOK
<1>9. NotStarted'
  <2>1. \A h \in holds' : h[1] <= started
    BY <1>1, <1>2 DEF PipeIInv, NotStarted, BothEnds, Program
  <2>2. \A p \in Procs : p > started => p # Program
    BY <1>2 DEF Program
  <2>3. QED
    BY <1>1, <1>6, <2>1, <2>2 DEF PipeIInv, NotStarted
<1>10. NotOpened'
  <2>1. SUFFICES ASSUME NEW h \in holds' PROVE kind'[h[2]] # "none"
    BY DEF NotOpened
  <2>2. CASE h \in BothEnds(Program, s)
    BY <1>3, <2>2 DEF BothEnds
  <2>3. CASE h \in holds
    <3>1. h[2] \in Streams /\ kind[h[2]] # "none"
      BY <2>3, HeldTriple DEF PipeIInv, NotOpened
    <3>2. QED
      BY <1>3, <3>1
  <2>4. QED
    BY <1>1, <2>1, <2>2, <2>3
<1>11. ObjectKinds'
  <2>1. \A p \in Procs : \A t \in objects[p] : t \in Streams \ {s}
    BY <1>4 DEF PipeIInv, PipeTypeOK
  <2>2. QED
    BY <1>2, <1>3, <1>6, <2>1 DEF PipeIInv, ObjectKinds
<1>12. ChainIsPairs'
  BY <1>3, <1>7 DEF PipeIInv, ChainIsPairs
<1>13. Parents'
  BY <1>1, <1>3, <1>4 DEF PipeIInv, Parents
<1>14. EndsHeld'
  <2>1. SUFFICES ASSUME NEW q \in ({Program} \cup running'), NEW t \in objects'[q]
                 PROVE  HoldsItsEnds(q, t)'
    BY DEF EndsHeld
  <2>2. q \in {Program} \cup running /\ q \in Procs
    BY <1>1, <1>2
  <2>3. CASE t = s
    <3>1. q = Program
      BY <1>4, <1>6, <2>2, <2>1, <2>3
    <3>2. \A e \in {0, 1} : <<q, t, e>> \in holds'
      BY <1>1, <2>3, <3>1 DEF BothEnds
    <3>3. QED
      BY <1>3, <2>3, <3>2 DEF HoldsItsEnds
  <2>4. CASE t # s
    <3>1. t \in objects[q] /\ t \in Streams
      BY <1>6, <2>1, <2>2, <2>4 DEF PipeIInv, PipeTypeOK
    <3>2. QED
      BY <1>1, <1>3, <1>5, <2>2, <2>4, <3>1, EndsKept
  <2>5. QED
    BY <2>3, <2>4
<1>15. NoSelfWait'
  BY <1>1, <1>2, <1>5 DEF PipeIInv, NoSelfWait
<1>16. QED
  BY <1>8, <1>9, <1>10, <1>11, <1>12, <1>13, <1>14, <1>15 DEF PipeIInv

\* The command has its own end and copies of what the program had before.
LEMMA OpenCommandKeeps ==
  ASSUME PipeIInv, NEW s \in Streams, NEW mode, OpenCommand(s, mode)
  PROVE  PipeIInv'
<1>1. /\ kind[s] = "none" /\ started < MaxProcs
      /\ kind' = [kind EXCEPT ![s] = "command"]
      /\ objects' = [objects EXCEPT ![Program] = objects[Program] \cup {s}]
      /\ started' = Child /\ running' = running \cup {Child}
      /\ reads' = [reads EXCEPT ![Child] = IF "out" \in mode THEN {<<s, 0>>} ELSE {}]
      /\ holds' = holds \cup Inherited \cup {<<Child, s, 0>>} \cup {<<Program, s, 1>>}
      /\ shut' \subseteq shut \cup {<<s, 1>>}
      /\ mixed' \in BOOLEAN
      /\ UNCHANGED <<cpid, chain, undefined>>
  BY DEF OpenCommand, Starts, CommandKeeps
<1>2. /\ Program \in Procs /\ running \subseteq Procs \ {Program} /\ started \in Nat
      /\ Child \in Procs /\ Child # Program /\ Child > started
      /\ Child \notin running /\ Child \in 1..MaxProcs
  BY <1>1, ProcFacts DEF PipeIInv
<1>3. /\ kind' \in [Streams -> {"none", "command", "pair", "forked", "failed"}]
      /\ kind'[s] = "command"
      /\ \A t \in Streams \ {s} : kind'[t] = kind[t]
  BY <1>1, KindsOpened
<1>4. /\ \A p \in Procs : s \notin objects[p] /\ cpid[p][s] = -1
      /\ s \notin ToSet(chain)
      /\ \A p, e : <<p, s, e>> \notin holds
  BY <1>1, Fresh
<1>5. \A q, t, e : (q # Program \/ t # s) /\ q # Child =>
        (<<q, t, e>> \in holds' <=> <<q, t, e>> \in holds)
  BY <1>1 DEF Inherited
<1>6. /\ objects' \in [Procs -> SUBSET Streams]
      /\ objects'[Program] = objects[Program] \cup {s}
      /\ \A q \in Procs \ {Program} : objects'[q] = objects[q]
  BY <1>1, <1>2 DEF PipeIInv, PipeTypeOK
<1>7. objects[Child] = {} /\ \A t \in Streams : cpid[Child][t] = -1
  BY <1>2 DEF PipeIInv, NotStarted
<1>8. Inherited \subseteq Procs \X Streams \X {0, 1}
  BY <1>2, HeldTriple DEF PipeIInv, Inherited, HeldBy
<1>9. /\ reads' \in [Procs -> SUBSET (Streams \X {0, 1})]
      /\ reads'[Child] \subseteq {<<s, 0>>}
      /\ \A q \in Procs \ {Child} : reads'[q] = reads[q]
  <2>1. (IF "out" \in mode THEN {<<s, 0>>} ELSE {}) \in SUBSET (Streams \X {0, 1})
    OBVIOUS
  <2>2. QED
    BY <1>1, <1>2, <2>1 DEF PipeIInv, PipeTypeOK
<1>10. PipeTypeOK'
  <2>1. holds' \subseteq Procs \X Streams \X {0, 1}
    BY <1>1, <1>2, <1>8 DEF PipeIInv, PipeTypeOK
  <2>2. started' \in 0..MaxProcs /\ running' \subseteq 1..started'
    BY <1>1, <1>2 DEF PipeIInv, PipeTypeOK, Child
  <2>3. shut' \subseteq Streams \X {0, 1}
    BY <1>1 DEF PipeIInv, PipeTypeOK
  <2>4. QED
    BY <1>1, <1>3, <1>6, <1>9, <2>1, <2>2, <2>3 DEF PipeIInv, PipeTypeOK
<1>11. NotStarted'
  <2>1. ASSUME NEW h \in holds' PROVE h[1] <= started'
    <3>1. CASE h \in holds
      <4>1. h[1] \in Nat /\ h[1] <= started
        BY <3>1, HeldTriple DEF PipeIInv, NotStarted, Procs
      <4>2. QED
        BY <1>1, <1>2, <4>1 DEF Child
    <3>2. CASE h \in Inherited \cup {<<Child, s, 0>>} \cup {<<Program, s, 1>>}
      <4>1. h[1] = Child \/ h[1] = Program
        BY <3>2 DEF Inherited
      <4>2. QED
        BY <1>1, <1>2, <4>1 DEF Child, Program
    <3>3. QED
      BY <1>1, <2>1, <3>1, <3>2
  <2>2. ASSUME NEW p \in Procs, p > started'
        PROVE  /\ objects'[p] = {} /\ reads'[p] = {}
               /\ \A t \in Streams : cpid'[p][t] = -1
    <3>1. p > started /\ p # Child /\ p # Program
      BY <1>1, <1>2, <2>2 DEF Child, Program, Procs
    <3>2. QED
      BY <1>1, <1>6, <1>9, <3>1 DEF PipeIInv, NotStarted
  <2>3. QED
    BY <2>1, <2>2 DEF NotStarted
<1>12. NotOpened'
  <2>1. SUFFICES ASSUME NEW h \in holds' PROVE kind'[h[2]] # "none"
    BY DEF NotOpened
  <2>2. CASE h \in {<<Child, s, 0>>} \cup {<<Program, s, 1>>}
    BY <1>3, <2>2
  <2>3. CASE h \in holds
    <3>1. h[2] \in Streams /\ kind[h[2]] # "none"
      BY <2>3, HeldTriple DEF PipeIInv, NotOpened
    <3>2. QED
      BY <1>3, <3>1
  <2>4. CASE h \in Inherited
    <3>1. PICK g \in holds : h = <<Child, g[2], g[3]>>
      BY <2>4 DEF Inherited, HeldBy
    <3>2. g[2] \in Streams /\ kind[g[2]] # "none"
      BY HeldTriple DEF PipeIInv, NotOpened
    <3>3. h[2] = g[2]
      BY <3>1
    <3>4. QED
      BY <1>3, <3>2, <3>3
  <2>5. QED
    BY <1>1, <2>1, <2>2, <2>3, <2>4
<1>13. ObjectKinds'
  <2>1. \A p \in Procs : \A t \in objects[p] : t \in Streams \ {s}
    BY <1>4 DEF PipeIInv, PipeTypeOK
  <2>2. QED
    BY <1>2, <1>3, <1>6, <2>1 DEF PipeIInv, ObjectKinds
<1>14. ChainIsPairs'
  BY <1>1, <1>3, <1>4 DEF PipeIInv, ChainIsPairs
<1>15. Parents'
  <2>1. SUFFICES ASSUME NEW t \in Streams
                 PROVE  /\ kind'[t] = "forked" =>
                             /\ cpid[Program][t] \in 1..started'
                             /\ \A q \in Procs : cpid[q][t] = 0 <=> q = cpid[Program][t]
                        /\ kind'[t] # "forked" => \A p \in Procs : cpid[p][t] = -1
    BY <1>1 DEF Parents
  <2>2. CASE t = s
    BY <1>3, <1>4, <2>2
  <2>3. CASE t # s
    <3>1. 1..started \subseteq 1..started'
      BY <1>1, <1>2 DEF Child
    <3>2. QED
      BY <1>3, <2>3, <3>1 DEF PipeIInv, Parents
  <2>4. QED
    BY <2>2, <2>3
<1>16. EndsHeld'
  <2>1. SUFFICES ASSUME NEW q \in ({Program} \cup running'), NEW t \in objects'[q]
                 PROVE  HoldsItsEnds(q, t)'
    BY DEF EndsHeld
  <2>2. q # Child
    BY <1>2, <1>6, <1>7, <2>1
  <2>3. q \in {Program} \cup running /\ q \in Procs
    BY <1>1, <1>2, <2>2
  <2>4. CASE t = s
    <3>1. q = Program
      BY <1>4, <1>6, <2>3, <2>1, <2>4
    <3>2. <<q, t, 1>> \in holds' /\ <<q, t, 0>> \notin holds'
      BY <1>1, <1>2, <1>4, <2>4, <3>1 DEF Inherited
    <3>3. QED
      BY <1>3, <2>4, <3>2 DEF HoldsItsEnds
  <2>5. CASE t # s
    <3>1. t \in objects[q] /\ t \in Streams
      BY <1>6, <2>1, <2>3, <2>5 DEF PipeIInv, PipeTypeOK
    <3>2. QED
      BY <1>1, <1>3, <1>5, <2>2, <2>3, <2>5, <3>1, EndsKept
  <2>6. QED
    BY <2>4, <2>5
<1>17. NoSelfWait'
  <2>1. SUFFICES ASSUME NEW q \in running', NEW r \in reads'[q]
                 PROVE  <<q, r[1], 1 - r[2]>> \notin holds'
    BY DEF NoSelfWait
  <2>2. CASE q = Child
    <3>1. r = <<s, 0>>
      BY <1>9, <2>1, <2>2
    <3>2. <<Child, s, 1>> \notin Inherited
      BY <1>1, <1>4, ChildInherits DEF PipeIInv
    <3>3. <<Child, s, 1>> \notin holds'
      BY <1>1, <1>2, <1>4, <3>2
    <3>4. QED
      BY <2>2, <3>1, <3>3
  <2>3. CASE q # Child
    <3>1. q \in running /\ q # Program /\ r \in reads[q]
      BY <1>1, <1>2, <1>9, <2>1, <2>3
    <3>2. QED
      BY <1>5, <2>3, <3>1 DEF PipeIInv, NoSelfWait
  <2>4. QED
    BY <2>2, <2>3
<1>18. QED
  BY <1>10, <1>11, <1>12, <1>13, <1>14, <1>15, <1>16, <1>17 DEF PipeIInv

\* fork(): the parent keeps end 0 of every pair, the child end 1, and of the
\* older streams the child has what the parent has.
LEMMA ForkKeeps ==
  ASSUME PipeIInv, Fork
  PROVE  PipeIInv'
<1>. DEFINE walked == ToSet(chain)
<1>1. /\ started < MaxProcs /\ walked \subseteq objects[Program]
      /\ kind' = [s \in Streams |-> IF s \in walked THEN "forked" ELSE kind[s]]
      /\ started' = Child /\ running' = running \cup {Child}
      /\ objects' = [objects EXCEPT ![Child] = objects[Program]]
      /\ reads' = [reads EXCEPT ![Child] = {<<s, 1>> : s \in walked}]
      /\ holds' = (holds \ {<<Program, s, 1>> : s \in walked})
                    \cup (Inherited \ {<<Child, s, 0>> : s \in walked})
      /\ chain' = <<>>
      /\ UNCHANGED <<shut, mixed, undefined>>
  BY DEF Fork, Starts, ChildCloses, ChainLeft
<1>2. cpid' = [cpid EXCEPT
         ![Program] = [s \in Streams |-> IF s \in walked THEN Child
                                         ELSE cpid[Program][s]],
         ![Child] = [s \in Streams |-> IF s \in walked THEN 0
                                       ELSE cpid[Program][s]]]
  BY DEF Fork
<1>3. walked = {s \in Streams : kind[s] = "pair"}
  BY DEF PipeIInv, ChainIsPairs
<1>. HIDE DEF walked
<1>4. /\ Program \in Procs /\ running \subseteq Procs \ {Program} /\ started \in Nat
      /\ Child \in Procs /\ Child # Program /\ Child > started
      /\ Child \notin running /\ Child \in 1..MaxProcs
  BY <1>1, ProcFacts DEF PipeIInv
<1>5. /\ kind' \in [Streams -> {"none", "command", "pair", "forked", "failed"}]
      /\ \A s \in walked : kind[s] = "pair" /\ kind'[s] = "forked" /\ s \in Streams
      /\ \A s \in Streams \ walked : kind'[s] = kind[s] /\ kind[s] # "pair"
  BY <1>1, <1>3 DEF PipeIInv, PipeTypeOK
<1>6. /\ objects' \in [Procs -> SUBSET Streams]
      /\ objects'[Child] = objects[Program]
      /\ \A q \in Procs \ {Child} : objects'[q] = objects[q]
  BY <1>1, <1>4 DEF PipeIInv, PipeTypeOK
<1>7. /\ reads' \in [Procs -> SUBSET (Streams \X {0, 1})]
      /\ reads'[Child] = {<<s, 1>> : s \in walked}
      /\ \A q \in Procs \ {Child} : reads'[q] = reads[q]
  <2>1. {<<s, 1>> : s \in walked} \in SUBSET (Streams \X {0, 1})
    BY <1>3
  <2>2. QED
    BY <1>1, <1>4, <2>1 DEF PipeIInv, PipeTypeOK
<1>8. /\ cpid' \in [Procs -> [Streams -> -1..MaxProcs]]
      /\ \A s \in Streams :
           /\ cpid'[Program][s] = IF s \in walked THEN Child ELSE cpid[Program][s]
           /\ cpid'[Child][s] = IF s \in walked THEN 0 ELSE cpid[Program][s]
           /\ \A q \in Procs \ {Program, Child} : cpid'[q][s] = cpid[q][s]
  <2>1. PICK f, g : /\ f = [s \in Streams |-> IF s \in walked THEN Child
                                               ELSE cpid[Program][s]]
                    /\ g = [s \in Streams |-> IF s \in walked THEN 0
                                               ELSE cpid[Program][s]]
    OBVIOUS
  <2>2. \A s \in Streams : cpid[Program][s] \in -1..MaxProcs
    BY <1>4 DEF PipeIInv, PipeTypeOK
  <2>3. Child \in -1..MaxProcs /\ 0 \in -1..MaxProcs
    BY <1>4, PipeConstants
  <2>4. f \in [Streams -> -1..MaxProcs] /\ g \in [Streams -> -1..MaxProcs]
    BY <2>1, <2>2, <2>3
  <2>5. cpid' = [cpid EXCEPT ![Program] = f, ![Child] = g]
    BY <1>2, <2>1
  <2>6. /\ cpid' \in [Procs -> [Streams -> -1..MaxProcs]]
        /\ cpid'[Program] = f /\ cpid'[Child] = g
        /\ \A q \in Procs \ {Program, Child} : cpid'[q] = cpid[q]
    BY <1>4, <2>4, <2>5 DEF PipeIInv, PipeTypeOK
  <2>7. QED
    BY <2>1, <2>6
<1>9. \A q, t, e : q \notin {Program, Child} =>
        (<<q, t, e>> \in holds' <=> <<q, t, e>> \in holds)
  BY <1>1 DEF Inherited
<1>10. \A t, e : <<Program, t, e>> \in holds' <=>
         <<Program, t, e>> \in holds /\ ~(t \in walked /\ e = 1)
  BY <1>1, <1>4 DEF Inherited
<1>11. \A t \in Streams, e \in {0, 1} : <<Child, t, e>> \in holds' <=>
         <<Program, t, e>> \in holds /\ ~(t \in walked /\ e = 0)
  <2>1. TAKE t \in Streams, e \in {0, 1}
  <2>2. /\ <<Child, t, e>> \in Inherited <=> <<Program, t, e>> \in holds
        /\ <<Child, t, e>> \notin holds
    BY <1>1, ChildInherits DEF PipeIInv
  <2>3. QED
    BY <1>1, <2>2
<1>12. Inherited \subseteq Procs \X Streams \X {0, 1}
  BY <1>4, HeldTriple DEF PipeIInv, Inherited, HeldBy
<1>13. PipeTypeOK'
  <2>1. holds' \subseteq Procs \X Streams \X {0, 1}
    BY <1>1, <1>12 DEF PipeIInv, PipeTypeOK
  <2>2. started' \in 0..MaxProcs /\ running' \subseteq 1..started'
    BY <1>1, <1>4 DEF PipeIInv, PipeTypeOK, Child
  <2>3. chain' \in Seq(Streams)
    BY <1>1
  <2>4. QED
    BY <1>1, <1>5, <1>6, <1>7, <1>8, <2>1, <2>2, <2>3 DEF PipeIInv, PipeTypeOK
<1>14. NotStarted'
  <2>1. ASSUME NEW h \in holds' PROVE h[1] <= started'
    <3>1. CASE h \in holds
      <4>1. h[1] \in Nat /\ h[1] <= started
        BY <3>1, HeldTriple DEF PipeIInv, NotStarted, Procs
      <4>2. QED
        BY <1>1, <1>4, <4>1 DEF Child
    <3>2. CASE h \in Inherited
      <4>1. h[1] = Child
        BY <3>2 DEF Inherited
      <4>2. QED
        BY <1>1, <1>4, <4>1 DEF Child
    <3>3. QED
      BY <1>1, <2>1, <3>1, <3>2
  <2>2. ASSUME NEW p \in Procs, p > started'
        PROVE  /\ objects'[p] = {} /\ reads'[p] = {}
               /\ \A t \in Streams : cpid'[p][t] = -1
    <3>1. p > started /\ p # Child /\ p # Program
      BY <1>1, <1>4, <2>2 DEF Child, Program, Procs
    <3>2. QED
      BY <1>6, <1>7, <1>8, <3>1 DEF PipeIInv, NotStarted
  <2>3. QED
    BY <2>1, <2>2 DEF NotStarted
<1>15. NotOpened'
  <2>1. SUFFICES ASSUME NEW h \in holds' PROVE kind'[h[2]] # "none"
    BY DEF NotOpened
  <2>2. PICK g \in holds : h[2] = g[2]
    <3>1. CASE h \in holds
      BY <3>1
    <3>2. CASE h \in Inherited
      BY <3>2 DEF Inherited, HeldBy
    <3>3. QED
      BY <1>1, <2>1, <3>1, <3>2
  <2>3. g[2] \in Streams /\ kind[g[2]] # "none"
    BY HeldTriple DEF PipeIInv, NotOpened
  <2>4. QED
    BY <1>5, <2>2, <2>3
<1>16. ObjectKinds'
  <2>1. ASSUME NEW p \in Procs, NEW t \in objects'[p]
        PROVE  kind'[t] \in {"command", "forked"}
    <3>1. t \in Streams /\ kind[t] \in {"command", "pair", "forked"}
      BY <1>4, <1>6, <2>1 DEF PipeIInv, PipeTypeOK, ObjectKinds
    <3>2. QED
      BY <1>5, <3>1
  <2>2. QED
    BY <1>4, <2>1 DEF ObjectKinds
<1>17. ChainIsPairs'
  <2>1. ToSet(chain') = {}
    BY <1>1 DEF ToSet
  <2>2. \A s \in Streams : kind'[s] # "pair"
    BY <1>5
  <2>3. QED
    BY <2>1, <2>2 DEF ChainIsPairs
<1>18. Parents'
  <2>1. SUFFICES ASSUME NEW t \in Streams
                 PROVE  /\ kind'[t] = "forked" =>
                             /\ cpid'[Program][t] \in 1..started'
                             /\ \A q \in Procs :
                                  cpid'[q][t] = 0 <=> q = cpid'[Program][t]
                        /\ kind'[t] # "forked" => \A p \in Procs : cpid'[p][t] = -1
    BY DEF Parents
  <2>2. CASE t \in walked
    <3>1. \A q \in Procs : cpid[q][t] = -1
      BY <1>5, <2>2 DEF PipeIInv, Parents
    <3>2. cpid'[Program][t] = Child /\ cpid'[Child][t] = 0
      BY <1>8, <2>2
    <3>3. \A q \in Procs \ {Program, Child} : cpid'[q][t] = -1
      BY <1>8, <3>1
    <3>4. Child \in 1..started' /\ Child # 0
      BY <1>1, <1>4 DEF Program, Child
    <3>5. QED
      BY <1>5, <2>2, <3>2, <3>3, <3>4, <1>4
  <2>3. CASE t \notin walked
    <3>1. /\ \A q \in Procs \ {Child} : cpid'[q][t] = cpid[q][t]
          /\ cpid'[Child][t] = cpid[Program][t]
          /\ kind'[t] = kind[t]
      BY <1>4, <1>5, <1>8, <2>3
    <3>2. CASE kind[t] = "forked"
      <4>1. /\ cpid[Program][t] \in 1..started
            /\ \A q \in Procs : cpid[q][t] = 0 <=> q = cpid[Program][t]
        BY <3>2 DEF PipeIInv, Parents
      <4>2. /\ cpid[Program][t] # 0 /\ Child # cpid[Program][t]
            /\ cpid[Program][t] \in 1..started'
        BY <1>1, <1>4, <4>1 DEF Child
      <4>3. QED
        BY <1>4, <3>1, <3>2, <4>1, <4>2
    <3>3. CASE kind[t] # "forked"
      BY <1>4, <3>1, <3>3 DEF PipeIInv, Parents
    <3>4. QED
      BY <3>2, <3>3
  <2>4. QED
    BY <2>2, <2>3
<1>19. EndsHeld'
  <2>1. SUFFICES ASSUME NEW q \in ({Program} \cup running'), NEW t \in objects'[q]
                 PROVE  HoldsItsEnds(q, t)'
    BY DEF EndsHeld
  <2>2. CASE q \notin {Program, Child}
    <3>1. q \in running /\ q \in Procs /\ t \in objects[q]
      BY <1>1, <1>4, <1>6, <2>1, <2>2
    <3>2. t \in Streams /\ kind'[t] = kind[t] /\ cpid'[q][t] = cpid[q][t]
      <4>1. t \in Streams /\ kind[t] \in {"command", "forked"}
        BY <1>4, <2>2, <3>1 DEF PipeIInv, PipeTypeOK, ObjectKinds
      <4>2. QED
        BY <1>5, <1>8, <2>2, <3>1, <4>1
    <3>3. QED
      BY <1>9, <2>2, <3>1, <3>2, EndsKept
  <2>3. CASE q \in {Program, Child}
    <3>1. t \in objects[Program] /\ t \in Streams
      BY <1>4, <1>6, <2>1, <2>3 DEF PipeIInv, PipeTypeOK
    <3>2. HoldsItsEnds(Program, t)
      BY <3>1 DEF PipeIInv, EndsHeld
    <3>3. CASE t \in walked
      <4>1. kind'[t] = "forked" /\ <<Program, t, 0>> \in holds /\ <<Program, t, 1>> \in holds
        BY <1>5, <3>2, <3>3 DEF HoldsItsEnds
      <4>2. CASE q = Program
        <5>1. cpid'[q][t] # 0
          BY <1>4, <1>8, <3>1, <3>3, <4>2 DEF Program
        <5>2. <<q, t, 0>> \in holds' /\ <<q, t, 1>> \notin holds'
          BY <1>10, <3>3, <4>1, <4>2
        <5>3. QED
          BY <4>1, <5>1, <5>2 DEF HoldsItsEnds
      <4>3. CASE q = Child
        <5>1. cpid'[q][t] = 0
          BY <1>8, <3>1, <3>3, <4>3
        <5>2. <<q, t, 1>> \in holds' /\ <<q, t, 0>> \notin holds'
          BY <1>11, <3>1, <3>3, <4>1, <4>3
        <5>3. QED
          BY <4>1, <5>1, <5>2 DEF HoldsItsEnds
      <4>4. QED
        BY <2>3, <4>2, <4>3
    <3>4. CASE t \notin walked
      <4>1. kind'[t] = kind[t] /\ cpid'[q][t] = cpid[Program][t]
        BY <1>4, <1>5, <1>8, <2>3, <3>1, <3>4
      <4>2. \A e \in {0, 1} : <<q, t, e>> \in holds' <=> <<Program, t, e>> \in holds
        BY <1>10, <1>11, <2>3, <3>1, <3>4
      <4>3. QED
        BY <3>2, <4>1, <4>2 DEF HoldsItsEnds
    <3>5. QED
      BY <3>3, <3>4
  <2>4. QED
    BY <2>2, <2>3
<1>20. NoSelfWait'
  <2>1. SUFFICES ASSUME NEW q \in running', NEW r \in reads'[q]
                 PROVE  <<q, r[1], 1 - r[2]>> \notin holds'
    BY DEF NoSelfWait
  <2>2. CASE q = Child
    <3>1. PICK t \in walked : r = <<t, 1>>
      BY <1>7, <2>1, <2>2
    <3>2. <<Child, t, 0>> \notin holds'
      BY <1>5, <1>11, <3>1
    <3>3. r[1] = t /\ 1 - r[2] = 0
      BY <3>1
    <3>4. QED
      BY <2>2, <3>2, <3>3
  <2>3. CASE q # Child
    <3>1. q \in running /\ q # Program /\ r \in reads[q]
      BY <1>1, <1>4, <1>7, <2>1, <2>3
    <3>2. QED
      BY <1>9, <2>3, <3>1 DEF PipeIInv, NoSelfWait
  <2>4. QED
    BY <2>2, <2>3
<1>21. QED
  BY <1>13, <1>14, <1>15, <1>16, <1>17, <1>18, <1>19, <1>20 DEF PipeIInv

-----------------------------------------------------------------------------
(***************************************************************************)
(* The specification.                                                      *)
(***************************************************************************)

LEMMA PipeStarts ==
  PipeInit => PipeIInv
<1>. SUFFICES ASSUME PipeInit PROVE PipeIInv
  OBVIOUS
<1>1. Program \in Procs /\ 0 \in 0..MaxProcs
  BY PipeConstants DEF Program, Procs
<1>2. PipeTypeOK
  <2>1. -1 \in -1..MaxProcs
    BY PipeConstants
  <2>2. cpid \in [Procs -> [Streams -> -1..MaxProcs]]
    BY <2>1 DEF PipeInit
  <2>3. chain \in Seq(Streams)
    BY DEF PipeInit
  <2>4. started \in 0..MaxProcs /\ running \subseteq 1..started
    BY <1>1 DEF PipeInit
  <2>5. QED
    BY <2>2, <2>3, <2>4 DEF PipeInit, PipeTypeOK
<1>3. NotStarted /\ NotOpened
  BY DEF PipeInit, NotStarted, NotOpened
<1>4. ObjectKinds /\ Parents
  BY <1>1 DEF PipeInit, ObjectKinds, Parents
<1>5. ChainIsPairs
  BY DEF PipeInit, ChainIsPairs, ToSet
<1>6. EndsHeld /\ NoSelfWait
  BY <1>1 DEF PipeInit, EndsHeld, NoSelfWait
<1>7. QED
  BY <1>2, <1>3, <1>4, <1>5, <1>6 DEF PipeIInv

LEMMA PipeStep ==
  PipeIInv /\ [PipeNext]_pipeVars => PipeIInv'
<1>. SUFFICES ASSUME PipeIInv, [PipeNext]_pipeVars PROVE PipeIInv'
  OBVIOUS
<1>1. CASE UNCHANGED pipeVars
  BY <1>1 DEF pipeVars, PipeIInv, PipeTypeOK, NotStarted, NotOpened, ObjectKinds,
     ChainIsPairs, Parents, EndsHeld, HoldsItsEnds, NoSelfWait
<1>2. CASE PipeNext
  <2>1. ASSUME NEW s \in Streams, NEW mode, OpenCommand(s, mode) PROVE PipeIInv'
    BY <2>1, OpenCommandKeeps
  <2>2. ASSUME NEW s \in Streams,
               OpenCommandFails(s) \/ NewPair(s) \/ Destroy(s) \/ ShutWrite(s)
        PROVE  PipeIInv'
    BY <2>2, OpenCommandFailsKeeps, NewPairKeeps, DestroyKeeps, ShutWriteKeeps
  <2>3. CASE Fork \/ ForkUndefined
    BY <2>3, ForkKeeps, ForkUndefinedKeeps
  <2>4. ASSUME NEW p \in Procs, ProcessEnds(p) PROVE PipeIInv'
    BY <2>4, ProcessEndsKeeps
  <2>5. QED
    BY <1>2, <2>1, <2>2, <2>3, <2>4 DEF PipeNext
<1>3. QED
  BY <1>1, <1>2

LEMMA PipeInductive ==
  PipeSpec => []PipeIInv
BY PipeStarts, PipeStep, PTL DEF PipeSpec

LEMMA EndsByPid ==
  PipeIInv => EndsApart
<1>. SUFFICES ASSUME PipeIInv, NEW p \in {Program} \cup running, NEW s \in objects[p]
              PROVE  /\ {e \in {0, 1} : <<p, s, e>> \in holds} = EndsOf(p, s)
                     /\ kind[s] = "forked" /\ p = Program =>
                          {q \in Procs : cpid[q][s] = 0} = {cpid[p][s]}
  BY DEF EndsApart
<1>1. p \in Procs /\ s \in Streams /\ kind[s] \in {"command", "pair", "forked"}
  BY ProcFacts DEF PipeIInv, PipeTypeOK, ObjectKinds
<1>2. HoldsItsEnds(p, s)
  BY DEF PipeIInv, EndsHeld
<1>3. {e \in {0, 1} : <<p, s, e>> \in holds} = EndsOf(p, s)
  <2>1. CASE kind[s] = "pair"
    BY <1>2, <2>1 DEF HoldsItsEnds, EndsOf
  <2>2. CASE kind[s] = "command"
    BY <1>2, <2>2 DEF HoldsItsEnds, EndsOf
  <2>3. CASE kind[s] = "forked"
    BY <1>2, <2>3 DEF HoldsItsEnds, EndsOf
  <2>4. QED
    BY <1>1, <2>1, <2>2, <2>3
<1>4. kind[s] = "forked" /\ p = Program =>
        {q \in Procs : cpid[q][s] = 0} = {cpid[p][s]}
  <2>1. SUFFICES ASSUME kind[s] = "forked", p = Program
                 PROVE  {q \in Procs : cpid[q][s] = 0} = {cpid[p][s]}
    OBVIOUS
  <2>2. /\ cpid[Program][s] \in 1..started
        /\ \A q \in Procs : cpid[q][s] = 0 <=> q = cpid[Program][s]
    BY <1>1, <2>1 DEF PipeIInv, Parents
  <2>3. cpid[Program][s] \in Procs
    <3>1. started \in 0..MaxProcs
      BY DEF PipeIInv, PipeTypeOK
    <3>2. QED
      BY <2>2, <3>1, PipeConstants DEF Procs
  <2>4. QED
    BY <2>1, <2>2, <2>3
<1>5. QED
  BY <1>3, <1>4

\* Every process that has a stream holds the end that its pid() says and not
\* the other (createpipestream and iopipestream::fork, pipestream.cpp:148),
\* whatever was opened, forked, deleted and ended before.
THEOREM PipeEndsApart ==
  PipeSpec => []EndsApart
BY PipeInductive, EndsByPid, PTL

\* No process ever waits for the end of a stream whose other end it holds
\* itself: the child of fork() closes the parent's end (pipestream.cpp:157).
THEOREM PipeNoSelfWait ==
  PipeSpec => []NoSelfWait
<1>1. PipeIInv => NoSelfWait
  BY DEF PipeIInv
<1>2. QED
  BY <1>1, PipeInductive, PTL

(***************************************************************************)
(* PART II.  The Fork class, wherever the signals come.                    *)
(***************************************************************************)

(***************************************************************************)
(* The linked list: what Walked contains, and what taking an object out of *)
(* the list or putting one in does to it.                                  *)
(***************************************************************************)

LEMMA Pointers ==
  ASSUME ForkTypeOK
  PROVE  /\ Nil \notin Kids /\ Unset \notin Kids /\ Nil # Unset
         /\ \A k \in Kids : next[k] \in Kids \cup {Nil}
         /\ list \in Kids \cup {Nil}
BY ForkConstants DEF ForkTypeOK, Nil, Unset

LEMMA WalkedClosed ==
  ASSUME ForkTypeOK, NEW from \in Kids \cup {Nil}
  PROVE  /\ Walked(from, Nil) \subseteq Kids
         /\ from \in Walked(from, Nil) \cup {Nil}
         /\ \A j \in Walked(from, Nil) : next[j] \in Walked(from, Nil) \cup {Nil}
<1>1. Walked(from, Nil) \subseteq Kids
  BY DEF Walked
<1>2. from \in Walked(from, Nil) \cup {Nil}
  <2>1. CASE from = Nil
    BY <2>1
  <2>2. CASE from \in Kids /\ from # Nil
    BY <2>2 DEF Walked
  <2>3. QED
    BY <2>1, <2>2
<1>3. ASSUME NEW j \in Walked(from, Nil), next[j] # Nil
      PROVE  next[j] \in Walked(from, Nil)
  <2>1. next[j] \in Kids
    BY <1>1, <1>3, Pointers
  <2>2. ASSUME NEW S \in SUBSET Kids, from \in S \cup {Nil},
               \A i \in S \ {Nil} : next[i] \in S \cup {Nil}
        PROVE  next[j] \in S
    <3>1. j \in S /\ j # Nil
      BY <1>1, <2>2, Pointers DEF Walked
    <3>2. QED
      BY <1>3, <2>2, <3>1
  <2>3. QED
    BY <2>1, <2>2 DEF Walked
<1>4. QED
  BY <1>1, <1>2, <1>3

LEMMA WalkedLeast ==
  ASSUME NEW from, NEW S \in SUBSET Kids, from \in S \cup {Nil},
         \A j \in S : next[j] \in S \cup {Nil}
  PROVE  Walked(from, Nil) \subseteq S
BY DEF Walked

\* A walk that stops early meets no more than the list.
LEMMA WalkedPart ==
  ASSUME NEW k
  PROVE  Walked(list, k) \subseteq Listed
<1>1. SUFFICES ASSUME NEW j \in Walked(list, k), NEW S \in SUBSET Kids,
                      list \in S \cup {Nil},
                      \A i \in S \ {Nil} : next[i] \in S \cup {Nil}
               PROVE  j \in S
  BY DEF Walked, Listed
<1>2. \A i \in S \ {k} : next[i] \in S \cup {Nil}
  BY <1>1, ForkConstants DEF Nil
<1>3. QED
  BY <1>1, <1>2 DEF Walked

LEMMA WalkedNothing ==
  ASSUME ForkTypeOK
  PROVE  Walked(Nil, Nil) = {}
<1>1. Walked(Nil, Nil) \subseteq {}
  <2>1. {} \in SUBSET Kids /\ Nil \in {} \cup {Nil} /\ \A j \in {} : next[j] \in {} \cup {Nil}
    OBVIOUS
  <2>2. QED
    BY ONLY <2>1, WalkedLeast
<1>2. QED
  BY <1>1

LEMMA WalkedOne ==
  ASSUME ForkTypeOK, NEW from \in Kids
  PROVE  Walked(from, Nil) = {from} \cup Walked(next[from], Nil)
<1>. DEFINE here == Walked(from, Nil)
            rest == Walked(next[from], Nil)
<1>1. /\ here \subseteq Kids /\ from \in here
      /\ \A j \in here : next[j] \in here \cup {Nil}
  BY WalkedClosed, Pointers
<1>2. /\ rest \subseteq Kids /\ next[from] \in rest \cup {Nil}
      /\ \A j \in rest : next[j] \in rest \cup {Nil}
  BY WalkedClosed, Pointers
<1>3. here \subseteq {from} \cup rest
  <2>. DEFINE S == {from} \cup rest
  <2>. HIDE DEF rest
  <2>1. S \in SUBSET Kids /\ from \in S \cup {Nil} /\ \A j \in S : next[j] \in S \cup {Nil}
    BY <1>2
  <2>. HIDE DEF S
  <2>2. here \subseteq S
    BY <2>1, WalkedLeast
  <2>3. QED
    BY <2>2 DEF S
<1>4. rest \subseteq here
  <2>. HIDE DEF here
  <2>1. here \in SUBSET Kids /\ next[from] \in here \cup {Nil}
    BY <1>1
  <2>2. QED
    BY <1>1, <2>1, WalkedLeast
<1>5. QED
  BY <1>1, <1>3, <1>4

LEMMA WalkedFurther ==
  ASSUME ForkTypeOK, NEW from \in Listed \cup {Nil}
  PROVE  Walked(from, Nil) \subseteq Listed
<1>1. /\ Listed \subseteq Kids
      /\ \A j \in Listed : next[j] \in Listed \cup {Nil}
  BY WalkedClosed, Pointers DEF Listed
<1>2. QED
  BY <1>1, WalkedLeast

\* The list is a path: no two objects have the same next, and none has the head.
Path ==
  /\ \A i, j \in Listed : next[i] = next[j] /\ next[i] # Nil => i = j
  /\ \A i \in Listed : list # Nil => next[i] # list

LEMMA UnlinkedNext ==
  ASSUME ForkTypeOK, Path, NEW k \in Listed, Unlink(k)
  PROVE  \A p \in Listed : next'[p] = IF next[p] = k THEN next[k] ELSE next[p]
<1>1. Listed \subseteq Kids /\ Nil \notin Kids
  BY WalkedClosed, Pointers DEF Listed
<1>2. \A p \in Listed : next[p] = k => list # k
  BY <1>1 DEF Path
<1>3. QED
  BY <1>1, <1>2 DEF Unlink

LEMMA UnlinkedWalk ==
  ASSUME ForkTypeOK, ForkTypeOK', Path, NEW k \in Listed, Unlink(k),
         NEW from \in (Listed \ {k}) \cup {Nil}
  PROVE  Walked(from, Nil)' = Walked(from, Nil) \ {k}
<1>. DEFINE old == Walked(from, Nil)
            new == Walked(from, Nil)'
<1>1. /\ Listed \subseteq Kids /\ Nil \notin Kids
      /\ \A j \in Listed : next[j] \in Listed \cup {Nil}
  BY WalkedClosed, Pointers DEF Listed
<1>2. /\ old \subseteq Listed /\ from \in old \cup {Nil}
      /\ \A j \in old : next[j] \in old \cup {Nil}
  BY <1>1, WalkedClosed, WalkedFurther
<1>3. \A p \in Listed : next'[p] = IF next[p] = k THEN next[k] ELSE next[p]
  BY UnlinkedNext
<1>4. \A S \in SUBSET Kids :
        (from \in S \cup {Nil} /\ \A j \in S : next'[j] \in S \cup {Nil})
          => new \subseteq S
  BY DEF Walked
<1>5. /\ new \subseteq Kids /\ from \in new \cup {Nil}
      /\ \A j \in new : next'[j] \in new \cup {Nil}
  <2>1. new \subseteq Kids
    BY DEF Walked
  <2>2. from \in new \cup {Nil}
    BY <1>1 DEF Walked
  <2>3. ASSUME NEW j \in new, next'[j] # Nil
        PROVE  next'[j] \in new
    <3>1. next'[j] \in Kids
      BY <2>1, <2>3 DEF ForkTypeOK
    <3>2. ASSUME NEW S \in SUBSET Kids, from \in S \cup {Nil},
                 \A i \in S \ {Nil} : next'[i] \in S \cup {Nil}
          PROVE  next'[j] \in S
      <4>1. j \in S /\ j # Nil
        BY <1>1, <2>1, <3>2 DEF Walked
      <4>2. QED
        BY <2>3, <3>2, <4>1
    <3>3. QED
      BY <3>1, <3>2 DEF Walked
  <2>4. QED
    BY <2>1, <2>2, <2>3
<1>. HIDE DEF old, new
<1>6. new \subseteq old \ {k}
  <2>. DEFINE S == old \ {k}
  <2>1. S \in SUBSET Kids /\ from \in S \cup {Nil}
    BY <1>1, <1>2
  <2>2. ASSUME NEW j \in S PROVE next'[j] \in S \cup {Nil}
    <3>1. j \in Listed /\ j # k /\ j \in old
      BY <1>2
    <3>2. CASE next[j] = k
      <4>1. k \in old
        BY <1>1, <1>2, <3>1, <3>2
      <4>2. next[k] \in old \cup {Nil} /\ next[k] # k
        BY <1>1, <1>2, <3>1, <3>2, <4>1 DEF Path
      <4>3. QED
        BY <1>3, <3>1, <3>2, <4>2
    <3>3. CASE next[j] # k
      BY <1>2, <1>3, <3>1, <3>3
    <3>4. QED
      BY <3>2, <3>3
  <2>. HIDE DEF S
  <2>3. new \subseteq S
    BY <1>4, <2>1, <2>2
  <2>4. QED
    BY <2>3 DEF S
<1>7. old \subseteq new \cup {k}
  <2>. DEFINE T == new \cup (IF \E j \in new : next[j] = k THEN {k} ELSE {})
  <2>1. T \in SUBSET Kids /\ from \in T \cup {Nil} /\ new \subseteq Listed
    BY <1>1, <1>2, <1>5, <1>6
  <2>2. ASSUME NEW j \in T PROVE next[j] \in T \cup {Nil}
    <3>1. CASE j \in new /\ next[j] = k
      BY <3>1
    <3>2. CASE j \in new /\ next[j] # k
      <4>1. next[j] = next'[j]
        BY <1>3, <2>1, <3>2
      <4>2. QED
        BY <1>5, <3>2, <4>1
    <3>3. CASE j \notin new
      <4>1. PICK p \in new : next[p] = k /\ j = k
        BY <2>2, <3>3
      <4>2. next'[p] = next[k] /\ next'[p] \in new \cup {Nil}
        BY <1>3, <1>5, <2>1, <4>1
      <4>3. QED
        BY <4>1, <4>2
    <3>4. QED
      BY <3>1, <3>2, <3>3
  <2>3. T \subseteq new \cup {k}
    OBVIOUS
  <2>. HIDE DEF T
  <2>4. old \subseteq T
    BY <2>1, <2>2, WalkedLeast DEF old
  <2>5. QED
    BY <2>3, <2>4
<1>8. QED
  BY <1>6, <1>7 DEF old, new

LEMMA Unlinked ==
  ASSUME ForkTypeOK, ForkTypeOK', Path, NEW k \in Listed, Unlink(k)
  PROVE  Listed' = Listed \ {k} /\ Path'
<1>1. /\ Listed \subseteq Kids /\ Nil \notin Kids /\ list \in Listed \cup {Nil}
      /\ \A j \in Listed : next[j] \in Listed \cup {Nil}
  BY WalkedClosed, Pointers DEF Listed
<1>2. \A p \in Listed : next'[p] = IF next[p] = k THEN next[k] ELSE next[p]
  BY UnlinkedNext
<1>3. list' = IF list = k THEN next[k] ELSE list
  BY DEF Unlink
<1>4. Listed' = Listed \ {k}
  <2>1. PICK from : from = list'
    OBVIOUS
  <2>2. Listed' = Walked(from, Nil)'
    BY <2>1 DEF Listed, Walked
  <2>3. CASE list = k
    <3>1. from = next[k] /\ from # k
      BY <1>1, <1>3, <2>1, <2>3 DEF Path
    <3>2. from \in (Listed \ {k}) \cup {Nil}
      BY <1>1, <3>1
    <3>3. Listed = {k} \cup Walked(from, Nil)
      BY <1>1, <2>3, <3>1, WalkedOne DEF Listed
    <3>4. QED
      BY <2>2, <3>2, <3>3, UnlinkedWalk
  <2>4. CASE list # k
    <3>1. from = list /\ from \in (Listed \ {k}) \cup {Nil}
      BY <1>1, <1>3, <2>1, <2>4
    <3>2. Walked(from, Nil) = Listed
      BY <3>1 DEF Listed
    <3>3. QED
      BY <2>2, <3>1, <3>2, UnlinkedWalk
  <2>5. QED
    BY <2>3, <2>4
<1>5. ASSUME NEW i \in Listed', NEW j \in Listed', next'[i] = next'[j], next'[i] # Nil
      PROVE  i = j
  <2>1. i \in Listed /\ j \in Listed /\ i # k /\ j # k
    BY <1>4
  <2>2. /\ next'[i] = IF next[i] = k THEN next[k] ELSE next[i]
        /\ next'[j] = IF next[j] = k THEN next[k] ELSE next[j]
    BY <1>2, <2>1
  <2>3. k # Nil
    BY <1>1
  <2>4. QED
    BY <1>5, <2>1, <2>2, <2>3 DEF Path
<1>6. ASSUME NEW i \in Listed', list' # Nil
      PROVE  next'[i] # list'
  <2>1. i \in Listed /\ i # k
    BY <1>4
  <2>2. next'[i] = IF next[i] = k THEN next[k] ELSE next[i]
    BY <1>2, <2>1
  <2>3. CASE list = k
    <3>1. next[i] # k
      BY <1>1, <2>1, <2>3 DEF Path
    <3>2. QED
      BY <1>3, <1>6, <2>1, <2>2, <2>3, <3>1 DEF Path
  <2>4. CASE list # k
    BY <1>3, <1>6, <2>1, <2>2, <2>4 DEF Path
  <2>5. QED
    BY <2>3, <2>4
<1>7. QED
  BY <1>4, <1>5, <1>6 DEF Path

LEMMA NoLoop ==
  ASSUME ForkTypeOK, Path, NEW k \in Listed
  PROVE  next[k] # k
<1>1. SUFFICES ASSUME next[k] = k PROVE FALSE
  OBVIOUS
<1>2. /\ Listed \subseteq Kids /\ Nil \notin Kids /\ list \in Listed \cup {Nil}
      /\ \A j \in Listed : next[j] \in Listed \cup {Nil}
  BY WalkedClosed, Pointers DEF Listed
<1>. DEFINE S == Listed \ {k}
<1>3. S \in SUBSET Kids /\ list \in S \cup {Nil} /\ \A j \in S : next[j] \in S \cup {Nil}
  BY <1>1, <1>2 DEF Path
<1>. HIDE DEF S
<1>4. Listed \subseteq S
  BY <1>3, WalkedLeast DEF Listed
<1>5. QED
  BY <1>4 DEF S

\* WalkedClosed of the list after a step.
LEMMA ListedThen ==
  ASSUME ForkTypeOK, ForkTypeOK'
  PROVE  /\ Listed' \subseteq Kids /\ list' \in Listed' \cup {Nil}
         /\ \A j \in Listed' : next'[j] \in Listed' \cup {Nil}
         /\ \A S \in SUBSET Kids :
              (list' \in S \cup {Nil} /\ \A j \in S : next'[j] \in S \cup {Nil})
                => Listed' \subseteq S
<1>1. Nil \notin Kids /\ list' \in Kids \cup {Nil}
      /\ \A j \in Kids : next'[j] \in Kids \cup {Nil}
  BY Pointers DEF ForkTypeOK
<1>2. Listed' \subseteq Kids
  BY DEF Listed, Walked
<1>3. list' \in Listed' \cup {Nil}
  BY <1>1 DEF Listed, Walked
<1>4. ASSUME NEW j \in Listed', next'[j] # Nil
      PROVE  next'[j] \in Listed'
  <2>1. next'[j] \in Kids
    BY <1>1, <1>2, <1>4
  <2>2. ASSUME NEW S \in SUBSET Kids, list' \in S \cup {Nil},
               \A i \in S \ {Nil} : next'[i] \in S \cup {Nil}
        PROVE  next'[j] \in S
    <3>1. j \in S /\ j # Nil
      BY <1>1, <1>2, <2>2 DEF Listed, Walked
    <3>2. QED
      BY <1>4, <2>2, <3>1
  <2>3. QED
    BY <2>1, <2>2 DEF Listed, Walked
<1>5. ASSUME NEW S \in SUBSET Kids, list' \in S \cup {Nil},
             \A j \in S : next'[j] \in S \cup {Nil}
      PROVE  Listed' \subseteq S
  BY <1>5 DEF Listed, Walked
<1>6. QED
  BY <1>2, <1>3, <1>4, <1>5

\* next = list in an object that no walk of the list meets.
LEMMA LinkedSame ==
  ASSUME ForkTypeOK, ForkTypeOK', NEW c \in Kids \ Listed,
         next' = [next EXCEPT ![c] = list], list' = list
  PROVE  Listed' = Listed
<1>1. /\ Listed \subseteq Kids /\ Nil \notin Kids /\ list \in Listed \cup {Nil}
      /\ \A j \in Listed : next[j] \in Listed \cup {Nil}
  BY WalkedClosed, Pointers DEF Listed
<1>2. \A j \in Kids : j # c => next'[j] = next[j]
  BY DEF ForkTypeOK
<1>3. Listed' \subseteq Listed
  <2>1. list' \in Listed \cup {Nil} /\ \A j \in Listed : next'[j] \in Listed \cup {Nil}
    BY <1>1, <1>2
  <2>2. QED
    BY <1>1, <2>1, ListedThen
<1>4. Listed \subseteq Listed'
  <2>1. /\ Listed' \in SUBSET Kids /\ list \in Listed' \cup {Nil}
        /\ \A j \in Listed' : next[j] \in Listed' \cup {Nil}
    BY <1>1, <1>2, <1>3, ListedThen
  <2>2. Walked(list, Nil) \subseteq Listed'
    BY <2>1, WalkedLeast
  <2>3. QED
    BY <2>2 DEF Listed
<1>5. QED
  BY <1>3, <1>4

\* The list stays a path then.
LEMMA LinkedBehind ==
  ASSUME ForkTypeOK, ForkTypeOK', Path, NEW c \in Kids \ Listed,
         next' = [next EXCEPT ![c] = list], list' = list
  PROVE  Listed' = Listed /\ Path'
<1>1. Listed \subseteq Kids /\ Listed' = Listed
  BY LinkedSame, WalkedClosed, Pointers DEF Listed
<1>2. \A j \in Listed : next'[j] = next[j]
  BY <1>1 DEF ForkTypeOK
<1>3. QED
  BY <1>1, <1>2 DEF Path

\* list = this, when next of the object is the list.
LEMMA LinkedHead ==
  ASSUME ForkTypeOK, ForkTypeOK', Path, NEW c \in Kids \ Listed,
         next' = next, next[c] = list, list' = c
  PROVE  Listed' = Listed \cup {c} /\ Path'
<1>1. /\ Listed \subseteq Kids /\ Nil \notin Kids /\ list \in Listed \cup {Nil}
      /\ \A j \in Listed : next[j] \in Listed \cup {Nil}
  BY WalkedClosed, Pointers DEF Listed
<1>2. Listed' \subseteq Listed \cup {c}
  <2>. DEFINE S == Listed \cup {c}
  <2>1. S \in SUBSET Kids /\ list' \in S \cup {Nil}
        /\ \A j \in S : next'[j] \in S \cup {Nil}
    BY <1>1
  <2>. HIDE DEF S
  <2>2. Listed' \subseteq S
    BY <2>1, ListedThen
  <2>3. QED
    BY <2>2 DEF S
<1>3. c \in Listed'
  BY <1>1, ListedThen
<1>4. Listed \subseteq Listed'
  <2>1. /\ Listed' \in SUBSET Kids /\ list \in Listed' \cup {Nil}
        /\ \A j \in Listed' : next[j] \in Listed' \cup {Nil}
    BY <1>3, ListedThen
  <2>2. Walked(list, Nil) \subseteq Listed'
    BY <2>1, WalkedLeast
  <2>3. QED
    BY <2>2 DEF Listed
<1>5. Listed' = Listed \cup {c}
  BY <1>2, <1>3, <1>4
<1>6. ASSUME NEW i \in Listed', NEW j \in Listed', next'[i] = next'[j], next'[i] # Nil
      PROVE  i = j
  BY <1>5, <1>6 DEF Path
<1>7. ASSUME NEW i \in Listed'
      PROVE  next'[i] # list'
  <2>1. next'[i] = next[i] /\ next[i] \in Listed \cup {Nil}
    BY <1>1, <1>5
  <2>2. c # Nil
    BY <1>1
  <2>3. QED
    BY <2>1, <2>2
<1>8. QED
  BY <1>5, <1>6, <1>7 DEF Path

\* list = 0 in the child.
LEMMA ListEmptied ==
  ASSUME ForkTypeOK, ForkTypeOK', list' = Nil
  PROVE  Listed' = {} /\ Path'
<1>1. Listed' \subseteq {}
  <2>1. {} \in SUBSET Kids /\ list' \in {} \cup {Nil}
        /\ \A j \in {} : next'[j] \in {} \cup {Nil}
    OBVIOUS
  <2>2. QED
    BY ONLY <2>1, ListedThen, ForkTypeOK, ForkTypeOK'
<1>2. QED
  BY <1>1 DEF Path

\* A step that leaves the links alone leaves the list alone.
LEMMA SameList ==
  ASSUME next' = next, list' = list
  PROVE  Listed' = Listed /\ Path' = Path
<1>1. Listed' = Listed
  BY DEF Listed, Walked
<1>2. QED
  BY <1>1 DEF Path

LEMMA SameWalk ==
  ASSUME next' = next, NEW from
  PROVE  Walked(from, Nil)' = Walked(from, Nil)
BY DEF Walked


\* A walk that stops at k meets k, if k is in the list.
LEMMA WalkedTo ==
  ASSUME ForkTypeOK, NEW k \in Listed
  PROVE  k \in Walked(list, k)
<1>1. k \in Kids
  BY DEF Listed, Walked
<1>2. SUFFICES ASSUME NEW S \in SUBSET Kids, list \in S \cup {Nil},
                      \A j \in S \ {k} : next[j] \in S \cup {Nil}, k \notin S
               PROVE  FALSE
  BY <1>1 DEF Walked
<1>3. \A j \in S : next[j] \in S \cup {Nil}
  BY <1>2
<1>4. Listed \subseteq S
  BY <1>2, <1>3, WalkedLeast DEF Listed
<1>5. QED
  BY <1>2, <1>4

(***************************************************************************)
(* The inductive invariant.  It speaks of behaviours that have not touched *)
(* freed memory; one that has is over.                                     *)
(***************************************************************************)

Gone(k) == k \in Kids /\ ent[k] = "freed"

\* A walk from here meets freed memory.
Dangles(from) == \E h \in Walked(from, Nil) : Gone(h)

Making == pc \in {"next", "head"}
Killing == pc \in {"term", "reap", "unlink"}
Exiting == pc = "walk" \/ (Killing /\ saved = Unset)
Known == {"running", "zombie", "reaped", "other"}

\* What holds wherever the handlers have run.
Steady ==
  /\ Making \/ Killing \/ pc = "clear" => cur \in Kids
  /\ list = Nil \/ kid[list] \in Known
  /\ \A j \in Kids : next[j] = Nil \/ kid[next[j]] \in Known
  /\ Making => cur \notin Listed /\ kid[cur] \in Known \ {"other"}
  /\ pc = "head" => next[cur] = list \/ Dangles(next[cur])
  /\ handled # Nil => kid[handled] = "reaped"
  /\ pc = "walk" => saved = Unset
  /\ Making \/ pc \in {"run", "clear"} => caught = {} /\ unborn = {}

\* With an object in the list that has been deleted, every loop is on its way to
\* it and none comes to an end.
Adrift ==
  /\ Dangles(list)
  /\ Killing \/ pc \in {"walk", "suicide"} => Dangles(cur)
  /\ Killing /\ saved # Unset => Dangles(saved)
  /\ pc # "exited"
  /\ Exiting => caught = {}

\* Every object of the list is there.
Alive == \A k \in Listed : ent[k] = "live"

\* The children nobody has waited for are in the list.
Complete ==
  Unreaped \subseteq Listed \cup unborn \cup (IF Making THEN {cur} ELSE {})

\* The others in the list are loose or about to be taken out, until the second
\* loop of ~KillForks, and in a child that has not cleared its copy.
Exact ==
  /\ \A k \in loose : kid[k] \in {"reaped", "other"}
  /\ \/ pc \in {"clear", "exited"}
     \/ pc = "walk" /\ cur = Nil
     \/ Listed \subseteq Unreaped \cup loose \cup {handled}
                           \cup (IF pc = "unlink" THEN {cur} ELSE {})
  /\ Making => cur \in Unreaped \cup loose \cup {handled} /\ ent[cur] = "live"
  /\ pc = "clear" => Unreaped = {}

\* The object a destructor or a loop works on is in the list, unless the
\* handler has deleted it.
Working ==
  /\ pc \in {"term", "reap"} => cur \in Listed \/ Gone(cur)
  /\ pc \in {"suicide", "walk"} => cur \in Listed \cup {Nil} \/ Gone(cur)
  /\ pc = "unlink" => cur \in Listed /\ cur \notin Unreaped /\ handled # cur

\* commit_suicide works on the head of the list.
Ending ==
  /\ pc = "suicide" => cur = list \/ Gone(cur)
  /\ Killing /\ saved # Unset =>
       Gone(cur) \/ (cur = list /\ (saved = next[cur] \/ Gone(saved)))

\* The objects ~KillForks has not come to yet.
Rest == Walked(cur, Nil)

\* ~KillForks has been to every object with the flag that it is not to come to.
FlaggedAhead ==
  Exiting /\ cur \in Listed \cup {Nil} =>
    \A k \in Listed : flag[k] => k \in Rest

\* After the last wait no child is left, after commit_suicide's loop none runs.
NoneLeft ==
  /\ pc = "exited" => Unreaped \subseteq unborn
  /\ (Exiting \/ pc = "exited") /\ caught # {} =>
       \A k \in Kids : kid[k] = "running" => k \in unborn

Core ==
  /\ Path /\ Alive /\ Complete /\ Exact /\ Working
  /\ Ending /\ FlaggedAhead /\ NoneLeft

Promises ==
  ListIsChildren /\ ExitLeavesNoChild /\ FlaggedKilledFirst /\ SuicideKillsAll

Sound == Steady /\ (IF torn THEN Adrift ELSE Core)

ForkIInv ==
  /\ ForkTypeOK
  /\ stray = "none" => Sound
  /\ stray # "none" => Promises

LEMMA SoundPromises ==
  ASSUME ForkTypeOK, Sound
  PROVE  Promises
<1>1. Walked(Nil, Nil) = {} /\ ~Dangles(Nil)
  BY WalkedNothing DEF Dangles
<1>2. CASE torn
  <2>1. Adrift
    BY <1>2 DEF Sound
  <2>2. pc # "exited" /\ (pc \in {"walk", "suicide"} => cur # Nil)
        /\ (pc = "walk" => caught = {})
    BY <1>1, <2>1 DEF Adrift, Exiting
  <2>3. QED
    BY <1>2, <2>2 DEF Promises, ListIsChildren, ExitLeavesNoChild, FlaggedKilledFirst,
                      SuicideKillsAll
<1>3. CASE ~torn
  <2>1. Core
    BY <1>3 DEF Sound
  <2>2. ListIsChildren
    <3>1. SUFFICES ASSUME pc = "run", handled = Nil
                   PROVE  Listed \ loose = Unreaped /\ \A k \in Listed : ent[k] = "live"
      BY DEF ListIsChildren
    <3>2. Unreaped \subseteq Listed /\ \A k \in Unreaped : k \notin loose
      <4>1. Unreaped \subseteq Listed \cup unborn
        BY <2>1, <3>1 DEF Core, Complete, Making
      <4>2. unborn = {}
        BY <3>1 DEF Sound, Steady
      <4>3. QED
        BY <2>1, <4>1, <4>2 DEF Core, Exact, Unreaped
    <3>3. Listed \subseteq Unreaped \cup loose
      <4>1. Nil \notin Listed
        BY Pointers, WalkedClosed DEF Listed
      <4>2. QED
        BY <2>1, <3>1, <4>1 DEF Core, Exact
    <3>4. QED
      BY <2>1, <3>2, <3>3 DEF Core, Alive
  <2>3. ExitLeavesNoChild
    BY <2>1 DEF Core, NoneLeft, ExitLeavesNoChild
  <2>4. FlaggedKilledFirst
    <3>1. SUFFICES ASSUME pc = "walk", cur = Nil, NEW k \in Unreaped, flag[k],
                          k \notin unborn
                   PROVE  FALSE
      BY DEF FlaggedKilledFirst
    <3>2. k \in Listed
      BY <2>1, <3>1 DEF Core, Complete, Making
    <3>3. k \in Rest
      BY <2>1, <3>1, <3>2 DEF Core, FlaggedAhead, Exiting
    <3>4. QED
      BY <1>1, <3>1, <3>3 DEF Rest
  <2>5. SuicideKillsAll
    BY <2>1 DEF Core, NoneLeft, Exiting, SuicideKillsAll
  <2>6. QED
    BY <2>2, <2>3, <2>4, <2>5 DEF Promises
<1>4. QED
  BY <1>2, <1>3

LEMMA UnlinkTyped ==
  ASSUME ForkTypeOK, NEW k \in Kids, Unlink(k)
  PROVE  list' \in Kids \cup {Nil} /\ next' \in [Kids -> Kids \cup {Nil}]
BY Pointers DEF Unlink

\* What the type invariant and the definitions of the list give every step.
LEMMA Basics ==
  ASSUME ForkTypeOK
  PROVE  /\ Nil \notin Kids /\ Unset \notin Kids /\ Nil # Unset
         /\ Listed \subseteq Kids /\ Unreaped \subseteq Kids
         /\ list \in Listed \cup {Nil}
         /\ \A j \in Listed : next[j] \in Listed \cup {Nil}
BY Pointers, WalkedClosed DEF Listed, Unreaped

LEMMA ForkTypeStep ==
  ASSUME ForkTypeOK, stray = "none" => Steady, [ForkNext]_forkVars
  PROVE  ForkTypeOK'
<1>. USE DEF kidVars, listVars, sigVars, codeVars, pastVars, Same, Goes
<1>1. /\ Running => (Making \/ Killing \/ pc = "clear" => cur \in Kids)
      /\ \A k \in Kids : next[k] \in Kids \cup {Nil}
      /\ Nil \notin Kids /\ Term \in Fatal
  BY Pointers, ForkConstants DEF Running, Steady
<1>. USE DEF Making, Killing
<1>2. CASE SetNext
  BY <1>1, <1>2 DEF SetNext, ForkTypeOK, Running
<1>3. CASE SetHead
  BY <1>1, <1>3 DEF SetHead, ForkTypeOK, Running
<1>4. CASE ClearList
  BY <1>1, <1>4 DEF ClearList, ForkTypeOK, Running, Strays
<1>5. CASE SuicideRound
  BY <1>1, <1>5 DEF SuicideRound, ForkTypeOK, Running, Strays
<1>6. CASE WalkRound
  BY <1>1, <1>6 DEF WalkRound, ForkTypeOK, Running, Strays
<1>7. CASE DtorKills
  BY <1>1, <1>7 DEF DtorKills, ForkTypeOK, Running, Strays
<1>8. CASE ReapChild
  BY <1>1, <1>8 DEF ReapChild, ForkTypeOK, Running, Strays, Waited
<1>9. CASE DtorUnlinks
  <2>1. cur \in Kids /\ saved \in Kids \cup {Nil, Unset}
    BY <1>1, <1>9 DEF DtorUnlinks, ForkTypeOK, Running
  <2>2. CASE ent[cur] = "freed" \/ WalkStrays(cur)
    BY <1>9, <2>2 DEF DtorUnlinks, ForkTypeOK, Strays
  <2>3. CASE ~(ent[cur] = "freed" \/ WalkStrays(cur))
    <3>1. list' \in Kids \cup {Nil} /\ next' \in [Kids -> Kids \cup {Nil}]
      BY <1>9, <2>1, <2>3, UnlinkTyped DEF DtorUnlinks
    <3>2. ent' \in [Kids -> {"none", "live", "freed"}]
      BY <1>9, <2>1, <2>3 DEF DtorUnlinks, ForkTypeOK
    <3>3. cur' \in Kids \cup {Nil} /\ pc' \in {"suicide", "walk", "unlink"}
          /\ stray' \in {stray, "~KillForks"}
      BY <1>1, <1>9, <2>1, <2>3 DEF DtorUnlinks
    <3>4. QED
      BY <1>9, <2>3, <3>1, <3>2, <3>3 DEF DtorUnlinks, ForkTypeOK
  <2>4. QED
    BY <2>2, <2>3
<1>10. CASE WaitEnds
  BY <1>1, <1>10 DEF WaitEnds, ForkTypeOK, Running
<1>11. CASE LastExit
  BY <1>1, <1>11 DEF LastExit, ForkTypeOK, Running
<1>12. CASE Exit
  BY <1>1, <1>12 DEF Exit, ForkTypeOK, Running
<1>13. CASE ReaperIdle
  BY <1>1, <1>13 DEF ReaperIdle, ForkTypeOK, Running
<1>14. CASE ReaperUnlinks
  <2>1. CASE WalkStrays(handled)
    BY <1>14, <2>1 DEF ReaperUnlinks, ForkTypeOK, Strays
  <2>2. CASE ~WalkStrays(handled)
    <3>1. handled \in Kids
      BY <1>14 DEF ReaperUnlinks, ForkTypeOK
    <3>2. ent' \in [Kids -> {"none", "live", "freed"}] /\ loose' \subseteq Kids
      BY <1>14, <2>2, <3>1 DEF ReaperUnlinks, ForkTypeOK
    <3>3. list' \in Kids \cup {Nil} /\ next' \in [Kids -> Kids \cup {Nil}]
      BY <1>14, <2>2, <3>1, UnlinkTyped DEF ReaperUnlinks, ForkTypeOK
    <3>4. handled' = Nil
      BY <1>14, <2>2 DEF ReaperUnlinks
    <3>5. QED
      BY <1>14, <2>2, <3>2, <3>3, <3>4 DEF ReaperUnlinks, ForkTypeOK
  <2>3. QED
    BY <2>1, <2>2
<1>15. ASSUME NEW k \in Kids, WaitAny(k) PROVE ForkTypeOK'
  BY <1>1, <1>15 DEF WaitAny, ForkTypeOK, Running
<1>16. ASSUME NEW k \in Kids, ForkFails(k) PROVE ForkTypeOK'
  BY <1>1, <1>16 DEF ForkFails, ForkTypeOK, Running
<1>17. ASSUME NEW k \in Kids, ForkDtor(k) PROVE ForkTypeOK'
  BY <1>1, <1>17 DEF ForkDtor, ForkTypeOK, Running, Strays
<1>18. ASSUME NEW k \in Kids, KidDies(k) PROVE ForkTypeOK'
  BY <1>1, <1>18 DEF KidDies, ForkTypeOK, Running
<1>19. ASSUME NEW k \in Kids, Reaper(k) PROVE ForkTypeOK'
  BY <1>1, <1>19 DEF Reaper, ForkTypeOK, Running
<1>20. ASSUME NEW sig \in Fatal, SuicideSignal(sig) PROVE ForkTypeOK'
  BY <1>1, <1>20, Basics DEF SuicideSignal, ForkTypeOK, Running
<1>21. ASSUME NEW sig \in Fatal, Suicide(sig) PROVE ForkTypeOK'
  BY <1>1, <1>21, Basics DEF Suicide, ForkTypeOK, Running
<1>22. ASSUME NEW k \in Kids, NEW kill \in BOOLEAN, ForkParent(k, kill) PROVE ForkTypeOK'
  BY <1>1, <1>22 DEF ForkParent, ForkTypeOK, Running
<1>23. ASSUME NEW k \in Kids, NEW kill \in BOOLEAN, ForkChild(k, kill) PROVE ForkTypeOK'
  BY <1>1, <1>23 DEF ForkChild, ForkTypeOK, Running
<1>24. CASE UNCHANGED forkVars
  BY <1>24 DEF forkVars, ForkTypeOK
<1>25. QED
  BY <1>2, <1>3, <1>4, <1>5, <1>6, <1>7, <1>8, <1>9, <1>10, <1>11, <1>12, <1>13,
     <1>14, <1>15, <1>16, <1>17, <1>18, <1>19, <1>20, <1>21, <1>22, <1>23,
     <1>24 DEF ForkNext, ForkStep, ForkCall, ForkSignal

(***************************************************************************)
(* Freed memory in the list stays there.                                   *)
(***************************************************************************)

\* WalkedClosed and WalkedLeast after a step.
LEMMA WalkedThen ==
  ASSUME ForkTypeOK', Nil \notin Kids, NEW x \in Kids \cup {Nil}
  PROVE  /\ Walked(x, Nil)' \subseteq Kids
         /\ x \in Walked(x, Nil)' \cup {Nil}
         /\ \A j \in Walked(x, Nil)' : next'[j] \in Walked(x, Nil)' \cup {Nil}
         /\ \A S \in SUBSET Kids :
              (x \in S \cup {Nil} /\ \A j \in S : next'[j] \in S \cup {Nil})
                => Walked(x, Nil)' \subseteq S
<1>. DEFINE new == Walked(x, Nil)'
<1>1. new \subseteq Kids
  BY DEF Walked
<1>2. x \in new \cup {Nil}
  BY DEF Walked
<1>3. ASSUME NEW j \in new, next'[j] # Nil
      PROVE  next'[j] \in new
  <2>1. next'[j] \in Kids
    BY <1>1, <1>3 DEF ForkTypeOK
  <2>2. ASSUME NEW S \in SUBSET Kids, x \in S \cup {Nil},
               \A i \in S \ {Nil} : next'[i] \in S \cup {Nil}
        PROVE  next'[j] \in S
    <3>1. j \in S /\ j # Nil
      BY <1>1, <2>2 DEF Walked
    <3>2. QED
      BY <1>3, <2>2, <3>1
  <2>3. QED
    BY <2>1, <2>2 DEF Walked
<1>4. \A S \in SUBSET Kids :
        (x \in S \cup {Nil} /\ \A j \in S : next'[j] \in S \cup {Nil}) => new \subseteq S
  BY DEF Walked
<1>5. QED
  BY <1>1, <1>2, <1>3, <1>4

LEMMA DanglesStays ==
  ASSUME NEW x \in Kids \cup {Nil}, Dangles(x), next' = next,
         \A h \in Kids : h \in Walked(x, Nil) /\ Gone(h) => Gone(h)'
  PROVE  Dangles(x)'
<1>1. PICK h \in Walked(x, Nil) : Gone(h)
  BY DEF Dangles
<1>2. h \in Walked(x, Nil)' /\ h \in Kids
  BY <1>1, SameWalk DEF Gone
<1>3. Gone(h)'
  BY <1>1, <1>2
<1>4. QED
  BY <1>2, <1>3 DEF Dangles

LEMMA DanglesUnlinked ==
  ASSUME ForkTypeOK, ForkTypeOK', NEW k \in Kids, ent[k] # "freed", Unlink(k),
         ent' = [ent EXCEPT ![k] = "freed"],
         NEW x \in Kids \cup {Nil}, Dangles(x)
  PROVE  Dangles(x)'
<1>. DEFINE new == Walked(x, Nil)'
<1>1. PICK h \in Walked(x, Nil) : Gone(h)
  BY DEF Dangles
<1>2. h # k /\ h \in Kids /\ ent'[h] = "freed" /\ ent'[k] = "freed"
  BY <1>1 DEF Gone, ForkTypeOK
<1>3. /\ new \subseteq Kids /\ x \in new \cup {Nil}
      /\ \A j \in new : next'[j] \in new \cup {Nil}
  BY Pointers, WalkedThen
<1>4. \A j \in Kids : next'[j] = next[j] \/ (next[j] = k /\ next'[j] = next[k])
  BY DEF Unlink
<1>. HIDE DEF new
<1>5. CASE k \in new
  <2>1. Gone(k)'
    BY <1>2 DEF Gone
  <2>2. QED
    BY <1>5, <2>1 DEF Dangles, new
<1>6. CASE k \notin new
  <2>. DEFINE T == new \cup (IF \E j \in new : next[j] = k THEN {k} ELSE {})
  <2>1. T \in SUBSET Kids /\ x \in T \cup {Nil}
    BY <1>3
  <2>2. ASSUME NEW j \in T PROVE next[j] \in T \cup {Nil}
    <3>1. CASE j \in new
      BY <1>3, <1>4, <3>1
    <3>2. CASE j \notin new
      <4>1. PICK p \in new : next[p] = k /\ j = k
        BY <2>2, <3>2
      <4>2. next'[p] \in new \cup {Nil} /\ p \in Kids
        BY <1>3, <4>1
      <4>3. next'[p] = next[k]
        BY <1>4, <1>6, <4>1, <4>2, Pointers
      <4>4. QED
        BY <4>1, <4>2, <4>3
    <3>3. QED
      BY <3>1, <3>2
  <2>3. T \subseteq new \cup {k}
    OBVIOUS
  <2>. HIDE DEF T
  <2>4. Walked(x, Nil) \subseteq T
    BY <2>1, <2>2, WalkedLeast
  <2>5. h \in new
    BY <1>1, <1>2, <2>3, <2>4
  <2>6. Gone(h)'
    BY <1>2 DEF Gone
  <2>7. QED
    BY <2>5, <2>6 DEF Dangles, new
<1>7. QED
  BY <1>5, <1>6

\* Dangling one further on.
LEMMA DanglesOn ==
  ASSUME ForkTypeOK, NEW k \in Kids, ent[k] # "freed", Dangles(k)
  PROVE  Dangles(next[k])
<1>1. PICK h \in Walked(k, Nil) : Gone(h)
  BY DEF Dangles
<1>2. h # k
  BY <1>1 DEF Gone
<1>3. h \in Walked(next[k], Nil)
  BY <1>1, <1>2, WalkedOne
<1>4. QED
  BY <1>1, <1>3 DEF Dangles

\* Taking out an object adds none.
LEMMA UnlinkShrinks ==
  ASSUME ForkTypeOK, ForkTypeOK', NEW k \in Listed, Unlink(k)
  PROVE  Listed' \subseteq Listed
<1>1. /\ Listed \subseteq Kids /\ list \in Listed \cup {Nil}
      /\ \A j \in Listed : next[j] \in Listed \cup {Nil}
  BY Basics
<1>2. list' \in Listed \cup {Nil} /\ \A j \in Listed : next'[j] \in Listed \cup {Nil}
  BY <1>1 DEF Unlink
<1>3. QED
  BY <1>1, <1>2, ListedThen

\* Whatever is in the list is or was a child.
LEMMA SteadyListed ==
  ASSUME ForkTypeOK, Steady
  PROVE  \A k \in Listed : k \in Kids /\ kid[k] \in Known
<1>. DEFINE S == {k \in Kids : kid[k] \in Known}
<1>1. S \in SUBSET Kids /\ list \in S \cup {Nil} /\ \A j \in S : next[j] \in S \cup {Nil}
  BY Pointers DEF Steady
<1>. HIDE DEF S
<1>2. Listed \subseteq S
  BY <1>1, WalkedLeast DEF Listed
<1>3. QED
  BY <1>2 DEF S

(***************************************************************************)
(* Steady is kept by every step.                                            *)
(***************************************************************************)

LEMMA SuicideRoundSteady ==
  ASSUME ForkTypeOK, ForkTypeOK', Steady, stray' = "none", SuicideRound
  PROVE  Steady'
<1>. USE DEF kidVars, listVars, sigVars, codeVars, pastVars, Same, Goes, Making, Killing
<1>1. /\ Nil \notin Kids /\ Unset \notin Kids /\ Nil # Unset
      /\ Listed \subseteq Kids /\ Unreaped \subseteq Kids
      /\ list \in Listed \cup {Nil}
      /\ \A j \in Listed : next[j] \in Listed \cup {Nil}
  BY Basics
<1>2. \A j \in Listed : kid[j] \in Known
  BY SteadyListed
<1>3. Listed' = Listed
  BY SameList DEF SuicideRound, Strays
<1>4. QED
  BY <1>1, <1>2, <1>3 DEF SuicideRound, Strays, Steady, Known, Running, ForkTypeOK

LEMMA WalkRoundSteady ==
  ASSUME ForkTypeOK, ForkTypeOK', Steady, stray' = "none", WalkRound
  PROVE  Steady'
<1>. USE DEF kidVars, listVars, sigVars, codeVars, pastVars, Same, Goes, Making, Killing
<1>1. /\ Nil \notin Kids /\ Unset \notin Kids /\ Nil # Unset
      /\ Listed \subseteq Kids /\ Unreaped \subseteq Kids
      /\ list \in Listed \cup {Nil}
      /\ \A j \in Listed : next[j] \in Listed \cup {Nil}
  BY Basics
<1>2. \A j \in Listed : kid[j] \in Known
  BY SteadyListed
<1>3. Listed' = Listed
  BY SameList DEF WalkRound, Strays
<1>4. QED
  BY <1>1, <1>2, <1>3 DEF WalkRound, Strays, Steady, Known, Running, ForkTypeOK

LEMMA DtorKillsSteady ==
  ASSUME ForkTypeOK, ForkTypeOK', Steady, stray' = "none", DtorKills
  PROVE  Steady'
<1>. USE DEF kidVars, listVars, sigVars, codeVars, pastVars, Same, Goes, Making, Killing
<1>1. /\ Nil \notin Kids /\ Unset \notin Kids /\ Nil # Unset
      /\ Listed \subseteq Kids /\ Unreaped \subseteq Kids
      /\ list \in Listed \cup {Nil}
      /\ \A j \in Listed : next[j] \in Listed \cup {Nil}
  BY Basics
<1>2. \A j \in Listed : kid[j] \in Known
  BY SteadyListed
<1>3. Listed' = Listed
  BY SameList DEF DtorKills, Strays
<1>4. QED
  BY <1>1, <1>2, <1>3 DEF DtorKills, Strays, Steady, Known, Running, ForkTypeOK

LEMMA ReapChildSteady ==
  ASSUME ForkTypeOK, ForkTypeOK', Steady, stray' = "none", ReapChild
  PROVE  Steady'
<1>. USE DEF kidVars, listVars, sigVars, codeVars, pastVars, Same, Goes, Making, Killing
<1>1. /\ Nil \notin Kids /\ Unset \notin Kids /\ Nil # Unset
      /\ Listed \subseteq Kids /\ Unreaped \subseteq Kids
      /\ list \in Listed \cup {Nil}
      /\ \A j \in Listed : next[j] \in Listed \cup {Nil}
  BY Basics
<1>2. \A j \in Listed : kid[j] \in Known
  BY SteadyListed
<1>3. Listed' = Listed
  BY SameList DEF ReapChild, Strays, Waited
<1>4. QED
  BY <1>1, <1>2, <1>3 DEF ReapChild, Strays, Waited, Steady, Known, Running, ForkTypeOK

LEMMA WaitEndsSteady ==
  ASSUME ForkTypeOK, ForkTypeOK', Steady, stray' = "none", WaitEnds
  PROVE  Steady'
<1>. USE DEF kidVars, listVars, sigVars, codeVars, pastVars, Same, Goes, Making, Killing
<1>1. /\ Nil \notin Kids /\ Unset \notin Kids /\ Nil # Unset
      /\ Listed \subseteq Kids /\ Unreaped \subseteq Kids
      /\ list \in Listed \cup {Nil}
      /\ \A j \in Listed : next[j] \in Listed \cup {Nil}
  BY Basics
<1>2. \A j \in Listed : kid[j] \in Known
  BY SteadyListed
<1>3. Listed' = Listed
  BY SameList DEF WaitEnds
<1>4. QED
  BY <1>1, <1>2, <1>3 DEF WaitEnds, Steady, Known, Running, ForkTypeOK

LEMMA LastExitSteady ==
  ASSUME ForkTypeOK, ForkTypeOK', Steady, stray' = "none", LastExit
  PROVE  Steady'
<1>. USE DEF kidVars, listVars, sigVars, codeVars, pastVars, Same, Goes, Making, Killing
<1>1. /\ Nil \notin Kids /\ Unset \notin Kids /\ Nil # Unset
      /\ Listed \subseteq Kids /\ Unreaped \subseteq Kids
      /\ list \in Listed \cup {Nil}
      /\ \A j \in Listed : next[j] \in Listed \cup {Nil}
  BY Basics
<1>2. \A j \in Listed : kid[j] \in Known
  BY SteadyListed
<1>3. Listed' = Listed
  BY SameList DEF LastExit
<1>4. QED
  BY <1>1, <1>2, <1>3 DEF LastExit, Steady, Known, Running, ForkTypeOK

LEMMA ExitSteady ==
  ASSUME ForkTypeOK, ForkTypeOK', Steady, stray' = "none", Exit
  PROVE  Steady'
<1>. USE DEF kidVars, listVars, sigVars, codeVars, pastVars, Same, Goes, Making, Killing
<1>1. /\ Nil \notin Kids /\ Unset \notin Kids /\ Nil # Unset
      /\ Listed \subseteq Kids /\ Unreaped \subseteq Kids
      /\ list \in Listed \cup {Nil}
      /\ \A j \in Listed : next[j] \in Listed \cup {Nil}
  BY Basics
<1>2. \A j \in Listed : kid[j] \in Known
  BY SteadyListed
<1>3. Listed' = Listed
  BY SameList DEF Exit
<1>4. QED
  BY <1>1, <1>2, <1>3 DEF Exit, Steady, Known, Running, ForkTypeOK

LEMMA ReaperIdleSteady ==
  ASSUME ForkTypeOK, ForkTypeOK', Steady, stray' = "none", ReaperIdle
  PROVE  Steady'
<1>. USE DEF kidVars, listVars, sigVars, codeVars, pastVars, Same, Goes, Making, Killing
<1>1. /\ Nil \notin Kids /\ Unset \notin Kids /\ Nil # Unset
      /\ Listed \subseteq Kids /\ Unreaped \subseteq Kids
      /\ list \in Listed \cup {Nil}
      /\ \A j \in Listed : next[j] \in Listed \cup {Nil}
  BY Basics
<1>2. \A j \in Listed : kid[j] \in Known
  BY SteadyListed
<1>3. Listed' = Listed
  BY SameList DEF ReaperIdle
<1>4. (pc = "head" => next[cur] = list \/ Dangles(next[cur]))'
  <2>1. SUFFICES ASSUME pc = "head", next[cur] # list
                 PROVE  Dangles(next[cur])'
    BY DEF ReaperIdle
  <2>2. PICK from \in Kids \cup {Nil} : from = next[cur]
    BY <2>1 DEF Steady, ForkTypeOK
  <2>3. Dangles(from) /\ next' = next /\ ent' = ent /\ cur' = cur
    BY <2>1, <2>2 DEF Steady, ReaperIdle
  <2>4. Dangles(from)'
    BY <2>3, DanglesStays DEF Gone
  <2>5. QED
    BY <2>2, <2>3, <2>4 DEF Dangles, Walked
<1>5. QED
  BY <1>1, <1>2, <1>3, <1>4 DEF ReaperIdle, Steady, Known, Running, ForkTypeOK

LEMMA WaitAnySteady ==
  ASSUME ForkTypeOK, ForkTypeOK', Steady, stray' = "none", NEW k \in Kids, WaitAny(k)
  PROVE  Steady'
<1>. USE DEF kidVars, listVars, sigVars, codeVars, pastVars, Same, Goes, Making, Killing
<1>1. /\ Nil \notin Kids /\ Unset \notin Kids /\ Nil # Unset
      /\ Listed \subseteq Kids /\ Unreaped \subseteq Kids
      /\ list \in Listed \cup {Nil}
      /\ \A j \in Listed : next[j] \in Listed \cup {Nil}
  BY Basics
<1>2. \A j \in Listed : kid[j] \in Known
  BY SteadyListed
<1>3. Listed' = Listed
  BY SameList DEF WaitAny
<1>4. QED
  BY <1>1, <1>2, <1>3 DEF WaitAny, Steady, Known, Running, ForkTypeOK

LEMMA ForkFailsSteady ==
  ASSUME ForkTypeOK, ForkTypeOK', Steady, stray' = "none", NEW k \in Kids, ForkFails(k)
  PROVE  Steady'
<1>. USE DEF kidVars, listVars, sigVars, codeVars, pastVars, Same, Goes, Making, Killing
<1>1. /\ Nil \notin Kids /\ Unset \notin Kids /\ Nil # Unset
      /\ Listed \subseteq Kids /\ Unreaped \subseteq Kids
      /\ list \in Listed \cup {Nil}
      /\ \A j \in Listed : next[j] \in Listed \cup {Nil}
  BY Basics
<1>2. \A j \in Listed : kid[j] \in Known
  BY SteadyListed
<1>3. Listed' = Listed
  BY SameList DEF ForkFails
<1>4. QED
  BY <1>1, <1>2, <1>3 DEF ForkFails, Steady, Known, Running, ForkTypeOK

LEMMA ForkDtorSteady ==
  ASSUME ForkTypeOK, ForkTypeOK', Steady, stray' = "none", NEW k \in Kids, ForkDtor(k)
  PROVE  Steady'
<1>. USE DEF kidVars, listVars, sigVars, codeVars, pastVars, Same, Goes, Making, Killing
<1>1. /\ Nil \notin Kids /\ Unset \notin Kids /\ Nil # Unset
      /\ Listed \subseteq Kids /\ Unreaped \subseteq Kids
      /\ list \in Listed \cup {Nil}
      /\ \A j \in Listed : next[j] \in Listed \cup {Nil}
  BY Basics
<1>2. \A j \in Listed : kid[j] \in Known
  BY SteadyListed
<1>3. Listed' = Listed
  BY SameList DEF ForkDtor, Strays
<1>4. QED
  BY <1>1, <1>2, <1>3 DEF ForkDtor, Strays, Steady, Known, Running, ForkTypeOK

LEMMA KidDiesSteady ==
  ASSUME ForkTypeOK, ForkTypeOK', Steady, stray' = "none", NEW k \in Kids, KidDies(k)
  PROVE  Steady'
<1>. USE DEF kidVars, listVars, sigVars, codeVars, pastVars, Same, Goes, Making, Killing
<1>1. /\ Nil \notin Kids /\ Unset \notin Kids /\ Nil # Unset
      /\ Listed \subseteq Kids /\ Unreaped \subseteq Kids
      /\ list \in Listed \cup {Nil}
      /\ \A j \in Listed : next[j] \in Listed \cup {Nil}
  BY Basics
<1>2. \A j \in Listed : kid[j] \in Known
  BY SteadyListed
<1>3. Listed' = Listed
  BY SameList DEF KidDies
<1>4. (pc = "head" => next[cur] = list \/ Dangles(next[cur]))'
  <2>1. SUFFICES ASSUME pc = "head", next[cur] # list
                 PROVE  Dangles(next[cur])'
    BY DEF KidDies
  <2>2. PICK from \in Kids \cup {Nil} : from = next[cur]
    BY <2>1 DEF Steady, ForkTypeOK
  <2>3. Dangles(from) /\ next' = next /\ ent' = ent /\ cur' = cur
    BY <2>1, <2>2 DEF Steady, KidDies
  <2>4. Dangles(from)'
    BY <2>3, DanglesStays DEF Gone
  <2>5. QED
    BY <2>2, <2>3, <2>4 DEF Dangles, Walked
<1>5. QED
  BY <1>1, <1>2, <1>3, <1>4 DEF KidDies, Steady, Known, Running, ForkTypeOK

LEMMA ReaperSteady ==
  ASSUME ForkTypeOK, ForkTypeOK', Steady, stray' = "none", NEW k \in Kids, Reaper(k)
  PROVE  Steady'
<1>. USE DEF kidVars, listVars, sigVars, codeVars, pastVars, Same, Goes, Making, Killing
<1>1. /\ Nil \notin Kids /\ Unset \notin Kids /\ Nil # Unset
      /\ Listed \subseteq Kids /\ Unreaped \subseteq Kids
      /\ list \in Listed \cup {Nil}
      /\ \A j \in Listed : next[j] \in Listed \cup {Nil}
  BY Basics
<1>2. \A j \in Listed : kid[j] \in Known
  BY SteadyListed
<1>3. Listed' = Listed
  BY SameList DEF Reaper
<1>4. (pc = "head" => next[cur] = list \/ Dangles(next[cur]))'
  <2>1. SUFFICES ASSUME pc = "head", next[cur] # list
                 PROVE  Dangles(next[cur])'
    BY DEF Reaper
  <2>2. PICK from \in Kids \cup {Nil} : from = next[cur]
    BY <2>1 DEF Steady, ForkTypeOK
  <2>3. Dangles(from) /\ next' = next /\ ent' = ent /\ cur' = cur
    BY <2>1, <2>2 DEF Steady, Reaper
  <2>4. Dangles(from)'
    BY <2>3, DanglesStays DEF Gone
  <2>5. QED
    BY <2>2, <2>3, <2>4 DEF Dangles, Walked
<1>5. QED
  BY <1>1, <1>2, <1>3, <1>4 DEF Reaper, Steady, Known, Running, ForkTypeOK

LEMMA SuicideSignalSteady ==
  ASSUME ForkTypeOK, ForkTypeOK', Steady, stray' = "none", NEW sig \in Fatal,
         SuicideSignal(sig)
  PROVE  Steady'
<1>. USE DEF kidVars, listVars, sigVars, codeVars, pastVars, Same, Goes, Making, Killing
<1>1. /\ Nil \notin Kids /\ Unset \notin Kids /\ Nil # Unset
      /\ Listed \subseteq Kids /\ Unreaped \subseteq Kids
      /\ list \in Listed \cup {Nil}
      /\ \A j \in Listed : next[j] \in Listed \cup {Nil}
  BY Basics
<1>2. \A j \in Listed : kid[j] \in Known
  BY SteadyListed
<1>3. Listed' = Listed
  BY SameList DEF SuicideSignal
<1>4. QED
  BY <1>1, <1>2, <1>3 DEF SuicideSignal, Steady, Known, Running, ForkTypeOK

LEMMA SuicideSteady ==
  ASSUME ForkTypeOK, ForkTypeOK', Steady, stray' = "none", NEW sig \in Fatal,
         Suicide(sig)
  PROVE  Steady'
<1>. USE DEF kidVars, listVars, sigVars, codeVars, pastVars, Same, Goes, Making, Killing
<1>1. /\ Nil \notin Kids /\ Unset \notin Kids /\ Nil # Unset
      /\ Listed \subseteq Kids /\ Unreaped \subseteq Kids
      /\ list \in Listed \cup {Nil}
      /\ \A j \in Listed : next[j] \in Listed \cup {Nil}
  BY Basics
<1>2. \A j \in Listed : kid[j] \in Known
  BY SteadyListed
<1>3. Listed' = Listed
  BY SameList DEF Suicide
<1>4. QED
  BY <1>1, <1>2, <1>3 DEF Suicide, Steady, Known, Running, ForkTypeOK

LEMMA ForkParentSteady ==
  ASSUME ForkTypeOK, ForkTypeOK', Steady, stray' = "none", NEW k \in Kids,
         NEW kill \in BOOLEAN, ForkParent(k, kill)
  PROVE  Steady'
<1>. USE DEF kidVars, listVars, sigVars, codeVars, pastVars, Same, Goes, Making, Killing
<1>1. /\ Nil \notin Kids /\ Unset \notin Kids /\ Nil # Unset
      /\ Listed \subseteq Kids /\ Unreaped \subseteq Kids
      /\ list \in Listed \cup {Nil}
      /\ \A j \in Listed : next[j] \in Listed \cup {Nil}
  BY Basics
<1>2. \A j \in Listed : kid[j] \in Known
  BY SteadyListed
<1>3. Listed' = Listed
  BY SameList DEF ForkParent
<1>4. QED
  BY <1>1, <1>2, <1>3 DEF ForkParent, Steady, Known, Running, ForkTypeOK

LEMMA ForkChildSteady ==
  ASSUME ForkTypeOK, ForkTypeOK', Steady, stray' = "none", NEW k \in Kids,
         NEW kill \in BOOLEAN, ForkChild(k, kill)
  PROVE  Steady'
<1>. USE DEF kidVars, listVars, sigVars, codeVars, pastVars, Same, Goes, Making, Killing
<1>1. /\ Nil \notin Kids /\ Unset \notin Kids /\ Nil # Unset
      /\ Listed \subseteq Kids /\ Unreaped \subseteq Kids
      /\ list \in Listed \cup {Nil}
      /\ \A j \in Listed : next[j] \in Listed \cup {Nil}
  BY Basics
<1>2. \A j \in Listed : kid[j] \in Known
  BY SteadyListed
<1>3. Listed' = Listed
  BY SameList DEF ForkChild
<1>4. QED
  BY <1>1, <1>2, <1>3 DEF ForkChild, Steady, Known, Running, ForkTypeOK

LEMMA SetNextSteady ==
  ASSUME ForkTypeOK, ForkTypeOK', Steady, SetNext
  PROVE  Steady'
<1>. USE DEF kidVars, listVars, sigVars, codeVars, pastVars, Same, Goes, Making, Killing
<1>1. cur \in Kids \ Listed
  BY DEF Steady, SetNext
<1>2. Listed' = Listed
  BY <1>1, LinkedSame DEF SetNext
<1>3. /\ next'[cur] = list /\ list' = list /\ cur' = cur
      /\ \A j \in Kids : next'[j] = next[j] \/ next'[j] = list
  BY <1>1 DEF SetNext, ForkTypeOK
<1>4. QED
  BY <1>1, <1>2, <1>3 DEF SetNext, Steady

LEMMA SetHeadSteady ==
  ASSUME ForkTypeOK, ForkTypeOK', Steady, SetHead
  PROVE  Steady'
<1>. USE DEF kidVars, listVars, sigVars, codeVars, pastVars, Same, Goes, Making, Killing
<1>1. cur \in Kids /\ kid[cur] \in Known
  BY DEF Steady, SetHead
<1>2. QED
  BY <1>1 DEF SetHead, Steady

LEMMA ClearListSteady ==
  ASSUME ForkTypeOK, ForkTypeOK', Steady, stray' = "none", ClearList
  PROVE  Steady'
<1>. USE DEF kidVars, listVars, sigVars, codeVars, pastVars, Same, Goes, Making, Killing
<1>1. QED
  BY DEF ClearList, Strays, Steady

LEMMA UnlinkKnown ==
  ASSUME ForkTypeOK, Steady, NEW k \in Kids, Unlink(k)
  PROVE  /\ list' = Nil \/ kid[list'] \in Known
         /\ \A j \in Kids : next'[j] = Nil \/ kid[next'[j]] \in Known
BY DEF Unlink, Steady

LEMMA ReaperUnlinksSteady ==
  ASSUME ForkTypeOK, ForkTypeOK', Steady, stray' = "none", ReaperUnlinks
  PROVE  Steady'
<1>. USE DEF kidVars, listVars, sigVars, codeVars, pastVars, Same, Goes, Making, Killing
<1>1. /\ handled \in Kids /\ ~WalkStrays(handled) /\ handled' = Nil
      /\ UNCHANGED <<kid, pc, cur, saved, caught, unborn>>
  BY DEF ReaperUnlinks, Strays, ForkTypeOK
<1>2. PICK k \in Kids : k = handled
  BY <1>1
<1>3. CASE k \notin Listed
  <2>1. UNCHANGED <<ent, next, list>>
    BY <1>1, <1>2, <1>3 DEF ReaperUnlinks
  <2>2. Listed' = Listed
    BY <2>1, SameList
  <2>3. Dangles(next[cur])' = Dangles(next[cur])
    BY <1>1, <2>1 DEF Dangles, Walked, Gone
  <2>4. QED
    BY <1>1, <2>1, <2>2, <2>3 DEF Steady
<1>4. CASE k \in Listed
  <2>1. Unlink(k) /\ ent' = [ent EXCEPT ![k] = "freed"]
    BY <1>1, <1>2, <1>4 DEF ReaperUnlinks
  <2>2. ent[k] # "freed" /\ Gone(k)'
    BY <1>1, <1>2, <1>4, <2>1, WalkedTo DEF WalkStrays, Gone, ForkTypeOK
  <2>3. Listed' \subseteq Listed
    BY <1>4, <2>1, UnlinkShrinks
  <2>4. (pc = "head" => next[cur] = list \/ Dangles(next[cur]))'
    <3>1. SUFFICES ASSUME pc = "head"
                   PROVE  (next[cur] = list \/ Dangles(next[cur]))'
      BY <1>1
    <3>2. cur \in Kids /\ cur \notin Listed
      BY <3>1 DEF Steady
    <3>3. PICK from \in Kids \cup {Nil} : from = next[cur]
      BY <3>2 DEF ForkTypeOK
    <3>4. next'[cur'] = from
      BY <1>1, <2>1, <3>2, <3>3 DEF Unlink
    <3>5. CASE from = list /\ list = k
      <4>1. from \in Walked(from, Nil)' /\ Gone(from)'
        BY <2>2, <3>5, WalkedThen, Pointers
      <4>2. QED
        BY <3>4, <4>1 DEF Dangles, Walked, Gone
    <3>6. CASE from = list /\ list # k
      BY <2>1, <3>4, <3>6 DEF Unlink
    <3>7. CASE from # list
      <4>1. Dangles(from)
        BY <3>1, <3>3, <3>7 DEF Steady
      <4>2. Dangles(from)'
        BY <2>1, <2>2, <4>1, DanglesUnlinked
      <4>3. QED
        BY <3>4, <4>2 DEF Dangles, Walked
    <3>8. QED
      BY <3>5, <3>6, <3>7
  <2>5. /\ list' = Nil \/ kid[list'] \in Known
        /\ \A j \in Kids : next'[j] = Nil \/ kid[next'[j]] \in Known
    BY <1>1, <2>1, UnlinkKnown
  <2>6. QED
    BY <1>1, <2>3, <2>4, <2>5 DEF Steady
<1>5. QED
  BY <1>3, <1>4

LEMMA DtorUnlinksSteady ==
  ASSUME ForkTypeOK, ForkTypeOK', Steady, stray' = "none", DtorUnlinks
  PROVE  Steady'
<1>. USE DEF kidVars, listVars, sigVars, codeVars, pastVars, Same, Goes, Making, Killing
<1>1. cur \in Kids /\ Unlink(cur) /\ kid' = kid /\ handled' = handled
      /\ pc' \in {"suicide", "walk"} /\ (pc' = "walk" => saved' = Unset)
  BY DEF DtorUnlinks, Strays, Steady
<1>2. /\ list' = Nil \/ kid[list'] \in Known
      /\ \A j \in Kids : next'[j] = Nil \/ kid[next'[j]] \in Known
  BY <1>1, UnlinkKnown
<1>3. QED
  BY <1>1, <1>2 DEF Steady

LEMMA SteadyStep ==
  ASSUME ForkTypeOK, ForkTypeOK', Steady, stray = "none", stray' = "none",
         [ForkNext]_forkVars
  PROVE  Steady'
<1>1. CASE SetNext
  BY <1>1, SetNextSteady
<1>2. CASE SetHead
  BY <1>2, SetHeadSteady
<1>3. CASE ClearList
  BY <1>3, ClearListSteady
<1>4. CASE SuicideRound
  BY <1>4, SuicideRoundSteady
<1>5. CASE WalkRound
  BY <1>5, WalkRoundSteady
<1>6. CASE DtorKills
  BY <1>6, DtorKillsSteady
<1>7. CASE ReapChild
  BY <1>7, ReapChildSteady
<1>8. CASE DtorUnlinks
  BY <1>8, DtorUnlinksSteady
<1>9. CASE WaitEnds
  BY <1>9, WaitEndsSteady
<1>10. CASE LastExit
  BY <1>10, LastExitSteady
<1>11. CASE Exit
  BY <1>11, ExitSteady
<1>12. CASE ReaperIdle
  BY <1>12, ReaperIdleSteady
<1>13. CASE ReaperUnlinks
  BY <1>13, ReaperUnlinksSteady
<1>14. ASSUME NEW k \in Kids, WaitAny(k) PROVE Steady'
  BY <1>14, WaitAnySteady
<1>15. ASSUME NEW k \in Kids, ForkFails(k) PROVE Steady'
  BY <1>15, ForkFailsSteady
<1>16. ASSUME NEW k \in Kids, ForkDtor(k) PROVE Steady'
  BY <1>16, ForkDtorSteady
<1>17. ASSUME NEW k \in Kids, KidDies(k) PROVE Steady'
  BY <1>17, KidDiesSteady
<1>18. ASSUME NEW k \in Kids, Reaper(k) PROVE Steady'
  BY <1>18, ReaperSteady
<1>19. ASSUME NEW sig \in Fatal, SuicideSignal(sig) PROVE Steady'
  BY <1>19, SuicideSignalSteady
<1>20. ASSUME NEW sig \in Fatal, Suicide(sig) PROVE Steady'
  BY <1>20, SuicideSteady
<1>21. ASSUME NEW k \in Kids, NEW kill \in BOOLEAN, ForkParent(k, kill) PROVE Steady'
  BY <1>21, ForkParentSteady
<1>22. ASSUME NEW k \in Kids, NEW kill \in BOOLEAN, ForkChild(k, kill) PROVE Steady'
  BY <1>22, ForkChildSteady
<1>23. CASE UNCHANGED forkVars
  <2>1. Listed' = Listed /\ Dangles(next[cur])' = Dangles(next[cur])
    BY <1>23 DEF forkVars, kidVars, listVars, sigVars, codeVars, Listed, Dangles,
       Walked, Gone
  <2>2. QED
    BY <1>23, <2>1 DEF forkVars, kidVars, listVars, sigVars, codeVars, pastVars,
       Steady, Making, Killing
<1>24. QED
  BY <1>1, <1>2, <1>3, <1>4, <1>5, <1>6, <1>7, <1>8, <1>9, <1>10, <1>11, <1>12, <1>13,
     <1>14, <1>15, <1>16, <1>17, <1>18, <1>19, <1>20, <1>21, <1>22,
     <1>23 DEF ForkNext, ForkStep, ForkCall, ForkSignal

(***************************************************************************)
(* Adrift is kept by every step.                                           *)
(***************************************************************************)

LEMMA NilDangles ==
  ASSUME ForkTypeOK
  PROVE  ~Dangles(Nil)
BY WalkedNothing DEF Dangles

LEMMA AdriftThen ==
  ASSUME NEW l, NEW c, NEW s, l = list', c = cur', s = saved', Dangles(l)',
         (Killing \/ pc \in {"walk", "suicide"})' => Dangles(c)',
         (Killing /\ saved # Unset)' => Dangles(s)',
         pc' # "exited", Exiting' => caught' = {}
  PROVE  Adrift'
<1>1. Dangles(l)' => Dangles(list)'
  BY DEF Dangles, Walked
<1>2. Dangles(c)' => Dangles(cur)'
  BY DEF Dangles, Walked
<1>3. Dangles(s)' => Dangles(saved)'
  BY DEF Dangles, Walked
<1>4. QED
  BY <1>1, <1>2, <1>3 DEF Adrift

LEMMA SuicideRoundAdrift ==
  ASSUME ForkTypeOK, ForkTypeOK', Steady, Adrift, stray = "none", stray' = "none",
         SuicideRound
  PROVE  Adrift'
<1>. USE DEF kidVars, listVars, sigVars, codeVars, pastVars, Same, Goes
<1>1. PICK l, c, s : l = list' /\ c = cur' /\ s = saved'
  OBVIOUS
<1>2. /\ l \in Kids \cup {Nil} /\ c \in Kids \cup {Nil}
      /\ s \in Kids \cup {Nil, Unset} /\ ~Dangles(Nil)
  BY <1>1, NilDangles DEF ForkTypeOK
<1>3. cur \in Kids /\ ent[cur] # "freed" /\ Dangles(cur) /\ Dangles(next[cur])
  BY <1>2, DanglesOn DEF SuicideRound, Strays, Adrift, ForkTypeOK
<1>4. Dangles(l) /\ Dangles(c) /\ (Killing' => s = saved \/ Dangles(s))
  BY <1>1, <1>3 DEF SuicideRound, Strays, Adrift, Killing
<1>5. \A x \in Kids \cup {Nil} : Dangles(x) => Dangles(x)'
  BY DanglesStays DEF SuicideRound, Strays, Gone
<1>6. pc' # "exited" /\ (Exiting' => caught' = {})
  BY <1>2, <1>3, Pointers DEF SuicideRound, Strays, Adrift, Exiting, Killing, ForkTypeOK
<1>7. (Killing /\ saved # Unset)' => Dangles(s)'
  BY <1>1, <1>2, <1>3, <1>4, <1>5 DEF SuicideRound, Strays, Killing, Adrift, Steady,
     ForkTypeOK
<1>8. QED
  BY <1>1, <1>2, <1>4, <1>5, <1>6, <1>7, AdriftThen

LEMMA WalkRoundAdrift ==
  ASSUME ForkTypeOK, ForkTypeOK', Steady, Adrift, stray = "none", stray' = "none",
         WalkRound
  PROVE  Adrift'
<1>. USE DEF kidVars, listVars, sigVars, codeVars, pastVars, Same, Goes
<1>1. PICK l, c, s : l = list' /\ c = cur' /\ s = saved'
  OBVIOUS
<1>2. /\ l \in Kids \cup {Nil} /\ c \in Kids \cup {Nil}
      /\ s \in Kids \cup {Nil, Unset} /\ ~Dangles(Nil)
  BY <1>1, NilDangles DEF ForkTypeOK
<1>3. cur \in Kids /\ ent[cur] # "freed" /\ Dangles(cur) /\ Dangles(next[cur])
  BY <1>2, DanglesOn DEF WalkRound, Strays, Adrift, ForkTypeOK
<1>4. Dangles(l) /\ Dangles(c) /\ (Killing' => s = saved \/ Dangles(s))
  BY <1>1, <1>3 DEF WalkRound, Strays, Adrift, Killing
<1>5. \A x \in Kids \cup {Nil} : Dangles(x) => Dangles(x)'
  BY DanglesStays DEF WalkRound, Strays, Gone
<1>6. pc' # "exited" /\ (Exiting' => caught' = {})
  BY <1>2, <1>3, Pointers DEF WalkRound, Strays, Adrift, Exiting, Killing, ForkTypeOK
<1>7. (Killing /\ saved # Unset)' => Dangles(s)'
  BY <1>1, <1>2, <1>3, <1>4, <1>5 DEF WalkRound, Strays, Killing, Adrift, Steady,
     ForkTypeOK
<1>8. QED
  BY <1>1, <1>2, <1>4, <1>5, <1>6, <1>7, AdriftThen

LEMMA DtorKillsAdrift ==
  ASSUME ForkTypeOK, ForkTypeOK', Steady, Adrift, stray = "none", stray' = "none",
         DtorKills
  PROVE  Adrift'
<1>. USE DEF kidVars, listVars, sigVars, codeVars, pastVars, Same, Goes
<1>1. PICK l, c, s : l = list' /\ c = cur' /\ s = saved'
  OBVIOUS
<1>2. /\ l \in Kids \cup {Nil} /\ c \in Kids \cup {Nil}
      /\ s \in Kids \cup {Nil, Unset} /\ ~Dangles(Nil)
  BY <1>1, NilDangles DEF ForkTypeOK
<1>3. /\ Dangles(l)
      /\ (Killing \/ pc \in {"walk", "suicide"})' => Dangles(c)
      /\ (Killing /\ saved # Unset)' => s # Unset /\ Dangles(s)
  BY <1>1, <1>2 DEF DtorKills, Strays, Adrift, Killing
<1>4. \A x \in Kids \cup {Nil} : Dangles(x) => Dangles(x)'
  BY DanglesStays DEF DtorKills, Strays, Gone, ForkTypeOK
<1>5. pc' # "exited" /\ (Exiting' => caught' = {})
  BY <1>2 DEF DtorKills, Strays, Adrift, Exiting, Killing, Steady, Running
<1>6. QED
  BY <1>1, <1>2, <1>3, <1>4, <1>5, AdriftThen

LEMMA ReapChildAdrift ==
  ASSUME ForkTypeOK, ForkTypeOK', Steady, Adrift, stray = "none", stray' = "none",
         ReapChild
  PROVE  Adrift'
<1>. USE DEF kidVars, listVars, sigVars, codeVars, pastVars, Same, Goes
<1>1. PICK l, c, s : l = list' /\ c = cur' /\ s = saved'
  OBVIOUS
<1>2. /\ l \in Kids \cup {Nil} /\ c \in Kids \cup {Nil}
      /\ s \in Kids \cup {Nil, Unset} /\ ~Dangles(Nil)
  BY <1>1, NilDangles DEF ForkTypeOK
<1>3. /\ Dangles(l)
      /\ (Killing \/ pc \in {"walk", "suicide"})' => Dangles(c)
      /\ (Killing /\ saved # Unset)' => s # Unset /\ Dangles(s)
  BY <1>1, <1>2 DEF ReapChild, Strays, Waited, Adrift, Killing
<1>4. \A x \in Kids \cup {Nil} : Dangles(x) => Dangles(x)'
  BY DanglesStays DEF ReapChild, Strays, Waited, Gone, ForkTypeOK
<1>5. pc' # "exited" /\ (Exiting' => caught' = {})
  BY <1>2 DEF ReapChild, Strays, Waited, Adrift, Exiting, Killing, Steady, Running
<1>6. QED
  BY <1>1, <1>2, <1>3, <1>4, <1>5, AdriftThen

LEMMA WaitEndsAdrift ==
  ASSUME ForkTypeOK, Adrift, WaitEnds
  PROVE  FALSE
BY NilDangles DEF WaitEnds, Adrift

LEMMA LastExitAdrift ==
  ASSUME ForkTypeOK, Adrift, LastExit
  PROVE  FALSE
BY NilDangles DEF LastExit, Adrift

LEMMA ExitAdrift ==
  ASSUME ForkTypeOK, ForkTypeOK', Steady, Adrift, stray = "none", stray' = "none", Exit
  PROVE  Adrift'
<1>. USE DEF kidVars, listVars, sigVars, codeVars, pastVars, Same, Goes
<1>1. PICK l, c, s : l = list' /\ c = cur' /\ s = saved'
  OBVIOUS
<1>2. /\ l \in Kids \cup {Nil} /\ c \in Kids \cup {Nil}
      /\ s \in Kids \cup {Nil, Unset} /\ ~Dangles(Nil)
  BY <1>1, NilDangles DEF ForkTypeOK
<1>3. /\ Dangles(l)
      /\ (Killing \/ pc \in {"walk", "suicide"})' => Dangles(c)
      /\ (Killing /\ saved # Unset)' => s # Unset /\ Dangles(s)
  BY <1>1, <1>2 DEF Exit, Adrift, Killing
<1>4. \A x \in Kids \cup {Nil} : Dangles(x) => Dangles(x)'
  BY DanglesStays DEF Exit, Gone, ForkTypeOK
<1>5. pc' # "exited" /\ (Exiting' => caught' = {})
  BY <1>2 DEF Exit, Adrift, Exiting, Killing, Steady, Running
<1>6. QED
  BY <1>1, <1>2, <1>3, <1>4, <1>5, AdriftThen

LEMMA ReaperIdleAdrift ==
  ASSUME ForkTypeOK, ForkTypeOK', Steady, Adrift, stray = "none", stray' = "none",
         ReaperIdle
  PROVE  Adrift'
<1>. USE DEF kidVars, listVars, sigVars, codeVars, pastVars, Same, Goes
<1>1. PICK l, c, s : l = list' /\ c = cur' /\ s = saved'
  OBVIOUS
<1>2. /\ l \in Kids \cup {Nil} /\ c \in Kids \cup {Nil}
      /\ s \in Kids \cup {Nil, Unset} /\ ~Dangles(Nil)
  BY <1>1, NilDangles DEF ForkTypeOK
<1>3. /\ Dangles(l)
      /\ (Killing \/ pc \in {"walk", "suicide"})' => Dangles(c)
      /\ (Killing /\ saved # Unset)' => s # Unset /\ Dangles(s)
  BY <1>1, <1>2 DEF ReaperIdle, Adrift, Killing
<1>4. \A x \in Kids \cup {Nil} : Dangles(x) => Dangles(x)'
  BY DanglesStays DEF ReaperIdle, Gone, ForkTypeOK
<1>5. pc' # "exited" /\ (Exiting' => caught' = {})
  BY <1>2 DEF ReaperIdle, Adrift, Exiting, Killing, Steady, Running
<1>6. QED
  BY <1>1, <1>2, <1>3, <1>4, <1>5, AdriftThen

LEMMA WaitAnyAdrift ==
  ASSUME ForkTypeOK, Adrift, NEW k \in Kids, WaitAny(k)
  PROVE  FALSE
BY NilDangles DEF WaitAny, Adrift

LEMMA ForkFailsAdrift ==
  ASSUME ForkTypeOK, ForkTypeOK', Steady, Adrift, stray = "none", stray' = "none",
         NEW k \in Kids, ForkFails(k)
  PROVE  Adrift'
<1>. USE DEF kidVars, listVars, sigVars, codeVars, pastVars, Same, Goes
<1>1. PICK l, c, s : l = list' /\ c = cur' /\ s = saved'
  OBVIOUS
<1>2. /\ l \in Kids \cup {Nil} /\ c \in Kids \cup {Nil}
      /\ s \in Kids \cup {Nil, Unset} /\ ~Dangles(Nil)
  BY <1>1, NilDangles DEF ForkTypeOK
<1>3. Dangles(l)
  BY <1>1 DEF ForkFails, Adrift
<1>4. k \notin Listed
  BY SteadyListed DEF ForkFails, Known
<1>5. Dangles(l)'
  <2>1. \A h \in Kids : h \in Walked(l, Nil) /\ Gone(h) => Gone(h)'
    BY <1>1, <1>4 DEF ForkFails, Gone, Listed, ForkTypeOK
  <2>2. next' = next
    BY DEF ForkFails
  <2>3. QED
    BY <1>2, <1>3, <2>1, <2>2, DanglesStays
<1>6. pc' # "exited" /\ ~Exiting' /\ ~(Killing \/ pc \in {"walk", "suicide"})'
  BY DEF ForkFails, Exiting, Killing
<1>7. QED
  BY <1>1, <1>5, <1>6, AdriftThen

LEMMA ForkDtorAdrift ==
  ASSUME ForkTypeOK, ForkTypeOK', Steady, Adrift, stray = "none", stray' = "none",
         NEW k \in Kids, ForkDtor(k)
  PROVE  Adrift'
<1>. USE DEF kidVars, listVars, sigVars, codeVars, pastVars, Same, Goes
<1>1. PICK l, c, s : l = list' /\ c = cur' /\ s = saved'
  OBVIOUS
<1>2. /\ l \in Kids \cup {Nil} /\ c \in Kids \cup {Nil}
      /\ s \in Kids \cup {Nil, Unset} /\ ~Dangles(Nil)
  BY <1>1, NilDangles DEF ForkTypeOK
<1>3. /\ Dangles(l)
      /\ (Killing \/ pc \in {"walk", "suicide"})' => Dangles(c)
      /\ (Killing /\ saved # Unset)' => s # Unset /\ Dangles(s)
  BY <1>1, <1>2 DEF ForkDtor, Strays, Adrift, Killing
<1>4. \A x \in Kids \cup {Nil} : Dangles(x) => Dangles(x)'
  BY DanglesStays DEF ForkDtor, Strays, Gone, ForkTypeOK
<1>5. pc' # "exited" /\ (Exiting' => caught' = {})
  BY <1>2 DEF ForkDtor, Strays, Adrift, Exiting, Killing, Steady, Running
<1>6. QED
  BY <1>1, <1>2, <1>3, <1>4, <1>5, AdriftThen

LEMMA KidDiesAdrift ==
  ASSUME ForkTypeOK, ForkTypeOK', Steady, Adrift, stray = "none", stray' = "none",
         NEW k \in Kids, KidDies(k)
  PROVE  Adrift'
<1>. USE DEF kidVars, listVars, sigVars, codeVars, pastVars, Same, Goes
<1>1. PICK l, c, s : l = list' /\ c = cur' /\ s = saved'
  OBVIOUS
<1>2. /\ l \in Kids \cup {Nil} /\ c \in Kids \cup {Nil}
      /\ s \in Kids \cup {Nil, Unset} /\ ~Dangles(Nil)
  BY <1>1, NilDangles DEF ForkTypeOK
<1>3. /\ Dangles(l)
      /\ (Killing \/ pc \in {"walk", "suicide"})' => Dangles(c)
      /\ (Killing /\ saved # Unset)' => s # Unset /\ Dangles(s)
  BY <1>1, <1>2 DEF KidDies, Adrift, Killing
<1>4. \A x \in Kids \cup {Nil} : Dangles(x) => Dangles(x)'
  BY DanglesStays DEF KidDies, Gone, ForkTypeOK
<1>5. pc' # "exited" /\ (Exiting' => caught' = {})
  BY <1>2 DEF KidDies, Adrift, Exiting, Killing, Steady, Running
<1>6. QED
  BY <1>1, <1>2, <1>3, <1>4, <1>5, AdriftThen

LEMMA ReaperAdrift ==
  ASSUME ForkTypeOK, ForkTypeOK', Steady, Adrift, stray = "none", stray' = "none",
         NEW k \in Kids, Reaper(k)
  PROVE  Adrift'
<1>. USE DEF kidVars, listVars, sigVars, codeVars, pastVars, Same, Goes
<1>1. PICK l, c, s : l = list' /\ c = cur' /\ s = saved'
  OBVIOUS
<1>2. /\ l \in Kids \cup {Nil} /\ c \in Kids \cup {Nil}
      /\ s \in Kids \cup {Nil, Unset} /\ ~Dangles(Nil)
  BY <1>1, NilDangles DEF ForkTypeOK
<1>3. /\ Dangles(l)
      /\ (Killing \/ pc \in {"walk", "suicide"})' => Dangles(c)
      /\ (Killing /\ saved # Unset)' => s # Unset /\ Dangles(s)
  BY <1>1, <1>2 DEF Reaper, Adrift, Killing
<1>4. \A x \in Kids \cup {Nil} : Dangles(x) => Dangles(x)'
  BY DanglesStays DEF Reaper, Gone, ForkTypeOK
<1>5. pc' # "exited" /\ (Exiting' => caught' = {})
  BY <1>2 DEF Reaper, Adrift, Exiting, Killing, Steady, Running
<1>6. QED
  BY <1>1, <1>2, <1>3, <1>4, <1>5, AdriftThen

LEMMA SuicideSignalAdrift ==
  ASSUME ForkTypeOK, ForkTypeOK', Steady, Adrift, stray = "none", stray' = "none",
         NEW sig \in Fatal, SuicideSignal(sig)
  PROVE  Adrift'
<1>. USE DEF kidVars, listVars, sigVars, codeVars, pastVars, Same, Goes
<1>1. PICK l, c, s : l = list' /\ c = cur' /\ s = saved'
  OBVIOUS
<1>2. /\ l \in Kids \cup {Nil} /\ c \in Kids \cup {Nil}
      /\ s \in Kids \cup {Nil, Unset} /\ ~Dangles(Nil)
  BY <1>1, NilDangles DEF ForkTypeOK
<1>3. /\ Dangles(l)
      /\ (Killing \/ pc \in {"walk", "suicide"})' => Dangles(c)
      /\ (Killing /\ saved # Unset)' => s # Unset /\ Dangles(s)
  BY <1>1, <1>2 DEF SuicideSignal, Adrift, Killing
<1>4. \A x \in Kids \cup {Nil} : Dangles(x) => Dangles(x)'
  BY DanglesStays DEF SuicideSignal, Gone, ForkTypeOK
<1>5. pc' # "exited" /\ (Exiting' => caught' = {})
  BY <1>2 DEF SuicideSignal, Adrift, Exiting, Killing, Steady, Running
<1>6. QED
  BY <1>1, <1>2, <1>3, <1>4, <1>5, AdriftThen

LEMMA SuicideAdrift ==
  ASSUME ForkTypeOK, ForkTypeOK', Steady, Adrift, stray = "none", stray' = "none",
         NEW sig \in Fatal, Suicide(sig)
  PROVE  Adrift'
<1>. USE DEF kidVars, listVars, sigVars, codeVars, pastVars, Same, Goes
<1>1. PICK l, c, s : l = list' /\ c = cur' /\ s = saved'
  OBVIOUS
<1>2. /\ l \in Kids \cup {Nil} /\ c \in Kids \cup {Nil}
      /\ s \in Kids \cup {Nil, Unset} /\ ~Dangles(Nil)
  BY <1>1, NilDangles DEF ForkTypeOK
<1>3. /\ Dangles(l)
      /\ (Killing \/ pc \in {"walk", "suicide"})' => Dangles(c)
      /\ (Killing /\ saved # Unset)' => s # Unset /\ Dangles(s)
  BY <1>1, <1>2 DEF Suicide, Adrift, Killing
<1>4. \A x \in Kids \cup {Nil} : Dangles(x) => Dangles(x)'
  BY DanglesStays DEF Suicide, Gone, ForkTypeOK
<1>5. pc' # "exited" /\ (Exiting' => caught' = {})
  BY <1>2 DEF Suicide, Adrift, Exiting, Killing, Steady, Running
<1>6. QED
  BY <1>1, <1>2, <1>3, <1>4, <1>5, AdriftThen

LEMMA ForkParentAdrift ==
  ASSUME ForkTypeOK, ForkTypeOK', Steady, Adrift, stray = "none", stray' = "none",
         NEW k \in Kids, NEW kill \in BOOLEAN, ForkParent(k, kill)
  PROVE  Adrift'
<1>. USE DEF kidVars, listVars, sigVars, codeVars, pastVars, Same, Goes
<1>1. PICK l, c, s : l = list' /\ c = cur' /\ s = saved'
  OBVIOUS
<1>2. /\ l \in Kids \cup {Nil} /\ c \in Kids \cup {Nil}
      /\ s \in Kids \cup {Nil, Unset} /\ ~Dangles(Nil)
  BY <1>1, NilDangles DEF ForkTypeOK
<1>3. Dangles(l)
  BY <1>1 DEF ForkParent, Adrift
<1>4. k \notin Listed
  BY SteadyListed DEF ForkParent, Known
<1>5. Dangles(l)'
  <2>1. \A h \in Kids : h \in Walked(l, Nil) /\ Gone(h) => Gone(h)'
    BY <1>1, <1>4 DEF ForkParent, Gone, Listed, ForkTypeOK
  <2>2. next' = next
    BY DEF ForkParent
  <2>3. QED
    BY <1>2, <1>3, <2>1, <2>2, DanglesStays
<1>6. pc' # "exited" /\ ~Exiting' /\ ~(Killing \/ pc \in {"walk", "suicide"})'
  BY DEF ForkParent, Exiting, Killing
<1>7. QED
  BY <1>1, <1>5, <1>6, AdriftThen

LEMMA ForkChildAdrift ==
  ASSUME ForkTypeOK, ForkTypeOK', Steady, Adrift, stray = "none", stray' = "none",
         NEW k \in Kids, NEW kill \in BOOLEAN, ForkChild(k, kill)
  PROVE  Adrift'
<1>. USE DEF kidVars, listVars, sigVars, codeVars, pastVars, Same, Goes
<1>1. PICK l, c, s : l = list' /\ c = cur' /\ s = saved'
  OBVIOUS
<1>2. /\ l \in Kids \cup {Nil} /\ c \in Kids \cup {Nil}
      /\ s \in Kids \cup {Nil, Unset} /\ ~Dangles(Nil)
  BY <1>1, NilDangles DEF ForkTypeOK
<1>3. Dangles(l)
  BY <1>1 DEF ForkChild, Adrift
<1>4. k \notin Listed
  BY SteadyListed DEF ForkChild, Known
<1>5. Dangles(l)'
  <2>1. \A h \in Kids : h \in Walked(l, Nil) /\ Gone(h) => Gone(h)'
    BY <1>1, <1>4 DEF ForkChild, Gone, Listed, ForkTypeOK
  <2>2. next' = next
    BY DEF ForkChild
  <2>3. QED
    BY <1>2, <1>3, <2>1, <2>2, DanglesStays
<1>6. pc' # "exited" /\ ~Exiting' /\ ~(Killing \/ pc \in {"walk", "suicide"})'
  BY DEF ForkChild, Exiting, Killing
<1>7. QED
  BY <1>1, <1>5, <1>6, AdriftThen

LEMMA SetNextAdrift ==
  ASSUME ForkTypeOK, ForkTypeOK', Steady, Adrift, SetNext
  PROVE  Adrift'
<1>. USE DEF kidVars, listVars, sigVars, codeVars, pastVars, Same, Goes
<1>1. cur \in Kids \ Listed /\ pc' = "head" /\ list' = list /\ ent' = ent
  BY DEF Steady, SetNext, Making
<1>2. Listed' = Listed
  BY <1>1, LinkedSame DEF SetNext
<1>3. Dangles(list)'
  BY <1>1, <1>2 DEF Adrift, Dangles, Listed, Gone
<1>4. QED
  BY <1>1, <1>3 DEF Adrift, Killing, Exiting

\* This is where the list comes to hold what has been deleted.
LEMMA SetHeadAdrift ==
  ASSUME ForkTypeOK, ForkTypeOK', Steady, torn => Adrift, torn', SetHead
  PROVE  Adrift'
<1>. USE DEF kidVars, listVars, sigVars, codeVars, pastVars, Same, Goes
<1>1. PICK c \in Kids : c = cur
  BY DEF Steady, SetHead, Making
<1>2. Dangles(next[c])
  <2>1. next[c] = list => torn
    BY <1>1 DEF SetHead
  <2>2. QED
    BY <1>1, <2>1 DEF Steady, SetHead, Adrift
<1>3. Dangles(c)
  BY <1>2, WalkedOne DEF Dangles
<1>4. Dangles(c)'
  BY <1>3, DanglesStays DEF SetHead, Gone
<1>5. Dangles(list)'
  BY <1>1, <1>4 DEF SetHead, Dangles, Walked
<1>6. QED
  BY <1>5 DEF SetHead, Adrift, Killing, Exiting

LEMMA ClearListAdrift ==
  ASSUME ForkTypeOK, Adrift, stray' = "none", ClearList
  PROVE  FALSE
<1>1. ~WalkStrays(Nil)
  BY DEF ClearList, Strays
<1>2. QED
  BY <1>1 DEF Adrift, Dangles, WalkStrays, Gone

LEMMA ReaperUnlinksAdrift ==
  ASSUME ForkTypeOK, ForkTypeOK', Steady, Adrift, stray' = "none", ReaperUnlinks
  PROVE  Adrift'
<1>. USE DEF kidVars, listVars, sigVars, codeVars, pastVars, Same, Goes
<1>1. /\ handled \in Kids /\ ~WalkStrays(handled)
      /\ UNCHANGED <<pc, cur, saved, caught>>
  BY DEF ReaperUnlinks, Strays, ForkTypeOK
<1>2. PICK k \in Kids : k = handled
  BY <1>1
<1>3. PICK l, c, s : l = list' /\ c = cur' /\ s = saved'
  OBVIOUS
<1>4. l \in Kids \cup {Nil} /\ c \in Kids \cup {Nil} /\ s \in Kids \cup {Nil, Unset}
      /\ ~Dangles(Nil)
  BY <1>3, NilDangles DEF ForkTypeOK
<1>5. /\ \A x \in Kids \cup {Nil} : Dangles(x) => Dangles(x)'
      /\ Dangles(l)
  <2>1. CASE k \notin Listed
    <3>1. UNCHANGED <<ent, next, list>>
      BY <1>1, <1>2, <2>1 DEF ReaperUnlinks
    <3>2. QED
      BY <1>3, <3>1, DanglesStays DEF Adrift, Gone
  <2>2. CASE k \in Listed
    <3>1. Unlink(k) /\ ent' = [ent EXCEPT ![k] = "freed"]
      BY <1>1, <1>2, <2>2 DEF ReaperUnlinks
    <3>2. ent[k] # "freed"
      BY <1>1, <1>2, <2>2, WalkedTo DEF WalkStrays
    <3>3. l = list \/ (list = k /\ l = next[k])
      BY <1>3, <3>1 DEF Unlink
    <3>4. Dangles(l)
      BY <3>2, <3>3, DanglesOn DEF Adrift
    <3>5. QED
      BY <3>1, <3>2, <3>4, DanglesUnlinked
  <2>3. QED
    BY <2>1, <2>2
<1>6. /\ (Killing \/ pc \in {"walk", "suicide"})' => Dangles(c)
      /\ (Killing /\ saved # Unset)' => Dangles(s) /\ s # Unset
      /\ pc' # "exited" /\ (Exiting' => caught' = {})
  BY <1>1, <1>3 DEF Adrift, Killing, Exiting
<1>7. QED
  BY <1>3, <1>4, <1>5, <1>6, AdriftThen

LEMMA DtorUnlinksAdrift ==
  ASSUME ForkTypeOK, ForkTypeOK', Steady, Adrift, stray' = "none", DtorUnlinks
  PROVE  Adrift'
<1>. USE DEF kidVars, listVars, sigVars, codeVars, pastVars, Same, Goes
<1>1. PICK k \in Kids : k = cur
  BY DEF Steady, DtorUnlinks, Killing
<1>2. PICK l, c, s : l = list' /\ c = cur' /\ s = saved'
  OBVIOUS
<1>3. l \in Kids \cup {Nil} /\ c \in Kids \cup {Nil}
  BY <1>2 DEF ForkTypeOK
<1>4. /\ Unlink(k) /\ ent' = [ent EXCEPT ![k] = "freed"] /\ ent[k] # "freed"
      /\ caught' = caught /\ saved' = saved
      /\ \/ saved # Unset /\ pc' = "suicide" /\ c = saved
         \/ saved = Unset /\ pc' = "walk" /\ c = next[k]
  BY <1>1, <1>2 DEF DtorUnlinks, Strays
<1>5. Dangles(k) /\ Dangles(next[k])
  BY <1>1, <1>4, DanglesOn DEF Adrift, DtorUnlinks, Killing
<1>6. Dangles(l)
  BY <1>2, <1>4, <1>5 DEF Unlink, Adrift
<1>7. Dangles(c)
  BY <1>4, <1>5 DEF Adrift, Killing, DtorUnlinks
<1>8. Dangles(l)' /\ Dangles(c)'
  BY <1>3, <1>4, <1>6, <1>7, DanglesUnlinked
<1>9. pc' # "exited" /\ ~Killing' /\ (Exiting' => caught' = {})
  BY <1>4 DEF Killing, Exiting, Adrift, DtorUnlinks
<1>10. QED
  BY <1>2, <1>8, <1>9, AdriftThen

LEMMA AdriftStep ==
  ASSUME ForkTypeOK, ForkTypeOK', Steady, Adrift, torn, stray = "none", stray' = "none",
         [ForkNext]_forkVars
  PROVE  Adrift'
<1>1. SetHead => torn'
  BY DEF SetHead
<1>2. CASE SetNext
  BY <1>2, SetNextAdrift
<1>3. CASE SetHead
  BY <1>1, <1>3, SetHeadAdrift
<1>4. CASE ClearList
  BY <1>4, ClearListAdrift
<1>5. CASE SuicideRound
  BY <1>5, SuicideRoundAdrift
<1>6. CASE WalkRound
  BY <1>6, WalkRoundAdrift
<1>7. CASE DtorKills
  BY <1>7, DtorKillsAdrift
<1>8. CASE ReapChild
  BY <1>8, ReapChildAdrift
<1>9. CASE DtorUnlinks
  BY <1>9, DtorUnlinksAdrift
<1>10. CASE WaitEnds
  BY <1>10, WaitEndsAdrift
<1>11. CASE LastExit
  BY <1>11, LastExitAdrift
<1>12. CASE Exit
  BY <1>12, ExitAdrift
<1>13. CASE ReaperIdle
  BY <1>13, ReaperIdleAdrift
<1>14. CASE ReaperUnlinks
  BY <1>14, ReaperUnlinksAdrift
<1>15. ASSUME NEW k \in Kids, WaitAny(k) PROVE Adrift'
  BY <1>15, WaitAnyAdrift
<1>16. ASSUME NEW k \in Kids, ForkFails(k) PROVE Adrift'
  BY <1>16, ForkFailsAdrift
<1>17. ASSUME NEW k \in Kids, ForkDtor(k) PROVE Adrift'
  BY <1>17, ForkDtorAdrift
<1>18. ASSUME NEW k \in Kids, KidDies(k) PROVE Adrift'
  BY <1>18, KidDiesAdrift
<1>19. ASSUME NEW k \in Kids, Reaper(k) PROVE Adrift'
  BY <1>19, ReaperAdrift
<1>20. ASSUME NEW sig \in Fatal, SuicideSignal(sig) PROVE Adrift'
  BY <1>20, SuicideSignalAdrift
<1>21. ASSUME NEW sig \in Fatal, Suicide(sig) PROVE Adrift'
  BY <1>21, SuicideAdrift
<1>22. ASSUME NEW k \in Kids, NEW kill \in BOOLEAN, ForkParent(k, kill) PROVE Adrift'
  BY <1>22, ForkParentAdrift
<1>23. ASSUME NEW k \in Kids, NEW kill \in BOOLEAN, ForkChild(k, kill) PROVE Adrift'
  BY <1>23, ForkChildAdrift
<1>24. CASE UNCHANGED forkVars
  BY <1>24 DEF forkVars, kidVars, listVars, sigVars, codeVars, pastVars, Adrift,
     Dangles, Walked, Gone, Exiting, Killing
<1>25. QED
  BY <1>2, <1>3, <1>4, <1>5, <1>6, <1>7, <1>8, <1>9, <1>10, <1>11, <1>12, <1>13,
     <1>14, <1>15, <1>16, <1>17, <1>18, <1>19, <1>20, <1>21, <1>22, <1>23,
     <1>24 DEF ForkNext, ForkStep, ForkCall, ForkSignal

(***************************************************************************)
(* Core is kept by the steps that leave the links alone ...                *)
(***************************************************************************)

LEMMA SuicideRoundCore ==
  ASSUME ForkTypeOK, ForkTypeOK', Steady, Core, stray = "none", stray' = "none",
         SuicideRound
  PROVE  Core'
<1>. USE DEF kidVars, listVars, sigVars, codeVars, pastVars, Same, Goes, Making, Killing
<1>1. /\ Nil \notin Kids /\ Unset \notin Kids /\ Nil # Unset
      /\ Listed \subseteq Kids /\ Unreaped \subseteq Kids
      /\ list \in Listed \cup {Nil}
      /\ \A j \in Listed : next[j] \in Listed \cup {Nil}
      /\ \A j \in Listed : kid[j] \in Known
  BY Basics, SteadyListed
<1>2. Path' /\ Listed' = Listed
  BY SameList DEF SuicideRound, Strays, Core
<1>3. Alive'
  BY <1>1, <1>2 DEF SuicideRound, Strays, Core, Alive, Unreaped, Known, ForkTypeOK
<1>4. Complete'
  BY <1>1, <1>2 DEF SuicideRound, Strays, Core, Complete, Unreaped, Steady, ForkTypeOK
<1>5. Exact'
  BY <1>1, <1>2 DEF SuicideRound, Strays, Core, Exact, Unreaped, Steady, Known,
     ForkTypeOK
<1>6. Working'
  BY <1>1, <1>2 DEF SuicideRound, Strays, Core, Working, Unreaped, Gone, Steady,
     Running, ForkTypeOK
<1>7. Ending'
  BY <1>1, <1>2 DEF SuicideRound, Strays, Core, Ending, Gone, Steady, ForkTypeOK
<1>8. FlaggedAhead'
  BY <1>1, <1>2 DEF SuicideRound, Strays, Core, FlaggedAhead, Exiting, Rest, Walked,
     ForkTypeOK
<1>9. NoneLeft'
  BY <1>1, <1>2 DEF SuicideRound, Strays, Core, NoneLeft, Exiting, Unreaped, Steady,
     Running, ForkTypeOK
<1>10. QED
  BY <1>2, <1>3, <1>4, <1>5, <1>6, <1>7, <1>8, <1>9 DEF Core

LEMMA DtorKillsCore ==
  ASSUME ForkTypeOK, ForkTypeOK', Steady, Core, stray = "none", stray' = "none",
         DtorKills
  PROVE  Core'
<1>. USE DEF kidVars, listVars, sigVars, codeVars, pastVars, Same, Goes, Making, Killing
<1>1. /\ Nil \notin Kids /\ Unset \notin Kids /\ Nil # Unset
      /\ Listed \subseteq Kids /\ Unreaped \subseteq Kids
      /\ list \in Listed \cup {Nil}
      /\ \A j \in Listed : next[j] \in Listed \cup {Nil}
      /\ \A j \in Listed : kid[j] \in Known
  BY Basics, SteadyListed
<1>2. Path' /\ Listed' = Listed
  BY SameList DEF DtorKills, Strays, Core
<1>3. Alive'
  BY <1>1, <1>2 DEF DtorKills, Strays, Core, Alive, Unreaped, Known, ForkTypeOK
<1>4. Complete'
  BY <1>1, <1>2 DEF DtorKills, Strays, Core, Complete, Unreaped, Steady, ForkTypeOK
<1>5. Exact'
  BY <1>1, <1>2 DEF DtorKills, Strays, Core, Exact, Unreaped, Steady, Known, ForkTypeOK
<1>6. Working'
  BY <1>1, <1>2 DEF DtorKills, Strays, Core, Working, Unreaped, Gone, Steady, Running,
     ForkTypeOK
<1>7. Ending'
  BY <1>1, <1>2 DEF DtorKills, Strays, Core, Ending, Gone, Steady, ForkTypeOK
<1>8. FlaggedAhead'
  BY <1>1, <1>2 DEF DtorKills, Strays, Core, FlaggedAhead, Exiting, Rest, Walked,
     ForkTypeOK
<1>9. NoneLeft'
  BY <1>1, <1>2 DEF DtorKills, Strays, Core, NoneLeft, Exiting, Unreaped, Steady,
     Running, ForkTypeOK
<1>10. QED
  BY <1>2, <1>3, <1>4, <1>5, <1>6, <1>7, <1>8, <1>9 DEF Core

LEMMA ReapChildCore ==
  ASSUME ForkTypeOK, ForkTypeOK', Steady, Core, stray = "none", stray' = "none",
         ReapChild
  PROVE  Core'
<1>. USE DEF kidVars, listVars, sigVars, codeVars, pastVars, Same, Goes, Making, Killing
<1>1. /\ Nil \notin Kids /\ Unset \notin Kids /\ Nil # Unset
      /\ Listed \subseteq Kids /\ Unreaped \subseteq Kids
      /\ list \in Listed \cup {Nil}
      /\ \A j \in Listed : next[j] \in Listed \cup {Nil}
      /\ \A j \in Listed : kid[j] \in Known
  BY Basics, SteadyListed
<1>2. Path' /\ Listed' = Listed
  BY SameList DEF ReapChild, Strays, Waited, Core
<1>3. Alive'
  BY <1>1, <1>2 DEF ReapChild, Strays, Waited, Core, Alive, Unreaped, Known, ForkTypeOK
<1>4. Complete'
  BY <1>1, <1>2 DEF ReapChild, Strays, Waited, Core, Complete, Unreaped, Steady,
     ForkTypeOK
<1>5. Exact'
  BY <1>1, <1>2 DEF ReapChild, Strays, Waited, Core, Exact, Unreaped, Steady, Known,
     ForkTypeOK
<1>6. Working'
  BY <1>1, <1>2 DEF ReapChild, Strays, Waited, Core, Working, Unreaped, Gone, Steady,
     Running, ForkTypeOK
<1>7. Ending'
  BY <1>1, <1>2 DEF ReapChild, Strays, Waited, Core, Ending, Gone, Steady, ForkTypeOK
<1>8. FlaggedAhead'
  BY <1>1, <1>2 DEF ReapChild, Strays, Waited, Core, FlaggedAhead, Exiting, Rest,
     Walked, ForkTypeOK
<1>9. NoneLeft'
  BY <1>1, <1>2 DEF ReapChild, Strays, Waited, Core, NoneLeft, Exiting, Unreaped,
     Steady, Running, ForkTypeOK
<1>10. QED
  BY <1>2, <1>3, <1>4, <1>5, <1>6, <1>7, <1>8, <1>9 DEF Core

LEMMA WaitEndsCore ==
  ASSUME ForkTypeOK, ForkTypeOK', Steady, Core, stray = "none", stray' = "none", WaitEnds
  PROVE  Core'
<1>. USE DEF kidVars, listVars, sigVars, codeVars, pastVars, Same, Goes, Making, Killing
<1>1. /\ Nil \notin Kids /\ Unset \notin Kids /\ Nil # Unset
      /\ Listed \subseteq Kids /\ Unreaped \subseteq Kids
      /\ list \in Listed \cup {Nil}
      /\ \A j \in Listed : next[j] \in Listed \cup {Nil}
      /\ \A j \in Listed : kid[j] \in Known
  BY Basics, SteadyListed
<1>2. Path' /\ Listed' = Listed
  BY SameList DEF WaitEnds, Core
<1>3. Alive'
  BY <1>1, <1>2 DEF WaitEnds, Core, Alive, Unreaped, Known, ForkTypeOK
<1>4. Complete'
  BY <1>1, <1>2 DEF WaitEnds, Core, Complete, Unreaped, Steady, ForkTypeOK
<1>5. Exact'
  BY <1>1, <1>2 DEF WaitEnds, Core, Exact, Unreaped, Steady, Known, ForkTypeOK
<1>6. Working'
  BY <1>1, <1>2 DEF WaitEnds, Core, Working, Unreaped, Gone, Steady, Running, ForkTypeOK
<1>7. Ending'
  BY <1>1, <1>2 DEF WaitEnds, Core, Ending, Gone, Steady, ForkTypeOK
<1>8. FlaggedAhead'
  BY <1>1, <1>2 DEF WaitEnds, Core, FlaggedAhead, Exiting, Rest, Walked, ForkTypeOK
<1>9. NoneLeft'
  <2>1. list = Nil => Listed = {}
    BY WalkedNothing DEF Listed
  <2>2. Unreaped \subseteq unborn
    BY <2>1 DEF WaitEnds, Core, Complete
  <2>3. UNCHANGED <<kid, unborn, caught>>
    BY DEF WaitEnds
  <2>4. QED
    BY <2>2, <2>3 DEF NoneLeft, Unreaped
<1>10. QED
  BY <1>2, <1>3, <1>4, <1>5, <1>6, <1>7, <1>8, <1>9 DEF Core

LEMMA LastExitCore ==
  ASSUME ForkTypeOK, ForkTypeOK', Steady, Core, stray = "none", stray' = "none", LastExit
  PROVE  Core'
<1>. USE DEF kidVars, listVars, sigVars, codeVars, pastVars, Same, Goes, Making, Killing
<1>1. /\ Nil \notin Kids /\ Unset \notin Kids /\ Nil # Unset
      /\ Listed \subseteq Kids /\ Unreaped \subseteq Kids
      /\ list \in Listed \cup {Nil}
      /\ \A j \in Listed : next[j] \in Listed \cup {Nil}
      /\ \A j \in Listed : kid[j] \in Known
  BY Basics, SteadyListed
<1>2. Path' /\ Listed' = Listed
  BY SameList DEF LastExit, Core
<1>3. Alive'
  BY <1>1, <1>2 DEF LastExit, Core, Alive, Unreaped, Known, ForkTypeOK
<1>4. Complete'
  BY <1>1, <1>2 DEF LastExit, Core, Complete, Unreaped, Steady, ForkTypeOK
<1>5. Exact'
  BY <1>1, <1>2 DEF LastExit, Core, Exact, Unreaped, Steady, Known, ForkTypeOK
<1>6. Working'
  BY <1>1, <1>2 DEF LastExit, Core, Working, Unreaped, Gone, Steady, Running, ForkTypeOK
<1>7. Ending'
  BY <1>1, <1>2 DEF LastExit, Core, Ending, Gone, Steady, ForkTypeOK
<1>8. FlaggedAhead'
  BY <1>1, <1>2 DEF LastExit, Core, FlaggedAhead, Exiting, Rest, Walked, ForkTypeOK
<1>9. NoneLeft'
  <2>1. list = Nil
    BY <1>1 DEF LastExit, Core, Ending, Gone
  <2>2. Listed = {}
    BY <2>1, WalkedNothing DEF Listed
  <2>3. Unreaped \subseteq unborn
    BY <2>2 DEF LastExit, Core, Complete
  <2>4. UNCHANGED <<kid, unborn, caught>>
    BY DEF LastExit
  <2>5. QED
    BY <2>3, <2>4 DEF NoneLeft, Unreaped
<1>10. QED
  BY <1>2, <1>3, <1>4, <1>5, <1>6, <1>7, <1>8, <1>9 DEF Core

LEMMA ExitCore ==
  ASSUME ForkTypeOK, ForkTypeOK', Steady, Core, stray = "none", stray' = "none", Exit
  PROVE  Core'
<1>. USE DEF kidVars, listVars, sigVars, codeVars, pastVars, Same, Goes, Making, Killing
<1>1. /\ Nil \notin Kids /\ Unset \notin Kids /\ Nil # Unset
      /\ Listed \subseteq Kids /\ Unreaped \subseteq Kids
      /\ list \in Listed \cup {Nil}
      /\ \A j \in Listed : next[j] \in Listed \cup {Nil}
      /\ \A j \in Listed : kid[j] \in Known
  BY Basics, SteadyListed
<1>2. Path' /\ Listed' = Listed
  BY SameList DEF Exit, Core
<1>3. Alive'
  BY <1>1, <1>2 DEF Exit, Core, Alive, Unreaped, Known, ForkTypeOK
<1>4. Complete'
  BY <1>1, <1>2 DEF Exit, Core, Complete, Unreaped, Steady, ForkTypeOK
<1>5. Exact'
  BY <1>1, <1>2 DEF Exit, Core, Exact, Unreaped, Steady, Known, ForkTypeOK
<1>6. Working'
  BY <1>1, <1>2 DEF Exit, Core, Working, Unreaped, Gone, Steady, Running, ForkTypeOK
<1>7. Ending'
  BY <1>1, <1>2 DEF Exit, Core, Ending, Gone, Steady, ForkTypeOK
<1>8. FlaggedAhead'
  <2>1. PICK from : from = list
    OBVIOUS
  <2>2. Rest' = Walked(from, Nil)'
    BY <2>1 DEF Exit, Rest, Walked
  <2>3. Rest' = Listed
    BY <2>1, <2>2, SameWalk DEF Exit, Listed
  <2>4. QED
    BY <1>2, <2>3 DEF Exit, FlaggedAhead
<1>9. NoneLeft'
  <2>1. SUFFICES ASSUME caught' # {}, NEW k \in Kids, kid'[k] = "running"
                 PROVE  k \in unborn'
    BY DEF Exit, NoneLeft
  <2>2. caught # {} /\ kid[k] = "running"
    BY <2>1 DEF Exit
  <2>3. pc = "suicide" /\ cur = Nil /\ list = Nil
    BY <1>1, <2>2 DEF Exit, Core, Steady, Ending, Gone
  <2>4. Listed = {}
    BY <2>3, WalkedNothing DEF Listed
  <2>5. QED
    BY <2>2, <2>3, <2>4 DEF Exit, Core, Complete, Unreaped
<1>10. QED
  BY <1>2, <1>3, <1>4, <1>5, <1>6, <1>7, <1>8, <1>9 DEF Core

LEMMA ReaperIdleCore ==
  ASSUME ForkTypeOK, ForkTypeOK', Steady, Core, stray = "none", stray' = "none",
         ReaperIdle
  PROVE  Core'
<1>. USE DEF kidVars, listVars, sigVars, codeVars, pastVars, Same, Goes, Making, Killing
<1>1. /\ Nil \notin Kids /\ Unset \notin Kids /\ Nil # Unset
      /\ Listed \subseteq Kids /\ Unreaped \subseteq Kids
      /\ list \in Listed \cup {Nil}
      /\ \A j \in Listed : next[j] \in Listed \cup {Nil}
      /\ \A j \in Listed : kid[j] \in Known
  BY Basics, SteadyListed
<1>2. Path' /\ Listed' = Listed
  BY SameList DEF ReaperIdle, Core
<1>3. Alive'
  BY <1>1, <1>2 DEF ReaperIdle, Core, Alive, Unreaped, Known, ForkTypeOK
<1>4. Complete'
  BY <1>1, <1>2 DEF ReaperIdle, Core, Complete, Unreaped, Steady, ForkTypeOK
<1>5. Exact'
  BY <1>1, <1>2 DEF ReaperIdle, Core, Exact, Unreaped, Steady, Known, ForkTypeOK
<1>6. Working'
  BY <1>1, <1>2 DEF ReaperIdle, Core, Working, Unreaped, Gone, Steady, Running,
     ForkTypeOK
<1>7. Ending'
  BY <1>1, <1>2 DEF ReaperIdle, Core, Ending, Gone, Steady, ForkTypeOK
<1>8. FlaggedAhead'
  BY <1>1, <1>2 DEF ReaperIdle, Core, FlaggedAhead, Exiting, Rest, Walked, ForkTypeOK
<1>9. NoneLeft'
  BY <1>1, <1>2 DEF ReaperIdle, Core, NoneLeft, Exiting, Unreaped, Steady, Running,
     ForkTypeOK
<1>10. QED
  BY <1>2, <1>3, <1>4, <1>5, <1>6, <1>7, <1>8, <1>9 DEF Core

LEMMA WaitAnyCore ==
  ASSUME ForkTypeOK, ForkTypeOK', Steady, Core, stray = "none", stray' = "none",
         NEW k \in Kids, WaitAny(k)
  PROVE  Core'
<1>. USE DEF kidVars, listVars, sigVars, codeVars, pastVars, Same, Goes, Making, Killing
<1>1. /\ Nil \notin Kids /\ Unset \notin Kids /\ Nil # Unset
      /\ Listed \subseteq Kids /\ Unreaped \subseteq Kids
      /\ list \in Listed \cup {Nil}
      /\ \A j \in Listed : next[j] \in Listed \cup {Nil}
      /\ \A j \in Listed : kid[j] \in Known
  BY Basics, SteadyListed
<1>2. Path' /\ Listed' = Listed
  BY SameList DEF WaitAny, Core
<1>3. Alive'
  BY <1>1, <1>2 DEF WaitAny, Core, Alive, Unreaped, Known, ForkTypeOK
<1>4. Complete'
  BY <1>1, <1>2 DEF WaitAny, Core, Complete, Unreaped, Steady, ForkTypeOK
<1>5. Exact'
  BY <1>1, <1>2 DEF WaitAny, Core, Exact, Unreaped, Steady, Known, ForkTypeOK
<1>6. Working'
  BY <1>1, <1>2 DEF WaitAny, Core, Working, Unreaped, Gone, Steady, Running, ForkTypeOK
<1>7. Ending'
  BY <1>1, <1>2 DEF WaitAny, Core, Ending, Gone, Steady, ForkTypeOK
<1>8. FlaggedAhead'
  BY <1>1, <1>2 DEF WaitAny, Core, FlaggedAhead, Exiting, Rest, Walked, ForkTypeOK
<1>9. NoneLeft'
  BY <1>1, <1>2 DEF WaitAny, Core, NoneLeft, Exiting, Unreaped, Steady, Running,
     ForkTypeOK
<1>10. QED
  BY <1>2, <1>3, <1>4, <1>5, <1>6, <1>7, <1>8, <1>9 DEF Core

LEMMA ForkFailsCore ==
  ASSUME ForkTypeOK, ForkTypeOK', Steady, Core, stray = "none", stray' = "none",
         NEW k \in Kids, ForkFails(k)
  PROVE  Core'
<1>. USE DEF kidVars, listVars, sigVars, codeVars, pastVars, Same, Goes, Making, Killing
<1>1. /\ Nil \notin Kids /\ Unset \notin Kids /\ Nil # Unset
      /\ Listed \subseteq Kids /\ Unreaped \subseteq Kids
      /\ list \in Listed \cup {Nil}
      /\ \A j \in Listed : next[j] \in Listed \cup {Nil}
      /\ \A j \in Listed : kid[j] \in Known
  BY Basics, SteadyListed
<1>2. Path' /\ Listed' = Listed
  BY SameList DEF ForkFails, Core
<1>3. Alive'
  BY <1>1, <1>2 DEF ForkFails, Core, Alive, Unreaped, Known, ForkTypeOK
<1>4. Complete'
  BY <1>1, <1>2 DEF ForkFails, Core, Complete, Unreaped, Steady, ForkTypeOK
<1>5. Exact'
  BY <1>1, <1>2 DEF ForkFails, Core, Exact, Unreaped, Steady, Known, ForkTypeOK
<1>6. Working'
  BY <1>1, <1>2 DEF ForkFails, Core, Working, Unreaped, Gone, Steady, Running, ForkTypeOK
<1>7. Ending'
  BY <1>1, <1>2 DEF ForkFails, Core, Ending, Gone, Steady, ForkTypeOK
<1>8. FlaggedAhead'
  BY <1>1, <1>2 DEF ForkFails, Core, FlaggedAhead, Exiting, Rest, Walked, ForkTypeOK
<1>9. NoneLeft'
  BY <1>1, <1>2 DEF ForkFails, Core, NoneLeft, Exiting, Unreaped, Steady, Running,
     ForkTypeOK
<1>10. QED
  BY <1>2, <1>3, <1>4, <1>5, <1>6, <1>7, <1>8, <1>9 DEF Core

LEMMA ForkDtorCore ==
  ASSUME ForkTypeOK, ForkTypeOK', Steady, Core, stray = "none", stray' = "none",
         NEW k \in Kids, ForkDtor(k)
  PROVE  Core'
<1>. USE DEF kidVars, listVars, sigVars, codeVars, pastVars, Same, Goes, Making, Killing
<1>1. /\ Nil \notin Kids /\ Unset \notin Kids /\ Nil # Unset
      /\ Listed \subseteq Kids /\ Unreaped \subseteq Kids
      /\ list \in Listed \cup {Nil}
      /\ \A j \in Listed : next[j] \in Listed \cup {Nil}
      /\ \A j \in Listed : kid[j] \in Known
  BY Basics, SteadyListed
<1>2. Path' /\ Listed' = Listed
  BY SameList DEF ForkDtor, Strays, Core
<1>3. Alive'
  BY <1>1, <1>2 DEF ForkDtor, Strays, Core, Alive, Unreaped, Known, ForkTypeOK
<1>4. Complete'
  BY <1>1, <1>2 DEF ForkDtor, Strays, Core, Complete, Unreaped, Steady, ForkTypeOK
<1>5. Exact'
  BY <1>1, <1>2 DEF ForkDtor, Strays, Core, Exact, Unreaped, Steady, Known, ForkTypeOK
<1>6. Working'
  BY <1>1, <1>2 DEF ForkDtor, Strays, Core, Working, Unreaped, Gone, Steady, Running,
     ForkTypeOK
<1>7. Ending'
  BY <1>1, <1>2 DEF ForkDtor, Strays, Core, Ending, Gone, Steady, ForkTypeOK
<1>8. FlaggedAhead'
  BY <1>1, <1>2 DEF ForkDtor, Strays, Core, FlaggedAhead, Exiting, Rest, Walked,
     ForkTypeOK
<1>9. NoneLeft'
  BY <1>1, <1>2 DEF ForkDtor, Strays, Core, NoneLeft, Exiting, Unreaped, Steady,
     Running, ForkTypeOK
<1>10. QED
  BY <1>2, <1>3, <1>4, <1>5, <1>6, <1>7, <1>8, <1>9 DEF Core

LEMMA KidDiesCore ==
  ASSUME ForkTypeOK, ForkTypeOK', Steady, Core, stray = "none", stray' = "none",
         NEW k \in Kids, KidDies(k)
  PROVE  Core'
<1>. USE DEF kidVars, listVars, sigVars, codeVars, pastVars, Same, Goes, Making, Killing
<1>1. /\ Nil \notin Kids /\ Unset \notin Kids /\ Nil # Unset
      /\ Listed \subseteq Kids /\ Unreaped \subseteq Kids
      /\ list \in Listed \cup {Nil}
      /\ \A j \in Listed : next[j] \in Listed \cup {Nil}
      /\ \A j \in Listed : kid[j] \in Known
  BY Basics, SteadyListed
<1>2. Path' /\ Listed' = Listed
  BY SameList DEF KidDies, Core
<1>3. Alive'
  BY <1>1, <1>2 DEF KidDies, Core, Alive, Unreaped, Known, ForkTypeOK
<1>4. Complete'
  BY <1>1, <1>2 DEF KidDies, Core, Complete, Unreaped, Steady, ForkTypeOK
<1>5. Exact'
  BY <1>1, <1>2 DEF KidDies, Core, Exact, Unreaped, Steady, Known, ForkTypeOK
<1>6. Working'
  BY <1>1, <1>2 DEF KidDies, Core, Working, Unreaped, Gone, Steady, Running, ForkTypeOK
<1>7. Ending'
  BY <1>1, <1>2 DEF KidDies, Core, Ending, Gone, Steady, ForkTypeOK
<1>8. FlaggedAhead'
  BY <1>1, <1>2 DEF KidDies, Core, FlaggedAhead, Exiting, Rest, Walked, ForkTypeOK
<1>9. NoneLeft'
  BY <1>1, <1>2 DEF KidDies, Core, NoneLeft, Exiting, Unreaped, Steady, Running,
     ForkTypeOK
<1>10. QED
  BY <1>2, <1>3, <1>4, <1>5, <1>6, <1>7, <1>8, <1>9 DEF Core

LEMMA ReaperCore ==
  ASSUME ForkTypeOK, ForkTypeOK', Steady, Core, stray = "none", stray' = "none",
         NEW k \in Kids, Reaper(k)
  PROVE  Core'
<1>. USE DEF kidVars, listVars, sigVars, codeVars, pastVars, Same, Goes, Making, Killing
<1>1. /\ Nil \notin Kids /\ Unset \notin Kids /\ Nil # Unset
      /\ Listed \subseteq Kids /\ Unreaped \subseteq Kids
      /\ list \in Listed \cup {Nil}
      /\ \A j \in Listed : next[j] \in Listed \cup {Nil}
      /\ \A j \in Listed : kid[j] \in Known
  BY Basics, SteadyListed
<1>2. Path' /\ Listed' = Listed
  BY SameList DEF Reaper, Core
<1>3. Alive'
  BY <1>1, <1>2 DEF Reaper, Core, Alive, Unreaped, Known, ForkTypeOK
<1>4. Complete'
  BY <1>1, <1>2 DEF Reaper, Core, Complete, Unreaped, Steady, ForkTypeOK
<1>5. Exact'
  BY <1>1, <1>2 DEF Reaper, Core, Exact, Unreaped, Steady, Known, ForkTypeOK
<1>6. Working'
  BY <1>1, <1>2 DEF Reaper, Core, Working, Unreaped, Gone, Steady, Running, ForkTypeOK
<1>7. Ending'
  BY <1>1, <1>2 DEF Reaper, Core, Ending, Gone, Steady, ForkTypeOK
<1>8. FlaggedAhead'
  BY <1>1, <1>2 DEF Reaper, Core, FlaggedAhead, Exiting, Rest, Walked, ForkTypeOK
<1>9. NoneLeft'
  BY <1>1, <1>2 DEF Reaper, Core, NoneLeft, Exiting, Unreaped, Steady, Running,
     ForkTypeOK
<1>10. QED
  BY <1>2, <1>3, <1>4, <1>5, <1>6, <1>7, <1>8, <1>9 DEF Core

LEMMA SuicideSignalCore ==
  ASSUME ForkTypeOK, ForkTypeOK', Steady, Core, stray = "none", stray' = "none",
         NEW sig \in Fatal, SuicideSignal(sig)
  PROVE  Core'
<1>. USE DEF kidVars, listVars, sigVars, codeVars, pastVars, Same, Goes, Making, Killing
<1>1. /\ Nil \notin Kids /\ Unset \notin Kids /\ Nil # Unset
      /\ Listed \subseteq Kids /\ Unreaped \subseteq Kids
      /\ list \in Listed \cup {Nil}
      /\ \A j \in Listed : next[j] \in Listed \cup {Nil}
      /\ \A j \in Listed : kid[j] \in Known
  BY Basics, SteadyListed
<1>2. Path' /\ Listed' = Listed
  BY SameList DEF SuicideSignal, Core
<1>3. Alive'
  BY <1>1, <1>2 DEF SuicideSignal, Core, Alive, Unreaped, Known, ForkTypeOK
<1>4. Complete'
  BY <1>1, <1>2 DEF SuicideSignal, Core, Complete, Unreaped, Steady, ForkTypeOK
<1>5. Exact'
  BY <1>1, <1>2 DEF SuicideSignal, Core, Exact, Unreaped, Steady, Known, ForkTypeOK
<1>6. Working'
  BY <1>1, <1>2 DEF SuicideSignal, Core, Working, Unreaped, Gone, Steady, Running,
     ForkTypeOK
<1>7. Ending'
  BY <1>1, <1>2 DEF SuicideSignal, Core, Ending, Gone, Steady, ForkTypeOK
<1>8. FlaggedAhead'
  BY <1>1, <1>2 DEF SuicideSignal, Core, FlaggedAhead, Exiting, Rest, Walked, ForkTypeOK
<1>9. NoneLeft'
  BY <1>1, <1>2 DEF SuicideSignal, Core, NoneLeft, Exiting, Unreaped, Steady, Running,
     ForkTypeOK
<1>10. QED
  BY <1>2, <1>3, <1>4, <1>5, <1>6, <1>7, <1>8, <1>9 DEF Core

LEMMA SuicideCore ==
  ASSUME ForkTypeOK, ForkTypeOK', Steady, Core, stray = "none", stray' = "none",
         NEW sig \in Fatal, Suicide(sig)
  PROVE  Core'
<1>. USE DEF kidVars, listVars, sigVars, codeVars, pastVars, Same, Goes, Making, Killing
<1>1. /\ Nil \notin Kids /\ Unset \notin Kids /\ Nil # Unset
      /\ Listed \subseteq Kids /\ Unreaped \subseteq Kids
      /\ list \in Listed \cup {Nil}
      /\ \A j \in Listed : next[j] \in Listed \cup {Nil}
      /\ \A j \in Listed : kid[j] \in Known
  BY Basics, SteadyListed
<1>2. Path' /\ Listed' = Listed
  BY SameList DEF Suicide, Core
<1>3. Alive'
  BY <1>1, <1>2 DEF Suicide, Core, Alive, Unreaped, Known, ForkTypeOK
<1>4. Complete'
  BY <1>1, <1>2 DEF Suicide, Core, Complete, Unreaped, Steady, ForkTypeOK
<1>5. Exact'
  BY <1>1, <1>2 DEF Suicide, Core, Exact, Unreaped, Steady, Known, ForkTypeOK
<1>6. Working'
  BY <1>1, <1>2 DEF Suicide, Core, Working, Unreaped, Gone, Steady, Running, ForkTypeOK
<1>7. Ending'
  BY <1>1, <1>2 DEF Suicide, Core, Ending, Gone, Steady, ForkTypeOK
<1>8. FlaggedAhead'
  BY <1>1, <1>2 DEF Suicide, Core, FlaggedAhead, Exiting, Rest, Walked, ForkTypeOK
<1>9. NoneLeft'
  BY <1>1, <1>2 DEF Suicide, Core, NoneLeft, Exiting, Unreaped, Steady, Running,
     ForkTypeOK
<1>10. QED
  BY <1>2, <1>3, <1>4, <1>5, <1>6, <1>7, <1>8, <1>9 DEF Core

LEMMA ForkParentCore ==
  ASSUME ForkTypeOK, ForkTypeOK', Steady, Core, stray = "none", stray' = "none",
         NEW k \in Kids, NEW kill \in BOOLEAN, ForkParent(k, kill)
  PROVE  Core'
<1>. USE DEF kidVars, listVars, sigVars, codeVars, pastVars, Same, Goes, Making, Killing
<1>1. /\ Nil \notin Kids /\ Unset \notin Kids /\ Nil # Unset
      /\ Listed \subseteq Kids /\ Unreaped \subseteq Kids
      /\ list \in Listed \cup {Nil}
      /\ \A j \in Listed : next[j] \in Listed \cup {Nil}
      /\ \A j \in Listed : kid[j] \in Known
  BY Basics, SteadyListed
<1>2. Path' /\ Listed' = Listed
  BY SameList DEF ForkParent, Core
<1>3. Alive'
  BY <1>1, <1>2 DEF ForkParent, Core, Alive, Unreaped, Known, ForkTypeOK
<1>4. Complete'
  BY <1>1, <1>2 DEF ForkParent, Core, Complete, Unreaped, Steady, ForkTypeOK
<1>5. Exact'
  BY <1>1, <1>2 DEF ForkParent, Core, Exact, Unreaped, Steady, Known, ForkTypeOK
<1>6. Working'
  BY <1>1, <1>2 DEF ForkParent, Core, Working, Unreaped, Gone, Steady, Running,
     ForkTypeOK
<1>7. Ending'
  BY <1>1, <1>2 DEF ForkParent, Core, Ending, Gone, Steady, ForkTypeOK
<1>8. FlaggedAhead'
  BY <1>1, <1>2 DEF ForkParent, Core, FlaggedAhead, Exiting, Rest, Walked, ForkTypeOK
<1>9. NoneLeft'
  BY <1>1, <1>2 DEF ForkParent, Core, NoneLeft, Exiting, Unreaped, Steady, Running,
     ForkTypeOK
<1>10. QED
  BY <1>2, <1>3, <1>4, <1>5, <1>6, <1>7, <1>8, <1>9 DEF Core

LEMMA ForkChildCore ==
  ASSUME ForkTypeOK, ForkTypeOK', Steady, Core, stray = "none", stray' = "none",
         NEW k \in Kids, NEW kill \in BOOLEAN, ForkChild(k, kill)
  PROVE  Core'
<1>. USE DEF kidVars, listVars, sigVars, codeVars, pastVars, Same, Goes, Making, Killing
<1>1. /\ Nil \notin Kids /\ Unset \notin Kids /\ Nil # Unset
      /\ Listed \subseteq Kids /\ Unreaped \subseteq Kids
      /\ list \in Listed \cup {Nil}
      /\ \A j \in Listed : next[j] \in Listed \cup {Nil}
      /\ \A j \in Listed : kid[j] \in Known
  BY Basics, SteadyListed
<1>2. Path' /\ Listed' = Listed
  BY SameList DEF ForkChild, Core
<1>3. Alive'
  BY <1>1, <1>2 DEF ForkChild, Core, Alive, Unreaped, Known, ForkTypeOK
<1>4. Complete'
  BY <1>1, <1>2 DEF ForkChild, Core, Complete, Unreaped, Steady, ForkTypeOK
<1>5. Exact'
  BY <1>1, <1>2 DEF ForkChild, Core, Exact, Unreaped, Steady, Known, ForkTypeOK
<1>6. Working'
  BY <1>1, <1>2 DEF ForkChild, Core, Working, Unreaped, Gone, Steady, Running, ForkTypeOK
<1>7. Ending'
  BY <1>1, <1>2 DEF ForkChild, Core, Ending, Gone, Steady, ForkTypeOK
<1>8. FlaggedAhead'
  BY <1>1, <1>2 DEF ForkChild, Core, FlaggedAhead, Exiting, Rest, Walked, ForkTypeOK
<1>9. NoneLeft'
  BY <1>1, <1>2 DEF ForkChild, Core, NoneLeft, Exiting, Unreaped, Steady, Running,
     ForkTypeOK
<1>10. QED
  BY <1>2, <1>3, <1>4, <1>5, <1>6, <1>7, <1>8, <1>9 DEF Core

LEMMA WalkRoundCore ==
  ASSUME ForkTypeOK, ForkTypeOK', Steady, Core, stray = "none", stray' = "none",
         WalkRound
  PROVE  Core'
<1>. USE DEF kidVars, listVars, sigVars, codeVars, pastVars, Same, Goes, Making, Killing
<1>1. /\ Nil \notin Kids /\ Unset \notin Kids /\ Nil # Unset
      /\ Listed \subseteq Kids /\ Unreaped \subseteq Kids
      /\ list \in Listed \cup {Nil}
      /\ \A j \in Listed : next[j] \in Listed \cup {Nil}
  BY Basics
<1>2. Path' /\ Listed' = Listed
  BY SameList DEF WalkRound, Strays, Core
<1>3. cur \in Listed
  BY <1>1 DEF WalkRound, Strays, Core, Working, Gone
<1>4. Alive' /\ Complete' /\ Exact'
  BY <1>1, <1>2 DEF WalkRound, Strays, Core, Alive, Complete, Exact, Unreaped
<1>5. Working'
  BY <1>1, <1>2, <1>3 DEF WalkRound, Strays, Working
<1>6. Ending'
  BY <1>1, <1>2 DEF WalkRound, Strays, Ending, Steady
<1>7. FlaggedAhead'
  <2>1. \A k \in Listed : flag[k] => k \in Rest
    BY <1>3 DEF WalkRound, Core, FlaggedAhead, Exiting
  <2>2. Rest = {cur} \cup Walked(next[cur], Nil)
    BY <1>1, <1>3, WalkedOne DEF Rest
  <2>3. CASE flag[cur]
    <3>1. Rest' = Rest
      BY <2>3 DEF WalkRound, Strays, Rest, Walked
    <3>2. QED
      BY <1>2, <2>1, <3>1 DEF WalkRound, Strays, FlaggedAhead
  <2>4. CASE ~flag[cur]
    <3>1. Rest' = Walked(next[cur], Nil)
      BY <2>4 DEF WalkRound, Strays, Rest, Walked
    <3>2. \A k \in Listed : flag[k] => k \in Rest'
      BY <2>1, <2>2, <2>4, <3>1
    <3>3. QED
      BY <1>2, <3>2 DEF WalkRound, Strays, FlaggedAhead
  <2>5. QED
    BY <2>3, <2>4
<1>8. NoneLeft'
  BY DEF WalkRound, Strays, Core, NoneLeft, Exiting
<1>9. QED
  BY <1>2, <1>4, <1>5, <1>6, <1>7, <1>8 DEF Core

(***************************************************************************)
(* ... and by those that change them.                                      *)
(***************************************************************************)

LEMMA SetNextCore ==
  ASSUME ForkTypeOK, ForkTypeOK', Steady, Core, SetNext
  PROVE  Core'
<1>. USE DEF kidVars, listVars, sigVars, codeVars, pastVars, Same, Goes, Making, Killing
<1>1. cur \in Kids \ Listed
  BY DEF SetNext, Steady
<1>2. Path' /\ Listed' = Listed
  BY <1>1, LinkedBehind DEF SetNext, Core
<1>3. Alive' /\ Complete' /\ Working'
  BY <1>2 DEF SetNext, Core, Alive, Complete, Working, Unreaped
<1>4. Exact'
  BY <1>2 DEF SetNext, Core, Exact, Unreaped
<1>5. Ending' /\ FlaggedAhead' /\ NoneLeft'
  BY DEF SetNext, Core, Ending, FlaggedAhead, NoneLeft, Exiting
<1>6. QED
  BY <1>2, <1>3, <1>4, <1>5 DEF Core

LEMMA SetHeadCore ==
  ASSUME ForkTypeOK, ForkTypeOK', Steady, Core, ~torn', SetHead
  PROVE  Core'
<1>. USE DEF kidVars, listVars, sigVars, codeVars, pastVars, Same, Goes, Making, Killing
<1>1. cur \in Kids \ Listed /\ next[cur] = list
  BY DEF SetHead, Steady
<1>2. Path' /\ Listed' = Listed \cup {cur}
  BY <1>1, LinkedHead DEF SetHead, Core
<1>3. Alive'
  BY <1>2 DEF SetHead, Core, Alive, Exact
<1>4. Complete' /\ Working'
  BY <1>2 DEF SetHead, Core, Complete, Working, Unreaped
<1>5. Exact'
  <2>1. Listed \subseteq Unreaped \cup loose \cup {handled}
        /\ cur \in Unreaped \cup loose \cup {handled}
    BY DEF SetHead, Core, Exact
  <2>2. QED
    BY <1>2, <2>1 DEF SetHead, Core, Exact, Unreaped
<1>6. Ending' /\ FlaggedAhead' /\ NoneLeft'
  BY DEF SetHead, Core, Ending, FlaggedAhead, NoneLeft, Exiting
<1>7. QED
  BY <1>2, <1>3, <1>4, <1>5, <1>6 DEF Core

LEMMA ClearListCore ==
  ASSUME ForkTypeOK, ForkTypeOK', Steady, Core, stray = "none", stray' = "none",
         ClearList
  PROVE  Core'
<1>. USE DEF kidVars, listVars, sigVars, codeVars, pastVars, Same, Goes, Making, Killing
<1>1. list' = Nil /\ pc' = "run" /\ UNCHANGED <<kid, loose, handled, caught>>
  BY DEF ClearList, Strays
<1>2. Path' /\ Listed' = {}
  BY <1>1, ListEmptied
<1>3. Unreaped' = {}
  BY <1>1 DEF ClearList, Core, Exact, Unreaped
<1>4. Alive' /\ Complete' /\ Working' /\ Ending' /\ FlaggedAhead' /\ NoneLeft'
  BY <1>1, <1>2, <1>3 DEF Alive, Complete, Working, Ending, FlaggedAhead, NoneLeft,
     Exiting
<1>5. Exact'
  BY <1>1, <1>2, <1>3 DEF Core, Exact
<1>6. QED
  BY <1>2, <1>4, <1>5 DEF Core

\* A walk of the list finds nothing freed.
LEMMA NoStray ==
  ASSUME Alive, NEW k
  PROVE  ~WalkStrays(k)
BY WalkedPart DEF Alive, WalkStrays

LEMMA ReaperUnlinksCore ==
  ASSUME ForkTypeOK, ForkTypeOK', Steady, Core, stray = "none", ReaperUnlinks
  PROVE  stray' = "none" /\ Core'
<1>. USE DEF kidVars, listVars, sigVars, codeVars, pastVars, Same, Goes, Making, Killing
<1>1. /\ Nil \notin Kids /\ Unset \notin Kids /\ Nil # Unset
      /\ Listed \subseteq Kids /\ Unreaped \subseteq Kids
      /\ list \in Listed \cup {Nil}
      /\ \A j \in Listed : next[j] \in Listed \cup {Nil}
  BY Basics
<1>2. PICK k \in Kids : k = handled
  BY DEF ReaperUnlinks, ForkTypeOK
<1>3. ~WalkStrays(handled)
  BY NoStray DEF Core
<1>4. /\ kid[k] = "reaped" /\ k \notin Unreaped /\ pc # "exited" /\ handled' = Nil
      /\ UNCHANGED <<kid, flag, caught, pc, cur, saved, stray, unborn>>
  BY <1>1, <1>2, <1>3 DEF ReaperUnlinks, Steady, Unreaped, Running
<1>5. Unreaped' = Unreaped
  BY <1>4 DEF Unreaped
<1>6. CASE k \notin Listed
  <2>1. UNCHANGED <<ent, next, list>> /\ loose' = loose \cup {k}
    BY <1>2, <1>3, <1>6 DEF ReaperUnlinks
  <2>2. Path' /\ Listed' = Listed
    BY <2>1, SameList DEF Core
  <2>3. Alive' /\ Complete' /\ Working' /\ Ending' /\ NoneLeft'
    BY <1>1, <1>4, <1>5, <2>1, <2>2 DEF Core, Alive, Complete, Working, Ending, Gone,
       NoneLeft, Exiting
  <2>4. Exact'
    BY <1>1, <1>2, <1>4, <1>5, <2>1, <2>2 DEF Core, Exact
  <2>5. Rest' = Rest
    BY <1>4, <2>1 DEF Rest, Walked
  <2>6. FlaggedAhead'
    BY <1>4, <2>2, <2>5 DEF Core, FlaggedAhead, Exiting
  <2>7. QED
    BY <1>4, <2>2, <2>3, <2>4, <2>6 DEF Core
<1>7. CASE k \in Listed
  <2>1. Unlink(k) /\ ent' = [ent EXCEPT ![k] = "freed"] /\ loose' = loose
    BY <1>2, <1>3, <1>7 DEF ReaperUnlinks
  <2>2. Path' /\ Listed' = Listed \ {k}
    BY <1>7, <2>1, Unlinked DEF Core
  <2>3. Alive'
    BY <2>1, <2>2 DEF Core, Alive, ForkTypeOK
  <2>4. Complete'
    BY <1>4, <1>5, <2>2 DEF Core, Complete
  <2>5. Exact'
    <3>1. Making => cur # k
      BY <1>7 DEF Steady
    <3>2. Making => ent'[cur] = "live"
      BY <2>1, <3>1 DEF Core, Exact, Steady, ForkTypeOK
    <3>3. QED
      BY <1>1, <1>2, <1>4, <1>5, <2>1, <2>2, <3>1, <3>2 DEF Core, Exact
  <2>6. \A x : x = k \/ Gone(x) => Gone(x)'
    BY <2>1 DEF Gone, ForkTypeOK
  <2>7. PICK c, s : c = cur /\ s = saved
    OBVIOUS
  <2>8. /\ Gone(c)' <=> Gone(cur)'
        /\ Gone(s)' <=> Gone(saved)'
    BY <1>4, <2>7 DEF Gone
  <2>9. Working'
    <3>1. c \in Listed => c \in Listed' \/ Gone(c)'
      BY <2>2, <2>6
    <3>2. Gone(c) => Gone(c)'
      BY <2>6
    <3>3. pc = "unlink" => c # k
      BY <1>2, <2>7 DEF Core, Working
    <3>4. QED
      BY <1>1, <1>4, <1>5, <2>2, <2>7, <2>8, <3>1, <3>2, <3>3 DEF Core, Working
  <2>10. Ending'
    <3>1. c = list => c = list' \/ c = k
      BY <2>1 DEF Unlink
    <3>2. c = list /\ c # k /\ c # Nil => next'[c] = IF next[c] = k THEN next[k] ELSE next[c]
      BY <1>1, <1>7, <2>1, UnlinkedNext DEF Core
    <3>3. pc = "suicide" => c = list' \/ Gone(c)'
      BY <2>6, <2>7, <3>1 DEF Core, Ending
    <3>4. Killing /\ saved # Unset =>
            Gone(c)' \/ (c = list' /\ (s = next'[c] \/ Gone(s)'))
      <4>1. SUFFICES ASSUME Killing, saved # Unset, ~Gone(c)'
                     PROVE  c = list' /\ (s = next'[c] \/ Gone(s)')
        OBVIOUS
      <4>2. c = list /\ (s = next[c] \/ Gone(s)) /\ c # k /\ c \in Kids
        BY <2>6, <2>7, <4>1 DEF Core, Ending, Steady
      <4>3. QED
        BY <1>1, <2>6, <3>1, <3>2, <4>2
    <3>5. QED
      BY <1>4, <2>7, <2>8, <3>3, <3>4 DEF Ending
  <2>11. FlaggedAhead'
    <3>1. SUFFICES ASSUME Exiting, c \in Listed' \cup {Nil}, NEW j \in Listed', flag[j]
                   PROVE  j \in Rest'
      BY <1>4, <2>7 DEF FlaggedAhead, Exiting
    <3>2. c \in (Listed \ {k}) \cup {Nil} /\ j \in Listed /\ j # k
      BY <2>2, <3>1
    <3>3. j \in Rest
      BY <2>7, <3>1, <3>2 DEF Core, FlaggedAhead
    <3>4. Rest' = Walked(c, Nil)'
      BY <1>4, <2>7 DEF Rest, Walked
    <3>5. Walked(c, Nil)' = Walked(c, Nil) \ {k}
      BY <1>7, <2>1, <3>2, UnlinkedWalk DEF Core
    <3>6. QED
      BY <2>7, <3>2, <3>3, <3>4, <3>5 DEF Rest
  <2>12. NoneLeft'
    BY <1>4, <1>5 DEF Core, NoneLeft, Exiting
  <2>13. QED
    BY <1>4, <2>2, <2>3, <2>4, <2>5, <2>9, <2>10, <2>11, <2>12 DEF Core
<1>8. QED
  BY <1>6, <1>7

LEMMA DtorUnlinksCore ==
  ASSUME ForkTypeOK, ForkTypeOK', Steady, Core, stray = "none", stray' = "none",
         DtorUnlinks
  PROVE  Core'
<1>. USE DEF kidVars, listVars, sigVars, codeVars, pastVars, Same, Goes, Making, Killing
<1>1. /\ Nil \notin Kids /\ Unset \notin Kids /\ Nil # Unset
      /\ Listed \subseteq Kids /\ Unreaped \subseteq Kids
      /\ list \in Listed \cup {Nil}
      /\ \A j \in Listed : next[j] \in Listed \cup {Nil}
  BY Basics
<1>2. /\ pc = "unlink" /\ Unlink(cur) /\ ent' = [ent EXCEPT ![cur] = "freed"]
      /\ UNCHANGED <<kid, flag, caught, saved, loose, unborn, handled>>
      /\ \/ saved # Unset /\ pc' = "suicide" /\ cur' = saved
         \/ saved = Unset /\ pc' = "walk" /\ cur' = next[cur]
  BY DEF DtorUnlinks, Strays
<1>3. cur \in Listed /\ cur \notin Unreaped /\ ~Gone(cur)
  BY <1>1, <1>2 DEF Core, Working, Alive, Gone
<1>4. Path' /\ Listed' = Listed \ {cur}
  BY <1>2, <1>3, Unlinked DEF Core
<1>5. Unreaped' = Unreaped
  BY <1>2 DEF Unreaped
<1>6. Alive'
  BY <1>2, <1>4 DEF Core, Alive, ForkTypeOK
<1>7. Complete' /\ Exact'
  BY <1>2, <1>3, <1>4, <1>5 DEF Core, Complete, Exact
<1>8. next[cur] \in (Listed \ {cur}) \cup {Nil}
  BY <1>1, <1>3, NoLoop DEF Core
<1>9. ASSUME saved # Unset
      PROVE  /\ (cur = list)' \/ Gone(cur)'
             /\ cur' \in Listed' \cup {Nil} \/ Gone(cur)'
  <2>1. cur = list /\ (saved = next[cur] \/ Gone(saved))
    BY <1>2, <1>3, <1>9 DEF Core, Ending
  <2>2. list' = next[cur] /\ cur' = saved
    BY <1>2, <1>9, <2>1 DEF Unlink
  <2>3. Gone(saved) => Gone(cur)'
    BY <1>2, <2>2 DEF Gone, ForkTypeOK
  <2>4. QED
    BY <1>4, <1>8, <2>1, <2>2, <2>3
<1>10. Working'
  BY <1>2, <1>4, <1>8, <1>9 DEF Working
<1>11. Ending'
  BY <1>2, <1>9 DEF Ending
<1>12. FlaggedAhead'
  <2>1. SUFFICES ASSUME saved = Unset, NEW j \in Listed', flag[j]
                 PROVE  j \in Rest'
    BY <1>2 DEF FlaggedAhead, Exiting
  <2>2. j \in Listed /\ j # cur
    BY <1>4
  <2>3. j \in Rest
    BY <1>2, <1>3, <2>1, <2>2 DEF Core, FlaggedAhead, Exiting
  <2>4. Rest = {cur} \cup Walked(next[cur], Nil)
    BY <1>1, <1>3, WalkedOne DEF Rest
  <2>5. PICK from : from = next[cur]
    OBVIOUS
  <2>6. Rest' = Walked(from, Nil)'
    BY <1>2, <2>1, <2>5 DEF Rest, Walked
  <2>7. Walked(from, Nil)' = Walked(from, Nil) \ {cur}
    BY <1>2, <1>3, <1>8, <2>5, UnlinkedWalk DEF Core
  <2>8. QED
    BY <2>2, <2>3, <2>4, <2>5, <2>6, <2>7
<1>13. NoneLeft'
  BY <1>2 DEF Core, NoneLeft, Exiting
<1>14. QED
  BY <1>4, <1>6, <1>7, <1>10, <1>11, <1>12, <1>13 DEF Core

LEMMA CoreStep ==
  ASSUME ForkTypeOK, ForkTypeOK', Steady, Core, ~torn', stray = "none", stray' = "none",
         [ForkNext]_forkVars
  PROVE  Core'
<1>1. CASE SetNext
  BY <1>1, SetNextCore
<1>2. CASE SetHead
  BY <1>2, SetHeadCore
<1>3. CASE ClearList
  BY <1>3, ClearListCore
<1>4. CASE SuicideRound
  BY <1>4, SuicideRoundCore
<1>5. CASE WalkRound
  BY <1>5, WalkRoundCore
<1>6. CASE DtorKills
  BY <1>6, DtorKillsCore
<1>7. CASE ReapChild
  BY <1>7, ReapChildCore
<1>8. CASE DtorUnlinks
  BY <1>8, DtorUnlinksCore
<1>9. CASE WaitEnds
  BY <1>9, WaitEndsCore
<1>10. CASE LastExit
  BY <1>10, LastExitCore
<1>11. CASE Exit
  BY <1>11, ExitCore
<1>12. CASE ReaperIdle
  BY <1>12, ReaperIdleCore
<1>13. CASE ReaperUnlinks
  BY <1>13, ReaperUnlinksCore
<1>14. ASSUME NEW k \in Kids, WaitAny(k) PROVE Core'
  BY <1>14, WaitAnyCore
<1>15. ASSUME NEW k \in Kids, ForkFails(k) PROVE Core'
  BY <1>15, ForkFailsCore
<1>16. ASSUME NEW k \in Kids, ForkDtor(k) PROVE Core'
  BY <1>16, ForkDtorCore
<1>17. ASSUME NEW k \in Kids, KidDies(k) PROVE Core'
  BY <1>17, KidDiesCore
<1>18. ASSUME NEW k \in Kids, Reaper(k) PROVE Core'
  BY <1>18, ReaperCore
<1>19. ASSUME NEW sig \in Fatal, SuicideSignal(sig) PROVE Core'
  BY <1>19, SuicideSignalCore
<1>20. ASSUME NEW sig \in Fatal, Suicide(sig) PROVE Core'
  BY <1>20, SuicideCore
<1>21. ASSUME NEW k \in Kids, NEW kill \in BOOLEAN, ForkParent(k, kill) PROVE Core'
  BY <1>21, ForkParentCore
<1>22. ASSUME NEW k \in Kids, NEW kill \in BOOLEAN, ForkChild(k, kill) PROVE Core'
  BY <1>22, ForkChildCore
<1>23. CASE UNCHANGED forkVars
  <2>1. Listed' = Listed /\ Unreaped' = Unreaped /\ Path' /\ Rest' = Rest
    BY <1>23, SameList DEF forkVars, listVars, kidVars, codeVars, Core, Unreaped,
       Rest, Walked
  <2>2. QED
    BY <1>23, <2>1 DEF forkVars, kidVars, listVars, sigVars, codeVars, pastVars, Core,
       Alive, Complete, Exact, Working, Gone, Ending, FlaggedAhead, Exiting, NoneLeft,
       Making, Killing
<1>24. QED
  BY <1>1, <1>2, <1>3, <1>4, <1>5, <1>6, <1>7, <1>8, <1>9, <1>10, <1>11, <1>12, <1>13,
     <1>14, <1>15, <1>16, <1>17, <1>18, <1>19, <1>20, <1>21, <1>22,
     <1>23 DEF ForkNext, ForkStep, ForkCall, ForkSignal

(***************************************************************************)
(* The theorems.                                                           *)
(***************************************************************************)

\* A step that touches freed memory leaves the promises as they were.
LEMMA StraysKeeps ==
  ASSUME ForkTypeOK, Sound, stray' # "none", stray = "none", [ForkNext]_forkVars
  PROVE  Promises'
<1>. USE DEF kidVars, listVars, sigVars, codeVars, pastVars, Same, Goes
<1>1. \/ UNCHANGED <<kid, flag, ent, next, list, caught, pc, cur, handled, unborn, loose, torn>>
      \/ pc' = "unlink"
  <2>1. CASE SuicideRound \/ WalkRound \/ DtorKills \/ ReapChild \/ ClearList \/ ReaperUnlinks
    BY <2>1 DEF SuicideRound, WalkRound, DtorKills, ReapChild, ClearList,
       ReaperUnlinks, Strays
  <2>2. CASE DtorUnlinks
    BY <2>2 DEF DtorUnlinks, Strays
  <2>3. ASSUME NEW k \in Kids, ForkDtor(k)
        PROVE  UNCHANGED <<kid, flag, ent, next, list, caught, pc, cur, handled, unborn, loose, torn>>
    BY <2>3 DEF ForkDtor, Strays
  <2>4. CASE SetNext \/ SetHead \/ WaitEnds \/ LastExit \/ Exit \/ ReaperIdle
             \/ (\E sig \in Fatal : SuicideSignal(sig) \/ Suicide(sig)) \/ UNCHANGED forkVars
    BY <2>4 DEF SetNext, SetHead, WaitEnds, LastExit, Exit, SuicideSignal, ReaperIdle,
       Suicide,
                forkVars
  <2>5. ASSUME NEW k \in Kids, WaitAny(k) \/ ForkFails(k) \/ KidDies(k) \/ Reaper(k)
               \/ \E kill \in BOOLEAN : ForkParent(k, kill) \/ ForkChild(k, kill)
        PROVE  FALSE
    BY <2>5 DEF WaitAny, ForkFails, KidDies, Reaper, ForkParent, ForkChild
  <2>6. QED
    BY <2>1, <2>2, <2>3, <2>4, <2>5 DEF ForkNext, ForkStep, ForkCall, ForkSignal
<1>2. Promises
  BY SoundPromises
<1>3. CASE UNCHANGED <<kid, flag, ent, next, list, caught, pc, cur, handled, unborn, loose, torn>>
  <2>1. Listed' = Listed /\ Unreaped' = Unreaped
    BY <1>3, SameList DEF Unreaped
  <2>2. QED
    BY <1>2, <1>3, <2>1 DEF Promises, ListIsChildren, ExitLeavesNoChild,
                            FlaggedKilledFirst, SuicideKillsAll
<1>4. CASE pc' = "unlink"
  BY <1>4 DEF Promises, ListIsChildren, ExitLeavesNoChild, FlaggedKilledFirst,
              SuicideKillsAll
<1>5. QED
  BY <1>1, <1>3, <1>4

\* Nothing happens after freed memory has been touched.
LEMMA OverStays ==
  ASSUME stray # "none", [ForkNext]_forkVars
  PROVE  UNCHANGED forkVars
<1>. USE DEF Goes
<1>1. ~Running
  BY DEF Running
<1>2. ~ForkStep /\ ~ForkCall /\ ~ForkSignal
  BY <1>1 DEF ForkStep, ForkCall, ForkSignal, SetNext, SetHead, ClearList, SuicideRound,
     WalkRound, DtorKills, ReapChild, DtorUnlinks, WaitAny, WaitEnds, LastExit, Exit,
     ForkParent, ForkChild, ForkFails, ForkDtor, KidDies, Reaper, ReaperUnlinks,
     ReaperIdle, Suicide
<1>3. ~(\E sig \in Fatal : SuicideSignal(sig)) /\ ~Exit
  BY <1>1 DEF SuicideSignal, Exit
<1>4. QED
  BY <1>2, <1>3 DEF ForkNext

LEMMA ForkInitIInv ==
  ForkInit => ForkIInv
<1>1. SUFFICES ASSUME ForkInit PROVE ForkIInv
  OBVIOUS
<1>2. ForkTypeOK
  BY <1>1, ForkConstants DEF ForkInit, ForkTypeOK, Nil, Unset
<1>3. Listed = {} /\ Unreaped = {}
  BY <1>1, <1>2, WalkedNothing DEF Listed, Unreaped, ForkInit
<1>4. Core
  BY <1>1, <1>3 DEF ForkInit, Core, Path, Alive, Complete, Exact, Working, Ending,
                    FlaggedAhead, NoneLeft, Exiting, Making, Killing
<1>5. Steady
  BY <1>1 DEF ForkInit, Steady, Making, Killing
<1>6. QED
  BY <1>1, <1>2, <1>4, <1>5 DEF ForkIInv, Sound, ForkInit

LEMMA ForkIInvStep ==
  ForkIInv /\ [ForkNext]_forkVars => ForkIInv'
<1>1. SUFFICES ASSUME ForkIInv, [ForkNext]_forkVars
               PROVE  ForkIInv'
  OBVIOUS
<1>2. ForkTypeOK /\ ForkTypeOK'
  BY <1>1, ForkTypeStep DEF ForkIInv, Sound
<1>3. CASE stray = "none" /\ stray' = "none"
  <2>1. Sound
    BY <1>1, <1>3 DEF ForkIInv
  <2>2. Steady'
    BY <1>1, <1>2, <1>3, <2>1, SteadyStep DEF Sound
  <2>3. CASE torn'
    <3>1. Adrift'
      <4>1. CASE torn
        BY <1>1, <1>2, <1>3, <2>1, <4>1, AdriftStep DEF Sound
      <4>2. CASE ~torn
        <5>1. SetHead
          BY <1>1, <2>3, <4>2 DEF ForkNext, ForkStep, ForkCall, ForkSignal, SetNext,
             ClearList, SuicideRound, WalkRound, DtorKills, ReapChild, DtorUnlinks, WaitAny,
             WaitEnds, LastExit, Exit, ForkParent, ForkChild, ForkFails, ForkDtor, KidDies,
             Reaper, ReaperUnlinks, ReaperIdle, Suicide, SuicideSignal, Strays, Same,
             pastVars, forkVars
        <5>2. QED
          BY <1>2, <2>1, <2>3, <4>2, <5>1, SetHeadAdrift DEF Sound
      <4>3. QED
        BY <4>1, <4>2
    <3>2. QED
      BY <1>2, <1>3, <2>2, <2>3, <3>1 DEF ForkIInv, Sound
  <2>4. CASE ~torn'
    <3>1. ~torn
      BY <1>1, <2>4 DEF ForkNext, ForkStep, ForkCall, ForkSignal, SetNext, SetHead,
         ClearList, SuicideRound, WalkRound, DtorKills, ReapChild, DtorUnlinks, WaitAny,
         WaitEnds, LastExit, Exit, ForkParent, ForkChild, ForkFails, ForkDtor, KidDies,
         Reaper, ReaperUnlinks, ReaperIdle, Suicide, SuicideSignal, Strays, Same,
         pastVars, forkVars
    <3>2. Core'
      BY <1>1, <1>2, <1>3, <2>1, <2>4, <3>1, CoreStep DEF Sound
    <3>3. QED
      BY <1>2, <1>3, <2>2, <2>4, <3>2 DEF ForkIInv, Sound
  <2>5. QED
    BY <2>3, <2>4
<1>4. CASE stray = "none" /\ stray' # "none"
  BY <1>1, <1>2, <1>4, StraysKeeps DEF ForkIInv
<1>5. CASE stray # "none"
  <2>1. UNCHANGED forkVars
    BY <1>1, <1>5, OverStays
  <2>2. UNCHANGED <<kid, flag, ent, next, list, caught, pc, cur, handled, stray, unborn, loose, torn>>
    BY <2>1 DEF forkVars, kidVars, listVars, sigVars, codeVars, pastVars
  <2>3. Listed' = Listed /\ Unreaped' = Unreaped
    BY <2>2, SameList DEF Unreaped
  <2>4. Promises'
    BY <1>1, <1>5, <2>2, <2>3 DEF ForkIInv, Promises, ListIsChildren, ExitLeavesNoChild,
                                  FlaggedKilledFirst, SuicideKillsAll
  <2>5. QED
    BY <1>2, <1>5, <2>2, <2>4 DEF ForkIInv
<1>6. QED
  BY <1>3, <1>4, <1>5

LEMMA ForkInvariant ==
  ForkSpec => []ForkIInv
BY ForkInitIInv, ForkIInvStep, PTL DEF ForkSpec

LEMMA ForkPromises ==
  ForkSpec => []Promises
<1>1. ForkIInv => Promises
  BY SoundPromises DEF ForkIInv
<1>2. QED
  BY <1>1, ForkInvariant, PTL

\* The list between two calls holds exactly the objects of the children nobody
\* has waited for, for any number of children and wherever the handlers came,
\* but for what they came across in the middle of a constructor.
THEOREM ForkListed ==
  ForkSpec => []ListIsChildren
<1>1. Promises => ListIsChildren
  BY DEF Promises
<1>2. QED
  BY <1>1, ForkPromises, PTL

\* However it ends, by exit, by commit_suicide or by one in the middle of the
\* other, the process has waited for every child whose Fork was not interrupted.
THEOREM ForkExits ==
  ForkSpec => []ExitLeavesNoChild
<1>1. Promises => ExitLeavesNoChild
  BY DEF Promises
<1>2. QED
  BY <1>1, ForkPromises, PTL

\* ~KillForks has been to every child with the flag when it begins to wait,
\* although the handler takes objects out of the list it walks.
THEOREM ForkKillsFlagged ==
  ForkSpec => []FlaggedKilledFirst
<1>1. Promises => FlaggedKilledFirst
  BY DEF Promises
<1>2. QED
  BY <1>1, ForkPromises, PTL

\* commit_suicide leaves no child running but the one whose Fork it interrupted,
\* although the handler takes objects out of the list it deletes.
THEOREM ForkKillsAll ==
  ForkSpec => []SuicideKillsAll
<1>1. Promises => SuicideKillsAll
  BY DEF Promises
<1>2. QED
  BY <1>1, ForkPromises, PTL

\* ~ForkProcess and commit_suicide send a signal to no pid that has been waited
\* for, except those commit_suicide met in the list when it came in the middle of
\* exit, of the handler or of a child's constructor.
THEOREM ForkSignalsOwn ==
  ForkSpec => SignalsOwnChild
<1>. DEFINE Own == \A k \in Kids : Signals(k) /\ ~torn =>
                     kid[k] \in {"running", "zombie"} \/ k \in loose
<1>1. ForkIInv /\ [ForkNext]_forkVars => [Own]_forkVars
  <2>. USE DEF kidVars, listVars, sigVars, codeVars, pastVars, Same, Goes
  <2>1. SUFFICES ASSUME ForkIInv, ForkNext, NEW k \in Kids, Signals(k), ~torn
                 PROVE  kid[k] \in {"running", "zombie"} \/ k \in loose
    OBVIOUS
  <2>2. k = cur /\ ((pc = "suicide" /\ pc' = "term") \/ (pc = "term" /\ pc' = "reap"))
    BY <2>1 DEF Signals
  <2>3. SuicideRound \/ DtorKills
    <3>1. ForkStep => SuicideRound \/ DtorKills
      BY <2>2 DEF ForkStep, SetNext, SetHead, ClearList, WalkRound, ReapChild,
                  DtorUnlinks, WaitAny, WaitEnds, LastExit, Exit, ReaperUnlinks, Strays
    <3>2. ~ForkCall
      BY <2>2 DEF ForkCall, ForkParent, ForkChild, ForkFails, ForkDtor
    <3>3. ~ForkSignal /\ ~(\E sig \in Fatal : SuicideSignal(sig)) /\ ~Exit
      BY <2>2 DEF ForkSignal, KidDies, Reaper, ReaperIdle, Suicide, SuicideSignal, Exit
    <3>4. QED
      BY <2>1, <3>1, <3>2, <3>3 DEF ForkNext
  <2>4. ent[k] # "freed" /\ stray = "none" /\ handled = Nil
    BY <2>2, <2>3 DEF SuicideRound, DtorKills, Strays, Running
  <2>5. Core /\ ForkTypeOK
    BY <2>1, <2>4 DEF ForkIInv, Sound
  <2>6. k \in Listed
    BY <2>2, <2>4, <2>5, Basics DEF Core, Working, Gone
  <2>7. Listed \subseteq Unreaped \cup loose \cup {Nil} /\ Nil \notin Kids
    BY <2>2, <2>4, <2>5, Basics DEF Core, Exact
  <2>8. QED
    BY <2>6, <2>7 DEF Unreaped
<1>2. QED
  BY <1>1, ForkInvariant, PTL DEF ForkSpec, SignalsOwnChild
=============================================================================
