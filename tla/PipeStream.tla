----------------------------- MODULE PipeStream -----------------------------
(***************************************************************************)
(* ipipestream, opipestream and iopipestream (src/socket++/pipestream.cpp):*)
(* a socket pair to a command run by /bin/sh, or a pair whose two ends     *)
(* iopipestream::fork gives to the parent and to the child.                *)
(*                                                                         *)
(* What matters is who holds which end of which pair: a process inherits   *)
(* every descriptor of the program, and a reader sees the end of its stream*)
(* only when nobody holds the other end, or somebody has shut its writing  *)
(* down.  Processes are numbered as they start, 0 is the program.  A       *)
(* process started reads its ends to the end of file and ends.             *)
(***************************************************************************)
EXTENDS Integers, Sequences, SequencesExt, FiniteSets

CONSTANTS
  Streams,    \* the stream objects the program creates, each once
  MaxProcs    \* bound: the processes it starts

ASSUME PipeConstants == IsFiniteSet(Streams) /\ MaxProcs \in Nat

VARIABLES
  kind,       \* each stream: "none", "command", "pair", "forked", "failed"
  objects,    \* the stream objects that exist in each process
  cpid,       \* cpid of the copy of a stream that each process has
  chain,      \* the streams from iopipestream::head on, in the program
  started,    \* the number of processes started
  running,    \* those of them that have not ended
  reads,      \* the ends <<s, e>> that a process reads
  holds,      \* <<p, s, e>> if process p holds end e of stream s open
  shut,       \* the ends whose writing has been shut down
  mixed,      \* history: a command was started while pairs waited for fork()
  undefined   \* fork() walked over a stream that had been deleted

pipeVars == <<kind, objects, cpid, chain, started, running, reads, holds, shut,
              mixed, undefined>>

Procs == 0..MaxProcs
Program == 0

PipeInit ==
  /\ kind = [s \in Streams |-> "none"]
  /\ objects = [p \in Procs |-> {}]
  /\ cpid = [p \in Procs |-> [s \in Streams |-> -1]]
  /\ chain = <<>>
  /\ started = 0
  /\ running = {}
  /\ reads = [p \in Procs |-> {}]
  /\ holds = {}
  /\ shut = {}
  /\ mixed = FALSE
  /\ undefined = FALSE

Child == started + 1
Starts == started' = Child /\ running' = running \cup {Child}

HeldBy(p) == {h \in holds : h[1] = p}
Inherited == {<<Child, h[2], h[3]>> : h \in HeldBy(Program)}
BothEnds(p, s) == {<<p, s, 0>>, <<p, s, 1>>}

-----------------------------------------------------------------------------
(* Streams to a command.                                                   *)

\* Slip: the command keeps the parent's end, too.
CommandKeepsBoth(s) == BothEnds(Child, s)

\* After close and dup2 the command has end 0 of its stream, and no other.
CommandKeeps(s) == {<<Child, s, 0>>}

\* createpipestream, with mode the directions of the program: what the program
\* does not write to the command reads as ended.
OpenCommand(s, mode) ==
  /\ kind[s] = "none" /\ started < MaxProcs
  /\ kind' = [kind EXCEPT ![s] = "command"]
  /\ objects' = [objects EXCEPT ![Program] = @ \cup {s}]
  /\ Starts
  /\ reads' = [reads EXCEPT ![Child] = IF "out" \in mode THEN {<<s, 0>>} ELSE {}]
  /\ holds' = holds \cup Inherited \cup CommandKeeps(s) \cup {<<Program, s, 1>>}
  /\ shut' = IF "out" \in mode THEN shut ELSE shut \cup {<<s, 1>>}
  /\ mixed' = (mixed \/ chain # <<>>)
  /\ UNCHANGED <<cpid, chain, undefined>>

\* vfork fails: the constructor throws and leaves both ends open.
OpenCommandFails(s) ==
  /\ kind[s] = "none"
  /\ kind' = [kind EXCEPT ![s] = "failed"]
  /\ holds' = holds \cup BothEnds(Program, s)
  /\ UNCHANGED <<objects, cpid, chain, started, running, reads, shut, mixed,
                 undefined>>

-----------------------------------------------------------------------------
(* Pairs and fork.                                                         *)

NewPair(s) ==
  /\ kind[s] = "none"
  /\ kind' = [kind EXCEPT ![s] = "pair"]
  /\ objects' = [objects EXCEPT ![Program] = @ \cup {s}]
  /\ holds' = holds \cup BothEnds(Program, s)
  /\ chain' = <<s>> \o chain
  /\ UNCHANGED <<cpid, started, running, reads, shut, mixed,
                 undefined>>

\* Slip: head is left where it was.
ChainKept(walked) == walked

\* head has run to the end of the chain.
ChainLeft(walked) == <<>>

\* Slip: the child keeps the parent's ends open.
ChildClosesNothing(walked) == {}

ChildCloses(walked) == {<<Child, s, 0>> : s \in walked}

\* fork(): each process walks the chain, closes the other's end of every
\* stream and gives the stream a sockbuf on its own end.
Fork ==
  /\ started < MaxProcs
  /\ LET walked == ToSet(chain) IN
     /\ walked \subseteq objects[Program]
     /\ Starts
     /\ kind' = [s \in Streams |-> IF s \in walked THEN "forked" ELSE kind[s]]
     /\ objects' = [objects EXCEPT ![Child] = objects[Program]]
     /\ cpid' = [cpid EXCEPT
          ![Program] = [s \in Streams |-> IF s \in walked THEN Child ELSE @[s]],
          ![Child] = [s \in Streams |->
                        IF s \in walked THEN 0 ELSE cpid[Program][s]]]
     /\ reads' = [reads EXCEPT ![Child] = {<<s, 1>> : s \in walked}]
     /\ holds' = (holds \ {<<Program, s, 1>> : s \in walked})
                   \cup (Inherited \ ChildCloses(walked))
     /\ chain' = ChainLeft(chain)
  /\ UNCHANGED <<shut, mixed, undefined>>

\* A deleted stream is still in the chain: fork() uses what it was.
ForkUndefined ==
  /\ started < MaxProcs
  /\ ~(ToSet(chain) \subseteq objects[Program])
  /\ undefined' = TRUE
  /\ UNCHANGED <<kind, objects, cpid, chain, started, running, reads, holds,
                 shut, mixed>>

-----------------------------------------------------------------------------
(* The program's other calls, and the processes it started.                *)

OwnEnd(s) == IF kind[s] = "command" THEN 1 ELSE 0

\* Slip: deleting a stream to a command leaves the descriptor open.
DestroyClosesForked(s) ==
  IF kind[s] = "forked" THEN {<<Program, s, 0>>} ELSE {}

\* The destructor deletes rdbuf(), which a stream that never forked lacks: its
\* two ends stay open, and the stream in the chain.
DestroyCloses(s) ==
  IF kind[s] \in {"command", "forked"} THEN {<<Program, s, OwnEnd(s)>>} ELSE {}

Destroy(s) ==
  /\ s \in objects[Program]
  /\ objects' = [objects EXCEPT ![Program] = @ \ {s}]
  /\ holds' = holds \ DestroyCloses(s)
  /\ UNCHANGED <<kind, cpid, chain, started, running, reads, shut, mixed,
                 undefined>>

\* shutdown(shut_write) on the stream's sockbuf, for whoever holds that end.
ShutWrite(s) ==
  /\ s \in objects[Program] /\ kind[s] \in {"command", "forked"}
  /\ shut' = shut \cup {<<s, OwnEnd(s)>>}
  /\ UNCHANGED <<kind, objects, cpid, chain, started, running, reads, holds,
                 mixed, undefined>>

AtEof(s, e) ==
  \/ <<s, 1 - e>> \in shut
  \/ \A p \in Procs : <<p, s, 1 - e>> \notin holds

ProcessEnds(p) ==
  /\ p \in running
  /\ \A r \in reads[p] : AtEof(r[1], r[2])
  /\ running' = running \ {p}
  /\ holds' = holds \ HeldBy(p)
  /\ UNCHANGED <<kind, objects, cpid, chain, started, reads, shut, mixed, undefined>>

PipeNext ==
  /\ ~undefined
  /\ \/ \E s \in Streams :
          \/ \E mode \in {{"in"}, {"out"}, {"in", "out"}} : OpenCommand(s, mode)
          \/ OpenCommandFails(s) \/ NewPair(s) \/ Destroy(s) \/ ShutWrite(s)
     \/ Fork \/ ForkUndefined
     \/ \E p \in Procs : ProcessEnds(p)

\* A process that has seen the end of everything it reads ends.
PipeSpec ==
  PipeInit /\ [][PipeNext]_pipeVars
    /\ \A p \in Procs : WF_pipeVars(~undefined /\ ProcessEnds(p))
-----------------------------------------------------------------------------
PipeTypeOK ==
  /\ kind \in [Streams -> {"none", "command", "pair", "forked", "failed"}]
  /\ objects \in [Procs -> SUBSET Streams]
  /\ cpid \in [Procs -> [Streams -> -1..MaxProcs]]
  /\ chain \in Seq(Streams)
  /\ started \in 0..MaxProcs /\ running \subseteq 1..started
  /\ reads \in [Procs -> SUBSET (Streams \X {0, 1})]
  /\ holds \subseteq Procs \X Streams \X {0, 1}
  /\ shut \subseteq Streams \X {0, 1}
  /\ mixed \in BOOLEAN /\ undefined \in BOOLEAN

\* The ends that a process with a copy of stream s should hold, by its pid().
EndsOf(p, s) ==
  CASE kind[s] = "pair" -> {0, 1}
    [] kind[s] = "command" -> {1}
    [] kind[s] = "forked" -> IF cpid[p][s] = 0 THEN {1} ELSE {0}

\* However streams are opened, forked and deleted in between, every process
\* that has a stream holds the end that its pid() says and not the other, and
\* the child that pid() names is the one process where it is 0: fork() takes
\* no stream twice and leaves none out.
EndsApart ==
  \A p \in {Program} \cup running : \A s \in objects[p] :
    /\ {e \in {0, 1} : <<p, s, e>> \in holds} = EndsOf(p, s)
    /\ kind[s] = "forked" /\ p = Program =>
         {q \in Procs : cpid[q][s] = 0} = {cpid[p][s]}

\* No process waits for the end of a stream whose other end it holds itself.
NoSelfWait ==
  \A p \in running : \A r \in reads[p] : <<p, r[1], 1 - r[2]>> \notin holds

\* When the program has deleted its streams, every process it started sees
\* the end of what it reads and ends, although those started later hold ends
\* of the earlier ones' streams, as long as no command is started between the
\* making of a pair and its fork().
ProcessesEnd ==
  objects[Program] = {} ~>
    (running = {} \/ objects[Program] # {} \/ mixed \/ undefined)

\* The child closes s2 and uses s1, the parent closes s1 and uses s2
\* (pipestream.cpp:45): once the program has deleted its streams every process
\* it started sees the end of its own.
EndsAreClosed ==
  objects[Program] = {} ~> (running = {} \/ objects[Program] # {} \/ undefined)
=============================================================================
