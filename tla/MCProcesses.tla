---------------------------- MODULE MCProcesses -----------------------------
(* Model values for the classes that make processes, Fork and the pipe      *)
(* streams.  They do not interact; a behaviour runs one of them.            *)
EXTENDS ForkProcess, PipeStream

CONSTANTS p1, p2, p3

VARIABLE system

processes == <<system, forkVars, pipeVars>>

MCInit ==
  /\ system \in {"fork", "pipe"}
  /\ ForkInit /\ PipeInit

\* fork() hands the pids out in order, as nothing else orders them.
InOrder == {{}, {p1}, {p1, p2}, Kids}

\* Three children come without a signal for commit_suicide.
MCFork ==
  LET given == {k \in Kids : kid[k] # "none"}
  IN /\ ForkNext
     /\ given' \in InOrder
     /\ given' = Kids => armed' = {} /\ \A k \in Kids : kid'[k] # "self"

MCNext ==
  \/ system = "fork" /\ MCFork /\ UNCHANGED <<system, pipeVars>>
  \/ system = "pipe" /\ PipeNext /\ UNCHANGED <<system, forkVars>>

\* The fairness of the system that runs.
MCFair ==
  /\ WF_forkVars(system = "fork" /\ ForkStep)
  /\ \A k \in Kids : WF_forkVars(system = "fork" /\ k \in doomed /\ KidDies(k))
  /\ \A p \in Procs : WF_pipeVars(system = "pipe" /\ ~undefined /\ ProcessEnds(p))

MCSpec == MCInit /\ [][MCNext]_processes /\ MCFair
=============================================================================
