---------------------------- MODULE ForkProcess ----------------------------
(***************************************************************************)
(* The Fork class (src/socket++/fork.cpp): the list of ForkProcess objects *)
(* of one process, the constructor that forks and links, the SIGCHLD       *)
(* handler that reaps one child and frees its object, the destructor that  *)
(* kills and reaps, commit_suicide, and the exit-time destructor of killall*)
(*                                                                         *)
(* A ForkProcess is named by the pid fork() gives it, and its memory is not*)
(* reused.  The handlers run between any two steps of the program, and     *)
(* commit_suicide between any two of reaper_nohang; one walk of the list is*)
(* one step.  Touching freed memory ends the behaviour, with stray set to  *)
(* the routine that did it.  Left out: kill_process(), which nothing calls,*)
(* and the text of infanticide_reason.                                     *)
(***************************************************************************)
EXTENDS Integers, FiniteSets

CONSTANTS
  Kids,       \* the pids fork() may return
  Fatal,      \* the signals commit_suicide may be installed for
  Term        \* SIGTERM

ASSUME ForkConstants ==
  /\ IsFiniteSet(Kids) /\ Kids \cap {"nil", "unset"} = {}
  /\ Term \in Fatal

VARIABLES
  kid,        \* what each pid is to this process
  doomed,     \* the children a fatal signal has been sent to
  ent,        \* the ForkProcess of each pid: "none", "live" or "freed"
  flag,       \* its kill_child
  next,       \* its next
  list,       \* ForkProcess::list
  forks,      \* the Fork objects in scope, by the pid of their process
  sigchld,    \* SIGCHLD is pending
  reaping,    \* reaper_nohang is installed and not blocked for good
  handled,    \* the child reaper_nohang has waited for and looks for in the list
  armed,      \* the signals commit_suicide is installed for
  caught,     \* those it has been entered for; it never returns
  exiting,    \* exit() has been entered
  pc,         \* where the program is
  cur,        \* the ForkProcess it is working on
  saved,      \* commit_suicide's local next
  stray,      \* the routine that touched freed memory, or "none"
  unborn,     \* the child whose Fork commit_suicide interrupted
  loose,      \* children whose object is still listed after they were waited for
  torn        \* a Fork was linked in front of an object already deleted

kidVars == <<kid, doomed, sigchld>>
listVars == <<ent, flag, next, list, forks>>
sigVars == <<reaping, armed, caught>>
codeVars == <<exiting, pc, cur, saved>>
pastVars == <<unborn, loose, torn>>
forkVars == <<kidVars, listVars, sigVars, codeVars, handled, stray, pastVars>>

Nil == "nil"
\* saved outside commit_suicide's loop.
Unset == "unset"

ForkInit ==
  /\ kid = [k \in Kids |-> "none"]
  /\ doomed = {}
  /\ ent = [k \in Kids |-> "none"]
  /\ flag = [k \in Kids |-> FALSE]
  /\ next = [k \in Kids |-> Nil]
  /\ list = Nil
  /\ forks = {}
  /\ sigchld = FALSE
  /\ reaping = FALSE
  /\ handled = Nil
  /\ armed = {} /\ caught = {}
  /\ exiting = FALSE
  /\ pc = "run"
  /\ cur = Nil
  /\ saved = Unset
  /\ stray = "none"
  /\ unborn = {} /\ loose = {} /\ torn = FALSE

\* The children of this process that nobody has waited for.
Unreaped == {k \in Kids : kid[k] \in {"running", "zombie"}}

\* The objects a walk meets that begins at from and stops at to, or at the end:
\* those in every set that has from and the next of each but to.
Walked(from, to) ==
  {k \in Kids :
     \A S \in SUBSET Kids :
       (from \in S \cup {Nil} /\ \A j \in S \ {to} : next[j] \in S \cup {Nil})
         => k \in S}
Listed == Walked(list, Nil)

\* Walking the list as far as k, or to its end, reads a freed object.
WalkStrays(k) == \E j \in Walked(list, k) : ent[j] = "freed"

\* Take k out of the list.
Unlink(k) ==
  /\ list' = IF list = k THEN next[k] ELSE list
  /\ next' = [p \in Kids |-> IF p \in Listed /\ next[p] = k /\ list # k
                             THEN next[k] ELSE next[p]]

Strays(routine) ==
  /\ stray' = routine
  /\ UNCHANGED <<kidVars, listVars, sigVars, codeVars, handled, pastVars>>

Running == stray = "none" /\ pc # "exited"
\* The program goes on: no handler has interrupted it.
Goes == Running /\ handled = Nil
Same == UNCHANGED <<handled, stray, pastVars>>

-----------------------------------------------------------------------------
(* Fork::Fork and Fork::~Fork.                                             *)

\* The parent's side of the constructor up to the return of fork().
ForkParent(k, kill) ==
  /\ Goes /\ pc = "run"
  /\ kid[k] = "none"
  /\ reaping' = (reaping \/ list = Nil)
  /\ kid' = [kid EXCEPT ![k] = "running"]
  /\ ent' = [ent EXCEPT ![k] = "live"]
  /\ flag' = [flag EXCEPT ![k] = kill]
  /\ cur' = k
  /\ pc' = "next"
  /\ Same /\ UNCHANGED <<doomed, next, list, forks, sigchld, armed, caught, exiting, saved>>

\* next = list
SetNext ==
  /\ Goes /\ pc = "next"
  /\ next' = [next EXCEPT ![cur] = list]
  /\ pc' = "head"
  /\ Same /\ UNCHANGED <<kidVars, ent, flag, list, forks, sigVars, exiting, cur, saved>>

\* list = this, and the Fork object is complete.
SetHead ==
  /\ Goes /\ pc = "head"
  /\ list' = cur
  /\ torn' = (torn \/ next[cur] # list)
  /\ forks' = forks \cup {cur}
  /\ pc' = "run"
  /\ cur' = Nil
  /\ UNCHANGED <<kidVars, ent, flag, next, sigVars, exiting, saved, handled, stray,
                 unborn, loose>>

\* The child's side up to the return of fork(); the process followed from here
\* on is the child.  It has a copy of its parent's list.
ForkChild(k, kill) ==
  /\ Goes /\ pc = "run"
  /\ kid[k] = "none"
  /\ reaping' = (reaping \/ list = Nil)
  /\ kid' = [j \in Kids |-> IF j = k THEN "self"
                            ELSE IF kid[j] \in {"running", "zombie", "reaped"}
                            THEN "other" ELSE kid[j]]
  /\ doomed' = {}
  /\ ent' = [ent EXCEPT ![k] = "live"]
  /\ flag' = [flag EXCEPT ![k] = kill]
  /\ sigchld' = FALSE
  /\ cur' = k
  /\ pc' = "clear"
  /\ Same /\ UNCHANGED <<next, list, forks, armed, caught, exiting, saved>>

\* The child frees its copy of the list, not that of its parent's Fork objects.
ClearList ==
  /\ Goes /\ pc = "clear"
  /\ IF WalkStrays(Nil) THEN Strays("ForkProcess")
     ELSE
     /\ ent' = [j \in Kids |-> IF j \in Listed THEN "freed" ELSE ent[j]]
     /\ list' = Nil
     /\ armed' = IF flag[cur] THEN armed \cup {Term} ELSE armed
     /\ forks' = forks \cup {cur}
     /\ pc' = "run"
     /\ cur' = Nil
     /\ Same /\ UNCHANGED <<kidVars, flag, next, reaping, caught, exiting, saved>>

\* fork() returns -1: the object stays out of the list.
ForkFails(k) ==
  /\ Goes /\ pc = "run"
  /\ kid[k] = "none"
  /\ reaping' = (reaping \/ list = Nil)
  /\ kid' = [kid EXCEPT ![k] = "failed"]
  /\ ent' = [ent EXCEPT ![k] = "live"]
  /\ forks' = forks \cup {k}
  /\ Same /\ UNCHANGED <<doomed, flag, next, list, sigchld, armed, caught, codeVars>>

\* ~Fork deletes the ForkProcess only if its pid is not that of a child.
ForkDtor(k) ==
  /\ Goes /\ pc = "run"
  /\ k \in forks
  /\ IF ent[k] = "freed" THEN Strays("~Fork")
     ELSE /\ forks' = forks \ {k}
          /\ ent' = IF kid[k] \in {"self", "failed"}
                    THEN [ent EXCEPT ![k] = "freed"] ELSE ent
          /\ Same /\ UNCHANGED <<kidVars, flag, next, list, sigVars, codeVars>>

SuicideSignal(sig) ==
  /\ Goes /\ pc = "run"
  /\ armed' = armed \cup {sig}
  /\ Same /\ UNCHANGED <<kidVars, listVars, reaping, caught, codeVars>>

-----------------------------------------------------------------------------
(* Children and signals.                                                   *)

\* A child ends, on its own or because of a signal: the parent gets SIGCHLD,
\* which does not queue.
KidDies(k) ==
  /\ Running
  /\ kid[k] = "running"
  /\ kid' = [kid EXCEPT ![k] = "zombie"]
  /\ sigchld' = TRUE
  /\ Same /\ UNCHANGED <<doomed, listVars, sigVars, codeVars>>

\* Slip: the child is waited for, and its object stays in the list.
ReaperKeepsObject(k) ==
  /\ Goes /\ reaping
  /\ sigchld /\ sigchld' = FALSE
  /\ kid[k] = "zombie"
  /\ kid' = [kid EXCEPT ![k] = "reaped"]
  /\ Same /\ UNCHANGED <<doomed, listVars, sigVars, codeVars>>

\* reaper_nohang: one waitpid.
Reaper(k) ==
  /\ Goes /\ reaping
  /\ sigchld /\ sigchld' = FALSE
  /\ kid[k] = "zombie"
  /\ kid' = [kid EXCEPT ![k] = "reaped"]
  /\ handled' = k
  /\ UNCHANGED <<doomed, listVars, sigVars, codeVars, stray, pastVars>>

\* The object of the child waitpid returned, if it is in the list, is taken out
\* of it and deleted.
ReaperUnlinks ==
  /\ Running /\ handled # Nil
  /\ IF WalkStrays(handled) THEN Strays("reaper_nohang")
     ELSE /\ IF handled \in Listed
             THEN /\ Unlink(handled)
                  /\ ent' = [ent EXCEPT ![handled] = "freed"]
                  /\ UNCHANGED loose
             ELSE loose' = loose \cup {handled} /\ UNCHANGED <<ent, next, list>>
          /\ handled' = Nil
          /\ UNCHANGED <<kidVars, flag, forks, sigVars, codeVars, stray, unborn, torn>>

\* reaper_nohang finds nothing to wait for, or SIGCHLD is ignored by default.
ReaperIdle ==
  /\ Goes
  /\ sigchld /\ sigchld' = FALSE
  /\ ~reaping \/ \A k \in Kids : kid[k] # "zombie"
  /\ Same /\ UNCHANGED <<kid, doomed, listVars, sigVars, codeVars>>

\* A signal commit_suicide is installed for comes, wherever the program is, in
\* exit(), in reaper_nohang (SIGCHLD stays blocked then) or in commit_suicide
\* for another one.  It starts at the head of the list.
Suicide(sig) ==
  /\ Running /\ sig \in armed \ caught
  /\ caught' = caught \cup {sig}
  /\ pc' = "suicide"
  /\ cur' = list
  /\ saved' = Unset
  /\ handled' = Nil
  /\ reaping' = (reaping /\ handled = Nil)
  /\ unborn' = IF pc \in {"next", "head"} THEN unborn \cup {cur} ELSE unborn
  /\ loose' = loose \cup (Listed \ Unreaped)
  /\ UNCHANGED <<kidVars, listVars, armed, exiting, stray, torn>>

-----------------------------------------------------------------------------
(* commit_suicide, ~ForkProcess and ~KillForks.                            *)

\* Slip: commit_suicide spares the children without the kill flag.
SuicideSparesUnflagged ==
  /\ Goes /\ pc = "suicide"
  /\ cur # Nil /\ ent[cur] = "live"
  /\ saved' = next[cur]
  /\ pc' = "term"
  /\ Same /\ UNCHANGED <<kidVars, listVars, sigVars, exiting, cur>>

\* One round of commit_suicide: save next, SIGKILL a child ~ForkProcess will not
\* kill, and delete p.
SuicideRound ==
  /\ Goes /\ pc = "suicide"
  /\ cur # Nil
  /\ IF ent[cur] = "freed" THEN Strays("commit_suicide")
     ELSE /\ saved' = next[cur]
          /\ doomed' = IF flag[cur] THEN doomed ELSE doomed \cup {cur}
          /\ pc' = "term"
          /\ Same /\ UNCHANGED <<kid, sigchld, listVars, sigVars, exiting, cur>>

\* exit(): the destructor of killall walks the list; also at the end of main.
Exit ==
  /\ Goes
  /\ \/ pc = "run"
     \/ pc = "suicide" /\ cur = Nil /\ ~exiting
  /\ exiting' = TRUE
  /\ pc' = "walk"
  /\ cur' = list
  /\ saved' = Unset
  /\ Same /\ UNCHANGED <<kidVars, listVars, sigVars>>

\* exit() called again from within: what is left of the first is run, without
\* the destructor that was interrupted.
LastExit ==
  /\ Goes
  /\ pc = "suicide" /\ cur = Nil /\ exiting
  /\ pc' = "exited"
  /\ Same /\ UNCHANGED <<kidVars, listVars, sigVars, exiting, cur, saved>>

\* Slip: the loop of ~KillForks stops at the first child without the flag.
WalkStopsEarly ==
  /\ Goes /\ pc = "walk"
  /\ cur # Nil /\ ent[cur] = "live"
  /\ IF flag[cur] THEN pc' = "term" /\ UNCHANGED cur
                  ELSE cur' = Nil /\ UNCHANGED pc
  /\ Same /\ UNCHANGED <<kidVars, listVars, sigVars, exiting, saved>>

\* The loop of ~KillForks.
WalkRound ==
  /\ Goes /\ pc = "walk"
  /\ cur # Nil
  /\ IF ent[cur] = "freed" THEN Strays("~KillForks")
     ELSE /\ IF flag[cur] THEN pc' = "term" /\ UNCHANGED cur
                          ELSE cur' = next[cur] /\ UNCHANGED pc
          /\ Same /\ UNCHANGED <<kidVars, listVars, sigVars, exiting, saved>>

\* ~ForkProcess sends SIGTERM if kill_child is set.
DtorKills ==
  /\ Goes /\ pc = "term"
  /\ IF ent[cur] = "freed" THEN Strays("~ForkProcess")
     ELSE /\ doomed' = IF flag[cur] THEN doomed \cup {cur} ELSE doomed
          /\ pc' = "reap"
          /\ Same /\ UNCHANGED <<kid, sigchld, listVars, sigVars, exiting, cur, saved>>

Waited(k) == [kid EXCEPT ![k] = IF @ = "zombie" THEN "reaped" ELSE @]

\* Slip: reap_child does not wait (WNOHANG).
ReapNoWait ==
  /\ Goes /\ pc = "reap"
  /\ kid' = Waited(cur)
  /\ pc' = "unlink"
  /\ Same /\ UNCHANGED <<doomed, sigchld, listVars, sigVars, exiting, cur, saved>>

\* reap_child: waitpid returns when the child has ended, or at once with an
\* error if somebody has reaped it or it is a child of the parent.
ReapChild ==
  /\ Goes /\ pc = "reap"
  /\ IF ent[cur] = "freed" THEN Strays("~ForkProcess")
     ELSE /\ kid[cur] # "running"
          /\ kid' = Waited(cur)
          /\ pc' = "unlink"
          /\ Same /\ UNCHANGED <<doomed, sigchld, listVars, sigVars, exiting, cur, saved>>

\* The rest of ~ForkProcess, the delete, and what its caller does next:
\* commit_suicide goes on with the next it saved, ~KillForks reads cur->next
\* after the delete and finds the old value or something else.
DtorUnlinks ==
  /\ Goes /\ pc = "unlink"
  /\ IF ent[cur] = "freed" \/ WalkStrays(cur) THEN Strays("~ForkProcess")
     ELSE /\ Unlink(cur)
          /\ ent' = [ent EXCEPT ![cur] = "freed"]
          /\ IF saved # Unset
             THEN pc' = "suicide" /\ cur' = saved /\ UNCHANGED stray
             ELSE \/ pc' = "walk" /\ cur' = next[cur] /\ UNCHANGED stray
                  \/ stray' = "~KillForks" /\ UNCHANGED <<pc, cur>>
          /\ UNCHANGED <<kidVars, flag, forks, sigVars, exiting, saved, handled, pastVars>>

\* The second loop of ~KillForks: wait(0) until the list is empty or there is
\* no child.  It does not take the child it gets out of the list.
WaitAny(k) ==
  /\ Goes /\ pc = "walk" /\ cur = Nil
  /\ list # Nil
  /\ kid[k] = "zombie"
  /\ kid' = [kid EXCEPT ![k] = "reaped"]
  /\ Same /\ UNCHANGED <<doomed, sigchld, listVars, sigVars, codeVars>>

WaitEnds ==
  /\ Goes /\ pc = "walk" /\ cur = Nil
  /\ list = Nil \/ Unreaped = {}
  /\ pc' = "exited"
  /\ Same /\ UNCHANGED <<kidVars, listVars, sigVars, exiting, cur, saved>>

ForkStep ==
  \/ SetNext \/ SetHead
  \/ SuicideRound \/ WalkRound
  \/ DtorKills \/ ReapChild \/ DtorUnlinks
  \/ \E k \in Kids : WaitAny(k)
  \/ WaitEnds \/ LastExit \/ ClearList
  \/ pc = "suicide" /\ Exit
  \/ ReaperUnlinks

ForkCall ==
  \E k \in Kids :
    \/ \E kill \in BOOLEAN : ForkParent(k, kill) \/ ForkChild(k, kill)
    \/ ForkFails(k) \/ ForkDtor(k)

ForkSignal ==
  \/ \E k \in Kids : KidDies(k) \/ Reaper(k)
  \/ ReaperIdle
  \/ \E sig \in Fatal : Suicide(sig)

ForkNext ==
  ForkStep \/ ForkCall \/ (\E sig \in Fatal : SuicideSignal(sig)) \/ Exit \/ ForkSignal

ForkSpec == ForkInit /\ [][ForkNext]_forkVars

\* The program runs, and a child that was sent a fatal signal ends; the others
\* may run for ever.
ForkFair ==
  /\ WF_forkVars(ForkStep)
  /\ \A k \in Kids : WF_forkVars(k \in doomed /\ KidDies(k))
ForkFairSpec == ForkSpec /\ ForkFair
-----------------------------------------------------------------------------
ForkTypeOK ==
  /\ kid \in [Kids -> {"none", "running", "zombie", "reaped", "self", "other",
                       "failed"}]
  /\ doomed \subseteq Kids /\ forks \subseteq Kids
  /\ ent \in [Kids -> {"none", "live", "freed"}]
  /\ flag \in [Kids -> BOOLEAN]
  /\ next \in [Kids -> Kids \cup {Nil}]
  /\ list \in Kids \cup {Nil} /\ cur \in Kids \cup {Nil}
  /\ handled \in Kids \cup {Nil} /\ saved \in Kids \cup {Nil, Unset}
  /\ sigchld \in BOOLEAN /\ reaping \in BOOLEAN /\ exiting \in BOOLEAN
  /\ armed \subseteq Fatal /\ caught \subseteq Fatal
  /\ pc \in {"run", "next", "head", "clear", "suicide", "walk", "term", "reap",
             "unlink", "exited"}
  /\ stray \in {"none", "ForkProcess", "~Fork", "reaper_nohang", "commit_suicide",
                "~KillForks", "~ForkProcess"}
  /\ unborn \subseteq Kids /\ loose \subseteq Kids /\ torn \in BOOLEAN

\* Between two calls the list holds exactly the objects of the children nobody
\* has waited for, none of them freed: the handler loses none, and keeps none but
\* that of a child it was called for before the child was in the list.
ListIsChildren ==
  pc = "run" /\ handled = Nil /\ ~torn =>
    /\ Listed \ loose = Unreaped
    /\ \A k \in Listed : ent[k] = "live"

\* The process sends a signal to the child whose object it is at.
Signals(k) ==
  /\ k = cur
  /\ \/ pc = "suicide" /\ pc' = "term" /\ ~flag[k]
     \/ pc = "term" /\ pc' = "reap" /\ flag[k]

\* commit_suicide and ~ForkProcess signal only children that have not been
\* waited for, except those whose object was in the list without reason.
SignalsOwnChild ==
  [][\A k \in Kids : Signals(k) /\ ~torn =>
       kid[k] \in {"running", "zombie"} \/ k \in loose]_forkVars

\* When the process ends, by exit, by commit_suicide or by commit_suicide in the
\* middle of exit, it has waited for all its children, but for the one whose Fork
\* a signal for commit_suicide interrupted.
ExitLeavesNoChild == pc = "exited" => Unreaped \subseteq unborn

\* ~KillForks does not wait for children whose flag is set before it has sent
\* them SIGTERM.
FlaggedKilledFirst ==
  pc = "walk" /\ cur = Nil => \A k \in Unreaped : flag[k] => k \in unborn

\* When commit_suicide has gone through the list, no child runs but the one
\* whose Fork it interrupted.
SuicideKillsAll ==
  caught # {} /\ pc \in {"walk", "exited"} =>
    \A k \in Kids : kid[k] = "running" => k \in unborn

\* commit_suicide ends the process although it waits for every child, also for
\* those that would run for ever: it kills each before it waits for it.
SuicideEnds == caught # {} ~> pc = "exited" \/ stray # "none"

\* Fork avoids zombie processes (socket++.texi:2083): while the program runs, a
\* zombie is one the handler is still to be called for.
NoZombies ==
  stray = "none" /\ pc = "run" /\ handled = Nil /\ reaping /\ ~sigchld
    => \A k \in Kids : kid[k] # "zombie"

\* process_id() returns the pid of the child (socket++.texi:2120): the object
\* a Fork points to exists as long as the Fork does.
ForkHasProcess == \A k \in forks : ent[k] = "live"

\* Upon the signal the process kills all its children (socket++.texi:2130): when
\* commit_suicide has gone through the list, none is left running.
SuicideKillsEveryChild ==
  caught # {} /\ pc = "walk" => \A k \in Kids : kid[k] # "running"

\* "if this process has any children we kill them" (fork.cpp:169): what is
\* killed is a child of this process.
KillsOnlyChildren ==
  [][\A k \in Kids : Signals(k) => kid[k] \in {"running", "zombie"}]_forkVars
=============================================================================
