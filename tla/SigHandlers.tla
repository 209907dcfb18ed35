---------------------------- MODULE SigHandlers ----------------------------
(***************************************************************************)
(* sig::nal, the one object of class sig (src/socket++/sig.cpp): a list of *)
(* handler objects per signal, the sighandler it installs, which walks the *)
(* list, the nested masks of sigaction and the mask of the process.        *)
(*                                                                         *)
(* What runs is a stack of contexts: the program at the bottom, above it   *)
(* one walk per signal being handled, each over what it interrupted.  A    *)
(* handler may itself call set, unset, mask, unmask and kill.  A call is   *)
(* the sequence of its looks at the list and its sigaction calls, and a    *)
(* signal, with all that its handlers call, may come between any two.      *)
(* Where the code's behaviour is undefined from then on (a list used while *)
(* a call below is in the middle of changing it, a walk whose node has     *)
(* been erased, the pure operator() of a handler that is not wholly        *)
(* constructed) the model records why and stops; a list used while a call  *)
(* below stands before or after its change is used as it is.  A call for   *)
(* an illegal signal throws sigerr before it changes anything: left out.   *)
(***************************************************************************)
EXTENDS Integers, Sequences, SequencesExt

CONSTANTS
  Signals,    \* the signals the program uses
  Handlers,   \* the sig::hnd objects it creates, each once
  MaxDepth,   \* bound: the contexts on the stack
  MaxCalls    \* bound: the calls the program and its handlers make

ASSUME SigConstants ==
  /\ MaxDepth \in Nat /\ MaxCalls \in Nat
  /\ "none" \notin Signals /\ "end" \notin Handlers

VARIABLES
  disp,       \* sa_handler of each signal: "dfl" or "sig" (sighandler)
  samask,     \* sa_mask of each signal
  smap,       \* the list of each signal: nodes, of a handler each
  stage,      \* "none", "base" (sig::hnd alone is there), "whole", "dying"
              \* (sig::hnd alone is left) or "gone"
  own,        \* the signal an object was constructed for
  blocked,    \* the signal mask of the process
  stack,      \* the contexts, the running one last
  asked,      \* history: the nested masks asked for and not taken back
  undone,     \* history: the signals for which a set and an unset(signo)
              \* met, one in the middle of the other
  lost,       \* history: the signals whose sigaction a mask(siga, sigb)
              \* changed between the read and the write of another call
  made,       \* the number of calls made
  undefined   \* "no", or why nothing is known any more

installVars == <<disp, samask, asked>>
objectVars == <<stage, own>>
meetVars == <<undone, lost>>
sigVars == <<installVars, smap, objectVars, blocked, stack, meetVars, made,
             undefined>>

NoSignal == "none"

\* A node of a list, told from an other of the same handler by a number.
Nodes == Handlers \X Nat
End == <<"end", 0>>

\* sigaction(signo, 0, &sa).
Unread == [handler |-> "dfl", mask |-> {}]
Read(s) == [handler |-> disp[s], mask |-> samask[s]]

\* A call: what it does next, and the struct sigaction it read.
Op(kind, s, arg) ==
  [kind |-> kind, sig |-> s, arg |-> arg, sa |-> Unread,
   step |-> IF kind \in {"mask", "unmask"} THEN "read" ELSE "list"]

NoOp == [kind |-> "none", sig |-> NoSignal, arg |-> NoSignal, sa |-> Unread,
         step |-> "none"]

\* A context: the signal it handles (NoSignal for the program), whether
\* the kernel started it (and not kill), where its walk stands, whether the
\* handler there is running, the call it is in, the mask to restore, and for
\* the properties the nodes called, those that were on the list from its
\* beginning on, and the signals mask(signo, ...) was asked to hold off.
Context(s, hard) ==
  [sig |-> s, hard |-> hard, calling |-> FALSE, op |-> NoOp, saved |-> blocked,
   at |-> IF s = NoSignal \/ smap[s] = <<>> THEN End ELSE Head(smap[s]),
   called |-> <<>>,
   stayed |-> IF s = NoSignal THEN {} ELSE ToSet(smap[s]),
   held |-> IF s = NoSignal \/ ~hard THEN {} ELSE asked[s]]

SigInit ==
  /\ disp = [s \in Signals |-> "dfl"]
  /\ samask = [s \in Signals |-> {}]
  /\ smap = [s \in Signals |-> <<>>]
  /\ stage = [h \in Handlers |-> "none"]
  /\ own = [h \in Handlers |-> NoSignal]
  /\ blocked = {}
  /\ asked = [s \in Signals |-> {}]
  /\ undone = {} /\ lost = {}
  /\ stack = <<Context(NoSignal, FALSE)>>
  /\ made = 0
  /\ undefined = "no"

Top == Last(stack)
SetTop(ctx) == stack' = Append(Front(stack), ctx)

\* The running context is in code that can make a call of sig.
CanCall ==
  /\ Top.op = NoOp
  /\ Top.sig = NoSignal \/ Top.calling

\* The running context goes on with this call.
Goes(op) == SetTop([Top EXCEPT !.op = op])
OpEnds == Goes(NoOp)

Undefined(why) ==
  /\ undefined' = why
  /\ UNCHANGED <<installVars, smap, objectVars, blocked, stack, meetVars>>

-----------------------------------------------------------------------------
(* The calls: set, unset, mask, unmask.                                    *)

\* One of a set and an unset(signo) runs where the other has seen the list
\* and the sigaction agree and has not changed both.
Undoes(outer, kind) ==
  \/ outer.kind = "set" /\ outer.step = "push" /\ kind = "unset all"
  \/ outer.kind = "unset all" /\ outer.step \in {"read", "write"} /\ kind = "set"

\* mask(siga, sigb) runs where another call is about to write what it read.
Loses(outer, kind) ==
  /\ outer.kind \in {"set", "mask", "unmask"} /\ outer.step = "write"
  /\ kind = "mask"

Below == 1..(Len(stack) - 1)

Note(op) ==
  /\ undone' = undone \cup
       {s \in {op.sig} : \E i \in Below : stack[i].op.sig = s
                                          /\ Undoes(stack[i].op, op.kind)}
  /\ lost' = lost \cup
       {s \in {op.sig} : \E i \in Below : stack[i].op.sig = s
                                          /\ Loses(stack[i].op, op.kind)}

Begin(op) ==
  /\ CanCall
  /\ Goes(op)
  /\ Note(op)
  /\ UNCHANGED <<installVars, smap, objectVars, blocked, undefined>>

Call(kind, s, arg) == Begin(Op(kind, s, arg))

At(kind, step) == Top.op.kind = kind /\ Top.op.step = step
OpAt(step) == [Top.op EXCEPT !.step = step]

Install(s, handler, mask) ==
  /\ disp' = [disp EXCEPT ![s] = handler]
  /\ samask' = [samask EXCEPT ![s] = mask]

\* set looks at the list: sigaction matters only if it is empty.
SetLooks ==
  /\ At("set", "list")
  /\ LET list == smap[Top.op.sig] IN
     IF list = <<>> THEN Goes(OpAt("read"))
     ELSE IF \E node \in ToSet(list) : node[1] = Top.op.arg THEN OpEnds
     ELSE Goes(OpAt("push"))
  /\ UNCHANGED <<installVars, smap, objectVars, blocked, meetVars, undefined>>

\* Slip: sighandler is installed afresh even if it is there.
NextStepAfresh(kind, handler) == "write"

\* What follows sigaction(signo, 0, &sa): set writes only if sighandler is
\* not there yet, unset(signo) only if it is, mask and unmask always.
NextStep(kind, handler) ==
  IF kind = "set" /\ handler = "sig" THEN "push"
  ELSE IF kind = "unset all" /\ handler = "dfl" THEN "done"
  ELSE "write"

Reads ==
  /\ Top.op.step = "read"
  /\ LET s == Top.op.sig
         step == NextStep(Top.op.kind, disp[s])
     IN IF step = "done"
        THEN OpEnds /\ asked' = [asked EXCEPT ![s] = {}]
        ELSE /\ Goes([Top.op EXCEPT !.step = step, !.sa = Read(s)])
             /\ UNCHANGED asked
  /\ UNCHANGED <<disp, samask, smap, objectVars, blocked, meetVars, undefined>>

SetWrites ==
  /\ At("set", "write")
  /\ Install(Top.op.sig, "sig", {})
  /\ Goes(OpAt("push"))
  /\ UNCHANGED <<smap, objectVars, blocked, asked, meetVars, undefined>>

\* push_back whatever came onto the list since set looked.
SetPushes ==
  /\ At("set", "push")
  /\ LET s == Top.op.sig
         h == Top.op.arg
     IN \E k \in 0..Len(smap[s]) :
          /\ <<h, k>> \notin ToSet(smap[s])
          /\ \A j \in 0..(k - 1) : <<h, j>> \in ToSet(smap[s])
          /\ smap' = [smap EXCEPT ![s] = Append(@, <<h, k>>)]
  /\ OpEnds
  /\ UNCHANGED <<installVars, objectVars, blocked, meetVars, undefined>>

\* The mask a call adds to or takes from: what it read, unless sighandler
\* was not there.
MaskRead == IF Top.op.sa.handler = "sig" THEN Top.op.sa.mask ELSE {}

\* mask(siga, sigb): sighandler is installed even if siga has no handler.
MaskWrites ==
  /\ At("mask", "write")
  /\ LET s == Top.op.sig IN
     /\ Install(s, "sig", MaskRead \cup {Top.op.arg})
     /\ asked' = [asked EXCEPT ![s] = @ \cup {Top.op.arg}]
  /\ OpEnds
  /\ UNCHANGED <<smap, objectVars, blocked, meetVars, undefined>>

UnmaskWrites ==
  /\ At("unmask", "write")
  /\ LET s == Top.op.sig IN
     /\ Install(s, "sig", MaskRead \ {Top.op.arg})
     /\ asked' = [asked EXCEPT ![s] = @ \ {Top.op.arg}]
  /\ OpEnds
  /\ UNCHANGED <<smap, objectVars, blocked, meetVars, undefined>>

\* The first node of h, which find returns, and the list without it.
IsFirst(list, h, i) ==
  /\ i \in DOMAIN list /\ list[i][1] = h
  /\ \A j \in 1..(i - 1) : list[j][1] # h

\* The contexts, of which the running one goes on with op, after nodes have
\* left the list of s.
Left(s, nodes, op) ==
  [i \in DOMAIN stack |->
     LET ctx == IF i = Len(stack) THEN [stack[i] EXCEPT !.op = op]
                ELSE stack[i]
     IN IF ctx.sig = s THEN [ctx EXCEPT !.stayed = @ \ nodes] ELSE ctx]

\* A walk stands at one of these nodes of the list of s.
WalkedAt(s, nodes) ==
  \E i \in DOMAIN stack : stack[i].sig = s /\ stack[i].at \in nodes

\* ~hnd ends with the call of unset.
Goner(h) == [stage EXCEPT ![h] = IF @ = "dying" THEN "gone" ELSE @]

\* The last handler taken off leaves sighandler installed.
UnsetFinds ==
  /\ At("unset", "list")
  /\ LET s == Top.op.sig IN
     \E i \in DOMAIN smap[s] :
       /\ IsFirst(smap[s], Top.op.arg, i)
       /\ ~WalkedAt(s, {smap[s][i]})
       /\ smap' = [smap EXCEPT ![s] = RemoveAt(@, i)]
       /\ stack' = Left(s, {smap[s][i]}, NoOp)
  /\ stage' = Goner(Top.op.arg)
  /\ UNCHANGED <<installVars, own, blocked, meetVars, undefined>>

UnsetMisses ==
  /\ At("unset", "list")
  /\ \A node \in ToSet(smap[Top.op.sig]) : node[1] # Top.op.arg
  /\ OpEnds
  /\ stage' = Goner(Top.op.arg)
  /\ UNCHANGED <<installVars, smap, own, blocked, meetVars, undefined>>

\* Slip: the list is kept, only the disposition is reset.
ClearedKept(s) == smap[s]

Cleared(s) == <<>>

\* unset(signo): all handlers off first, the default disposition after it;
\* the nested masks go with that.
UnsetAllErases ==
  /\ At("unset all", "list")
  /\ LET s == Top.op.sig IN
     /\ ~WalkedAt(s, ToSet(smap[s]))
     /\ smap' = [smap EXCEPT ![s] = Cleared(s)]
     /\ stack' = Left(s, ToSet(smap[s]), OpAt("read"))
  /\ UNCHANGED <<installVars, objectVars, blocked, meetVars, undefined>>

UnsetAllWrites ==
  /\ At("unset all", "write")
  /\ LET s == Top.op.sig IN
     /\ Install(s, "dfl", {})
     /\ asked' = [asked EXCEPT ![s] = {}]
  /\ OpEnds
  /\ UNCHANGED <<smap, objectVars, blocked, meetVars, undefined>>

\* Erasing the node a walk stands at leaves its iterator without a node.
ErasesUnderWalk ==
  /\ \/ /\ At("unset", "list")
        /\ \E i \in DOMAIN smap[Top.op.sig] :
             /\ IsFirst(smap[Top.op.sig], Top.op.arg, i)
             /\ WalkedAt(Top.op.sig, {smap[Top.op.sig][i]})
     \/ /\ At("unset all", "list")
        /\ WalkedAt(Top.op.sig, ToSet(smap[Top.op.sig]))
  /\ Undefined("race")

\* mask(signo) and unmask(signo): one sigprocmask.  A handler that unmasks a
\* signal no longer holds it off, and neither do those it interrupted.
Block(s) ==
  /\ CanCall
  /\ blocked' = blocked \cup {s}
  /\ UNCHANGED <<installVars, smap, objectVars, stack, meetVars, undefined>>

Unblock(s) ==
  /\ CanCall
  /\ blocked' = blocked \ {s}
  /\ stack' = [i \in DOMAIN stack |-> [stack[i] EXCEPT !.held = @ \ {s}]]
  /\ UNCHANGED <<installVars, smap, objectVars, meetVars, undefined>>

-----------------------------------------------------------------------------
(* Handler objects, constructed and deleted by the program.                *)

InProgram == Len(stack) = 1 /\ CanCall

\* sig::hnd::hnd calls set before the class derived from it is constructed.
Construct(h, s) ==
  /\ InProgram
  /\ stage[h] = "none"
  /\ stage' = [stage EXCEPT ![h] = "base"]
  /\ own' = [own EXCEPT ![h] = s]
  /\ Goes(Op("set", s, h))
  /\ UNCHANGED <<installVars, smap, blocked, meetVars, undefined>>

Complete(h) ==
  /\ InProgram
  /\ stage[h] = "base"
  /\ stage' = [stage EXCEPT ![h] = "whole"]
  /\ UNCHANGED <<installVars, smap, own, blocked, stack, meetVars, undefined>>

\* The nodes of h on a list.
NodesOf(list, h) == {i \in DOMAIN list : list[i][1] = h}

\* The derived class is destroyed before sig::hnd::~hnd calls unset, once and
\* for the signal of the constructor alone: the program has to take the
\* handler off the other lists first, and off its own if it is there twice.
Destroy(h) ==
  /\ InProgram
  /\ stage[h] = "whole"
  /\ \A s \in Signals \ {own[h]} : NodesOf(smap[s], h) = {}
  /\ \A i, j \in NodesOf(smap[own[h]], h) : i = j
  /\ stage' = [stage EXCEPT ![h] = "dying"]
  /\ Goes(Op("unset", own[h], h))
  /\ UNCHANGED <<installVars, smap, own, blocked, meetVars, undefined>>

-----------------------------------------------------------------------------
(* Signals and walks.                                                      *)

\* The kernel starts sighandler with the signal and its sa_mask blocked.  A
\* signal with the default disposition ends the program; one that is blocked
\* arrives when it is not any more.
Deliver(s) ==
  /\ s \notin blocked /\ disp[s] = "sig"
  /\ Len(stack) < MaxDepth
  /\ stack' = Append(stack, Context(s, TRUE))
  /\ blocked' = blocked \cup {s} \cup samask[s]
  /\ UNCHANGED <<installVars, smap, objectVars, meetVars, undefined>>

\* kill(signo) is the walk itself, without the kernel: no mask, no sigaction.
Kill(s) ==
  /\ CanCall
  /\ Len(stack) < MaxDepth
  /\ stack' = Append(stack, Context(s, FALSE))
  /\ UNCHANGED <<installVars, smap, objectVars, blocked, meetVars, undefined>>

Walking == Top.sig # NoSignal /\ ~Top.calling /\ Top.op = NoOp

\* for_each calls the handler at the iterator.
CallHandler ==
  /\ Walking /\ Top.at # End
  /\ IF stage[Top.at[1]] # "whole" THEN Undefined("partial")
     ELSE /\ SetTop([Top EXCEPT !.calling = TRUE, !.called = Append(@, Top.at)])
          /\ UNCHANGED <<installVars, smap, objectVars, blocked, meetVars,
                         undefined>>

\* Slip: the walk counts the handlers it called instead of following nodes.
CountedSuccessor(list, node) ==
  LET n == Len(Top.called) + 1
  IN IF n > Len(list) THEN End ELSE list[n]

\* The node after this one.
PlaceOf(list, node) == CHOOSE i \in DOMAIN list : list[i] = node
Successor(list, node) ==
  LET i == PlaceOf(list, node)
  IN IF i = Len(list) THEN End ELSE list[i + 1]

HandlerReturns ==
  /\ Top.calling /\ Top.op = NoOp
  /\ SetTop([Top EXCEPT !.calling = FALSE,
                        !.at = Successor(smap[Top.sig], Top.at)])
  /\ UNCHANGED <<installVars, smap, objectVars, blocked, meetVars, undefined>>

\* The walk is over; the kernel gives the interrupted code its mask back.
WalkEnds ==
  /\ Walking /\ Top.at = End
  /\ stack' = Front(stack)
  /\ blocked' = IF Top.hard THEN Top.saved ELSE blocked
  /\ UNCHANGED <<installVars, smap, objectVars, meetVars, undefined>>

\* A call that changes the list of s, or one that only looks at it.
Changes(op, s) ==
  /\ op.sig = s
  /\ \/ op.kind = "set" /\ op.step = "push"
     \/ op.kind \in {"unset", "unset all"} /\ op.step = "list"
Looks(op, s) == op.sig = s /\ op.kind = "set" /\ op.step = "list"

\* What runs uses a list that a call below was changing, or changes one that
\* a call below was looking at.  If that call stood before its change or
\* after it, the actions above say what happens; in the middle of it,
\* anything may.
Races ==
  /\ \E s \in Signals, i \in Below :
       \/ Changes(stack[i].op, s)
          /\ (Changes(Top.op, s) \/ Looks(Top.op, s) \/ (Walking /\ Top.sig = s))
       \/ Looks(stack[i].op, s) /\ Changes(Top.op, s)
  /\ Undefined("race")

-----------------------------------------------------------------------------
Objects == {h \in Handlers : stage[h] = "whole"}

Calls ==
  \E s \in Signals :
    \/ \E h \in Objects : Call("set", s, h) \/ Call("unset", s, h)
    \/ Call("unset all", s, NoSignal)
    \/ \E b \in Signals : Call("mask", s, b) \/ Call("unmask", s, b)
    \/ Block(s) \/ Unblock(s) \/ Kill(s)
    \/ \E h \in Handlers : Construct(h, s) \/ Destroy(h)

CallGoesOn ==
  \/ SetLooks \/ Reads \/ SetWrites \/ SetPushes
  \/ MaskWrites \/ UnmaskWrites
  \/ UnsetFinds \/ UnsetMisses \/ UnsetAllErases \/ UnsetAllWrites
  \/ ErasesUnderWalk

Proceeds ==
  \/ CallGoesOn
  \/ \E h \in Handlers : Complete(h)
  \/ \E s \in Signals : Deliver(s)
  \/ CallHandler \/ HandlerReturns \/ WalkEnds
  \/ Races

SigNext ==
  /\ undefined = "no"
  /\ \/ made < MaxCalls /\ made' = made + 1 /\ Calls
     \/ Proceeds /\ UNCHANGED made

SigSpec == SigInit /\ [][SigNext]_sigVars
-----------------------------------------------------------------------------
SigActions == [handler : {"dfl", "sig"}, mask : SUBSET Signals]

Ops ==
  {NoOp}
  \cup [kind : {"set"}, sig : Signals, arg : Handlers, sa : SigActions,
        step : {"list", "read", "write", "push"}]
  \cup [kind : {"unset"}, sig : Signals, arg : Handlers, sa : SigActions,
        step : {"list"}]
  \cup [kind : {"unset all"}, sig : Signals, arg : {NoSignal},
        sa : SigActions, step : {"list", "read", "write"}]
  \cup [kind : {"mask", "unmask"}, sig : Signals, arg : Signals,
        sa : SigActions, step : {"read", "write"}]

Contexts ==
  [sig : Signals \cup {NoSignal}, hard : BOOLEAN, calling : BOOLEAN, op : Ops,
   saved : SUBSET Signals, at : Nodes \cup {End}, called : Seq(Nodes),
   stayed : SUBSET Nodes, held : SUBSET Signals]

SigTypeOK ==
  /\ disp \in [Signals -> {"dfl", "sig"}]
  /\ samask \in [Signals -> SUBSET Signals]
  /\ smap \in [Signals -> Seq(Nodes)]
  /\ stage \in [Handlers -> {"none", "base", "whole", "dying", "gone"}]
  /\ own \in [Handlers -> Signals \cup {NoSignal}]
  /\ blocked \in SUBSET Signals
  /\ stack \in Seq(Contexts) /\ stack # <<>>
  /\ asked \in [Signals -> SUBSET Signals]
  /\ undone \in SUBSET Signals /\ lost \in SUBSET Signals
  /\ made \in Nat
  /\ undefined \in {"no", "race", "partial"}

\* sig.h:20: if a signal occurs, all handlers associated with it are invoked:
\* sighandler is installed wherever a list has a handler.
ListedAreInvoked ==
  \A s \in Signals : smap[s] # <<>> => disp[s] = "sig"

\* The same in all but one case: a signal with handlers on its list has
\* sighandler installed, whatever was set, unset and masked before, from
\* wherever and in the middle of whatever, unless a set has met an
\* unset(signo) for it.
HandlersAreInstalled ==
  \A s \in Signals \ undone : smap[s] # <<>> => disp[s] = "sig"

Before(list, g, h) ==
  \E i, j \in DOMAIN list : i < j /\ list[i] = g /\ list[j] = h

\* A walk calls every handler that stayed on the list from its beginning to
\* its end, once, in the order they were set, although the handlers it calls
\* and the signals that interrupt it set and unset others meanwhile.
WalkCallsEach ==
  [][Len(stack') < Len(stack) =>
       LET called == Top.called
       IN /\ Top.stayed \subseteq ToSet(called)
          /\ \A i, j \in DOMAIN called :
               i < j /\ {called[i], called[j]} \subseteq Top.stayed =>
                 /\ called[i] # called[j]
                 /\ Before(smap[Top.sig], called[i], called[j])]_sigVars

\* sig.h:85: after mask(a, b) no handler of b starts while a handler of a
\* runs, whatever is set and unset in between, until unmask(a, b), unmask(b)
\* or unset(a).
NestedMaskKept ==
  \A i, j \in DOMAIN stack :
    i < j /\ stack[j].hard => stack[j].sig \notin stack[i].held

\* The same in all but one case: unless a mask(a, ...) from a handler came
\* between the read and the write of another call for a.
NestedMaskHolds ==
  \A i, j \in DOMAIN stack :
    i < j /\ stack[j].hard /\ stack[i].sig \notin lost
      => stack[j].sig \notin stack[i].held

\* All that needs to be done to add a handler is to instantiate it, and to
\* remove it to delete it (sig.h:28): a walk never meets half of one.
HandlersAreWhole == undefined # "partial"
=============================================================================
