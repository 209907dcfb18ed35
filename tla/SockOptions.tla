---------------------------- MODULE SockOptions ----------------------------
(***************************************************************************)
(* The settings of a socket: the options of getsockopt and setsockopt, the *)
(* process group of its signals, and the timeouts and the out-of-band test *)
(* that copies of a sockbuf share in their record.  A setter returns the   *)
(* old value, so that a caller can put it back: keepalive(true) .. code .. *)
(* keepalive(old) is a bracket, and brackets of one caller nest.  Callers  *)
(* are programs with a copy of the sockbuf each, or processes after fork().*)
(***************************************************************************)
EXTENDS Integers, Sequences, SequencesExt, FiniteSetsExt

CONSTANTS
  Callers,
  MaxNest,    \* bound: the brackets a caller has open at once
  MaxSize,    \* the largest buffer the kernel gives
  MaxUsed     \* bound: the options used in one behaviour

ASSUME OptionConstants == {MaxNest, MaxSize, MaxUsed} \subseteq Nat

VARIABLES
  used,       \* the options the callers use
  setting,    \* the value of each option
  opc,        \* each caller: "idle", or "got" between getsockopt and setsockopt
  arg,        \* the call that is between them: [opt, new, old, opens]
  open,       \* the brackets each caller has open, the last one innermost
  crossed     \* history: options that two callers had in brackets at once

optionVars == <<used, setting, opc, arg, open, crossed>>

\* debug, reuseaddr, keepalive, dontroute, broadcast, oobinline, and tcpnodelay
\* with IPPROTO_TCP's level, are alike.
Flags == {"flag"}
Lingers == {"linger"}
Pgrps == {"pgrp"}
\* sendbufsz, recvbufsz.
Sizes == {"size"}
InKernel == Flags \cup Lingers \cup Pgrps \cup Sizes
\* sendtimeout, recvtimeout.
Timeouts == {"timeout"}
Oob == {"oob"}
InRecord == Timeouts \cup Oob
Options == InKernel \cup InRecord

Arguments(o) ==
  CASE o \in Flags \cup Oob -> {0, 1}
    [] o \in Lingers -> {-1, 0}     \* off, or the time
    [] o \in Pgrps -> {100, 200}
    [] o \in Sizes -> {1}
    [] o \in Timeouts -> {-2, 0}

\* What a setting is after it was set to v: a negative timeout is -1, and the
\* kernel doubles the size of a buffer up to its limit.
Stored(o, v) ==
  CASE o \in Timeouts /\ v < 0 -> -1
    [] o \in Sizes -> IF 2 * v <= MaxSize THEN 2 * v ELSE MaxSize
    [] OTHER -> v

\* A new record's fields, and the kernel's options of a new socket.
Initial(o) ==
  CASE o \in Flags \cup Oob -> 0
    [] o \in Lingers \cup Timeouts -> -1
    [] o \in Pgrps -> 100
    [] o \in Sizes -> 2

OptionInit ==
  /\ used \in kSubset(MaxUsed, Options)
  /\ setting = [o \in Options |-> Initial(o)]
  /\ opc = [k \in Callers |-> "idle"]
  /\ arg = [k \in Callers |-> <<>>]
  /\ open = [k \in Callers |-> <<>>]
  /\ crossed = {}

-----------------------------------------------------------------------------
BracketOn(k, o) == \E i \in DOMAIN open[k] : open[k][i].opt = o

\* Another caller is about to change o, or has it in a bracket.
OthersUse(k, o) ==
  \E j \in Callers \ {k} :
    BracketOn(j, o) \/ (opc[j] = "got" /\ arg[j].opt = o)

Notes(k, o) == crossed' = crossed \cup (IF OthersUse(k, o) THEN {o} ELSE {})

\* The caller keeps what a setter returned, or has put it back.
Brackets(k, o, old, opens) ==
  open' = [open EXCEPT ![k] =
             IF opens THEN Append(@, [opt |-> o, old |-> old]) ELSE Front(@)]

\* The setters a caller may call next: one that opens a bracket, or the one
\* that closes the innermost with the value its opening returned.
Setters(k) ==
  (IF Len(open[k]) < MaxNest
   THEN UNION {{[opt |-> o, new |-> v, opens |-> TRUE] : v \in Arguments(o)} :
                 o \in used}
   ELSE {})
  \cup (IF open[k] = <<>> THEN {}
        ELSE {[opt |-> Last(open[k]).opt, new |-> Last(open[k]).old,
               opens |-> FALSE]})

\* Slip: the old value is asked for after the new one is set.
OldTooLate(o, new) == Stored(o, new)

Old(o, new) == setting[o]

\* getopt() of a setter, or pgrp(); if it throws nothing has changed.
GetOpt(k, set) ==
  /\ opc[k] = "idle" /\ set.opt \in InKernel
  /\ opc' = [opc EXCEPT ![k] = "got"]
  /\ arg' = [arg EXCEPT ![k] =
               [opt |-> set.opt, new |-> set.new, opens |-> set.opens,
                old |-> Old(set.opt, set.new)]]
  /\ Notes(k, set.opt)
  /\ UNCHANGED <<used, setting, open>>

\* setopt() of the setter, which then returns the old value.
SetOpt(k) ==
  /\ opc[k] = "got"
  /\ setting' = [setting EXCEPT ![arg[k].opt] = Stored(arg[k].opt, arg[k].new)]
  /\ Brackets(k, arg[k].opt, arg[k].old, arg[k].opens)
  /\ opc' = [opc EXCEPT ![k] = "idle"]
  /\ arg' = [arg EXCEPT ![k] = <<>>]
  /\ UNCHANGED <<used, crossed>>

\* setopt() throws: everything is as it was, and a bracket that was to be closed
\* stays open.
SetOptThrows(k) ==
  /\ opc[k] = "got"
  /\ opc' = [opc EXCEPT ![k] = "idle"]
  /\ arg' = [arg EXCEPT ![k] = <<>>]
  /\ UNCHANGED <<used, setting, open, crossed>>

\* sendtimeout(wp), recvtimeout(wp), oob(b): the record's field is exchanged.
SetField(k, set) ==
  /\ opc[k] = "idle" /\ set.opt \in InRecord
  /\ setting' = [setting EXCEPT ![set.opt] = Stored(set.opt, set.new)]
  /\ Brackets(k, set.opt, Old(set.opt, set.new), set.opens)
  /\ Notes(k, set.opt)
  /\ UNCHANGED <<used, opc, arg>>

OptionNext ==
  \E k \in Callers :
    \/ \E set \in Setters(k) : GetOpt(k, set) \/ SetField(k, set)
    \/ SetOpt(k) \/ SetOptThrows(k)

OptionSpec == OptionInit /\ [][OptionNext]_optionVars
-----------------------------------------------------------------------------
\* When no bracket is open on an option that only one caller at a time had in
\* brackets, it has its first value again: for the timeouts and the out-of-band
\* test this also holds for every copy that shares the record.  Not so for the
\* buffer sizes, which the kernel doubles each time.
BracketsRestore ==
  \A o \in Options \ (Sizes \cup crossed) :
    (\A k \in Callers :
       ~BracketOn(k, o) /\ ~(opc[k] = "got" /\ arg[k].opt = o))
      => setting[o] = Initial(o)
=============================================================================
