---------------------------- MODULE MessageQueue ----------------------------
(***************************************************************************)
(* What send(string) and recv(string) promise to the programs at the two   *)
(* ends of a connection: a queue of whole messages.  A message on offer    *)
(* may be withdrawn before it is taken.  Once the queue is broken, what is *)
(* taken from it means nothing.                                            *)
(***************************************************************************)
EXTENDS Integers, Sequences, SequencesExt

VARIABLES
  offered,    \* the messages the sender has begun to send
  taken,      \* the messages the receiver has been given
  broken      \* the two ends have lost each other

queueVars == <<offered, taken, broken>>

QueueInit == offered = <<>> /\ taken = <<>> /\ broken = FALSE

Offer ==
  /\ offered' # <<>> /\ Front(offered') = offered
  /\ UNCHANGED <<taken, broken>>

Withdraw ==
  /\ Len(taken) < Len(offered)
  /\ offered' = Front(offered)
  /\ UNCHANGED <<taken, broken>>

TakeNext ==
  /\ Len(taken) < Len(offered)
  /\ taken' = Append(taken, offered[Len(taken) + 1])
  /\ UNCHANGED <<offered, broken>>

Break == ~broken /\ broken' = TRUE /\ UNCHANGED <<offered, taken>>

Broken == broken /\ broken'

QueueNext == Offer \/ Withdraw \/ TakeNext \/ Break \/ Broken

QueueSpec == QueueInit /\ [][QueueNext]_queueVars
=============================================================================
