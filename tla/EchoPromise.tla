---------------------------- MODULE EchoPromise ----------------------------
(***************************************************************************)
(* What an echo service promises: a byte stream (module ByteStream) from   *)
(* each client to itself.  One client at a time says something or hears    *)
(* more of what it has said.                                               *)
(***************************************************************************)
EXTENDS Sequences, SequencesExt

CONSTANT Clients

VARIABLES
  sent,       \* what each client has said
  received    \* what it has heard

promiseVars == <<sent, received>>

PromiseInit ==
  /\ sent = [c \in Clients |-> <<>>]
  /\ received = [c \in Clients |-> <<>>]

Says(c) ==
  /\ IsStrictPrefix(sent[c], sent'[c])
  /\ sent' = [sent EXCEPT ![c] = sent'[c]]
  /\ UNCHANGED received

Hears(c) ==
  /\ IsStrictPrefix(received[c], received'[c])
  /\ IsPrefix(received'[c], sent[c])
  /\ received' = [received EXCEPT ![c] = received'[c]]
  /\ UNCHANGED sent

PromiseNext == \E c \in Clients : Says(c) \/ Hears(c)

PromiseSpec == PromiseInit /\ [][PromiseNext]_promiseVars
=============================================================================
