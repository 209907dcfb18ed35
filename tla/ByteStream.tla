----------------------------- MODULE ByteStream -----------------------------
(***************************************************************************)
(* What a connected pair of sockbufs promises to the programs at its ends: *)
(* a one-way byte stream.  The writer's calls extend it, the reader's      *)
(* calls take bytes off its front, and closing the writing direction may   *)
(* drop a tail that nobody has received.                                   *)
(***************************************************************************)
EXTENDS Sequences, SequencesExt

VARIABLES
  sent,       \* the bytes the stream carries
  received,   \* the bytes handed to the reader
  open        \* the writer may still extend the stream

streamVars == <<sent, received, open>>

StreamInit == sent = <<>> /\ received = <<>> /\ open = TRUE

Extend ==
  /\ open
  /\ IsStrictPrefix(sent, sent')
  /\ UNCHANGED <<received, open>>

Receive ==
  /\ IsStrictPrefix(received, received')
  /\ IsPrefix(received', sent)
  /\ UNCHANGED <<sent, open>>

Truncate ==
  /\ open /\ open' = FALSE
  /\ IsPrefix(sent', sent)
  /\ IsPrefix(received, sent')
  /\ UNCHANGED received

StreamNext == Extend \/ Receive \/ Truncate

StreamSpec == StreamInit /\ [][StreamNext]_streamVars
=============================================================================
