---------------------------- MODULE MCSockStream ----------------------------
(* Model values for SockStream.                                            *)
EXTENDS SockStream

\* -2 is an argument the timeout calls turn into "block".
MCWaits == {-2, 0}
=============================================================================
