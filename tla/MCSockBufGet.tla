---------------------------- MODULE MCSockBufGet ----------------------------
(* Model values for SockBufGet.                                            *)
EXTENDS SockBufGet

\* -2 is an argument recvtimeout turns into "block".
MCWaits == {-2, 0}
=============================================================================
