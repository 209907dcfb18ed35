---------------------------- MODULE MCSockBufPut ----------------------------
(* Model values for SockBufPut.                                            *)
EXTENDS SockBufPut

\* -2 is an argument sendtimeout turns into "block".
MCWaits == {-2, 0}
=============================================================================
