----------------------------- MODULE MCSockRep -----------------------------
(* Model values for InetStreams, and with it for SockRep.                  *)
EXTENDS InetStreams, TLC

CONSTANTS o1, o2, o3, o4, s1, s2

MCObjs == {o1, o2, o3, o4}
MCStreams == {s1, s2}
MCDescs == {3, 4}
MCSymmetry == Permutations(MCObjs) \cup Permutations(MCStreams)
=============================================================================
