----------------------------- MODULE MCSockets ------------------------------
(* Model values for what a socket does besides its streams: the transfers   *)
(* past the areas, the search for a port and the options.  They do not      *)
(* interact; a behaviour runs one of them.                                  *)
EXTENDS StringFrames, InetPorts, SockOptions

VARIABLE system

\* Two strings, a plain transfer and a wide string.
MCProtocol == <<"string", "plain", "wstring", "string">>

sockets == <<system, frameVars, portVars, optionVars>>

\* What the systems that do not run are like does not matter.
MCInit ==
  /\ system \in {"frames", "ports", "options"}
  /\ FramesInit /\ PortInit /\ OptionInit
  /\ system # "options" => used = CHOOSE u \in kSubset(MaxUsed, Options) : TRUE

MCNext ==
  \/ /\ system = "frames" /\ FramesNext
     /\ UNCHANGED <<system, portVars, optionVars>>
  \/ /\ system = "ports" /\ PortNext
     /\ UNCHANGED <<system, frameVars, optionVars>>
  \/ /\ system = "options" /\ OptionNext
     /\ UNCHANGED <<system, frameVars, portVars>>

\* The fairness of the system that runs.
MCFair ==
  /\ WF_frameVars(system = "frames" /\ SendStep)
  /\ WF_frameVars(system = "frames" /\ RecvStep)
  /\ WF_frameVars(system = "frames" /\ Recv)
  /\ \A k \in Sockets : WF_portVars(system = "ports" /\ Tries(k))

MCSpec == MCInit /\ [][MCNext]_sockets /\ MCFair
=============================================================================
