----------------------------- MODULE MCServices -----------------------------
(* Model values for the clients of the ftp and smtp protocols and the echo  *)
(* service: three systems that do not interact, of which a behaviour runs   *)
(* one.                                                                     *)
EXTENDS FtpClient, SmtpClient, EchoService

CONSTANTS
  MaxWritten  \* bound: commands and characters of an smtp session together

VARIABLE system

services == <<system, ftpVars, smtpVars, echoVars>>

\* An ftp session in which everything has been done.
FtpAway ==
  /\ cpc = "idle" /\ op = "greeting" /\ stage = "end" /\ firstline = FALSE
  /\ replycode = [cmd |-> 0, digit |-> 2] /\ result = 2
  /\ area = <<>> /\ ctrl = <<>> /\ cmds = <<>> /\ sent = 0
  /\ sphase = "idle" /\ closed = FALSE /\ outcome = [k \in {0} |-> 2]
  /\ data = <<>> /\ dopen = FALSE /\ pos = 0 /\ stored = <<>> /\ lost = {}

\* What the systems that do not run are like does not matter.
MCInit ==
  /\ system \in {"ftp", "smtp", "echo"}
  /\ IF system = "ftp" THEN FtpInit ELSE FtpAway
  /\ SmtpInit /\ EchoInit
  /\ system # "smtp" => Len(replies) = 1
  /\ system # "echo" => \A c \in Clients, n \in Lengths : length[c] <= n

MCNext ==
  \/ /\ system = "ftp" /\ FtpNext
     /\ UNCHANGED <<system, smtpVars, echoVars>>
  \/ /\ system = "smtp" /\ SmtpNext
     /\ ncmds' + Len(text') <= MaxWritten
     /\ UNCHANGED <<system, ftpVars, echoVars>>
  \/ /\ system = "echo" /\ EchoNext
     /\ UNCHANGED <<system, ftpVars, smtpVars>>

\* The fairness of the system that runs.
MCFair ==
  /\ WF_ftpVars(system = "ftp" /\ ClientStep)
  /\ WF_ftpVars(system = "ftp" /\ ServerStep)
  /\ WF_echoVars(system = "echo" /\ ServerGoesOn)
  /\ \A c \in Clients : WF_echoVars(system = "echo" /\ ClientGoesOn(c))

MCSpec == MCInit /\ [][MCNext]_services /\ MCFair
=============================================================================
