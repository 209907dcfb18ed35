----------------------------- MODULE FtpClient -----------------------------
(***************************************************************************)
(* The ftp client (src/socket++/ftp.cpp): commands and their replies on the*)
(* control connection, and the transfers that open a data connection.  The *)
(* server, by RFC 959, is the environment.                                 *)
(*                                                                         *)
(* A reply is one line or several; a line comes in two halves, of which    *)
(* only the second ends it.  get_response takes what the get area holds up *)
(* to the end of a line, or all of it when no line ends in it.             *)
(***************************************************************************)
EXTENDS ByteSeqs

CONSTANTS
  MaxCmds,    \* bound: the commands of one session
  FileLen     \* the pieces of 1024 bytes that a file has

ASSUME FtpConstants == MaxCmds \in Nat /\ FileLen \in Nat

VARIABLES
  cpc,        \* "idle", or what the client is doing
  op,         \* the operation called last
  stage,      \* what the reply awaited is for
  firstline,  \* no line of the reply has been taken yet
  replycode,  \* the reply that replycode was copied from, and its first digit
  result,     \* the code that the last operation returned
  area,       \* the half lines in the get area of the control connection
  ctrl,       \* the half lines in the kernel
  cmds,       \* the commands the server has not answered
  sent,       \* the number of commands sent
  sphase,     \* what the server is doing
  closed,     \* the server has closed the control connection
  outcome,    \* the first digit of the server's last word on each command
  data,       \* the file's pieces in the data connection
  dopen,      \* the sending end of the data connection is open
  pos,        \* the pieces the sender has read of the file
  stored,     \* the pieces the receiver has
  lost        \* history: what has gone wrong that no reply tells of

clientVars == <<cpc, op, stage, firstline, replycode, result, area, sent>>
serverVars == <<sphase, closed, outcome>>
dataVars == <<data, dopen, pos, stored>>
ftpVars == <<clientVars, ctrl, cmds, serverVars, dataVars, lost>>

Digits == 1..5
rca_error == 4
File == [i \in 1..FileLen |-> i]

\* A line of the reply with digit d to command k, as two halves.
Halves(k, d, line) ==
  <<[cmd |-> k, digit |-> d, line |-> line, half |-> 1],
    [cmd |-> k, digit |-> d, line |-> line, half |-> 2]>>

\* A reply of one line, or of a first one, text and a last one.
Replies(k, d) ==
  {Halves(k, d, "last"),
   Halves(k, d, "first") \o Halves(k, d, "text") \o Halves(k, d, "last")}

FtpInit ==
  /\ cpc = "reply" /\ op = "greeting" /\ stage = "end" /\ firstline = TRUE
  /\ replycode = [cmd |-> 0, digit |-> 0]
  /\ result = 0 /\ area = <<>> /\ sent = 0
  /\ ctrl \in Replies(0, 2)
  /\ cmds = <<>>
  /\ sphase = "idle" /\ closed = FALSE /\ outcome = [k \in {0} |-> 2]
  /\ data = <<>> /\ dopen = FALSE /\ pos = 0 /\ stored = <<>>
  /\ lost = {}

-----------------------------------------------------------------------------
(* Commands and their replies.                                             *)

\* send_cmd: the command goes out and its reply is awaited.
SendCmd(cmd, for) ==
  /\ cpc' = "reply" /\ stage' = for /\ firstline' = TRUE
  /\ cmds' = Append(cmds, cmd)
  /\ sent' = sent + 1

Return(code) == cpc' = "idle" /\ result' = code

\* cd, user, help, quit and the other operations of one command.
Plain ==
  /\ cpc = "idle" /\ sent < MaxCmds
  /\ op' = "plain"
  /\ SendCmd("plain", "end")
  /\ UNCHANGED <<replycode, result, area, ctrl, serverVars, dataVars, lost>>

Rename ==
  /\ cpc = "idle" /\ sent + 1 < MaxCmds
  /\ op' = "rename"
  /\ SendCmd("rnfr", "rnfr")
  /\ UNCHANGED <<replycode, result, area, ctrl, serverVars, dataVars, lost>>

\* ftpdata binds and sends PORT before it listens.
Transfer(what) ==
  /\ cpc = "idle" /\ sent + 1 < MaxCmds
  /\ op' = what
  /\ SendCmd("port", "port")
  /\ UNCHANGED <<replycode, result, area, ctrl, serverVars, dataVars, lost>>

\* What follows when get_response returns code; PORT's is not looked at.
Answered(code) ==
  CASE stage = "end" -> Return(code) /\ UNCHANGED <<stage, firstline, cmds, sent>>
    [] stage = "rnfr" ->
         IF code >= rca_error
         THEN Return(rca_error) /\ UNCHANGED <<stage, firstline, cmds, sent>>
         ELSE SendCmd("rnto", "end") /\ UNCHANGED result
    [] stage = "port" -> SendCmd(op, "begin") /\ UNCHANGED result
    [] stage = "begin" ->
         IF code >= rca_error
         THEN Return(rca_error) /\ UNCHANGED <<stage, firstline, cmds, sent>>
         ELSE cpc' = "accept" /\ UNCHANGED <<stage, firstline, cmds, sent, result>>

\* underflow() reads when the get area is empty.
Underflow ==
  /\ cpc = "reply" /\ area = <<>> /\ ctrl # <<>>
  /\ \E n \in 1..Len(ctrl) : area' = Take(ctrl, n) /\ ctrl' = Drop(ctrl, n)
  /\ UNCHANGED <<cpc, op, stage, firstline, replycode, result, sent, cmds,
                 serverVars, dataVars, lost>>

\* At the end of the connection the code of the reply before is returned.
ReplyAtEof ==
  /\ cpc = "reply" /\ area = <<>> /\ ctrl = <<>> /\ closed
  /\ Answered(replycode.digit)
  /\ lost' = lost \cup {"eof"}
  /\ UNCHANGED <<op, replycode, area, ctrl, serverVars, dataVars>>

LineEnds == {i \in DOMAIN area : area[i].half = 2}
LineLength == IF LineEnds = {} THEN Len(area)
              ELSE CHOOSE i \in LineEnds : \A j \in LineEnds : i <= j

\* Slip: any line that does not continue the reply ends it.
EndsReplyEarly(line) == line.line # "first"

\* The first line ends the reply if a space follows its code; a later one, if
\* it repeats the code with a space.
EndsReply(line) == line.line = "last" /\ (firstline \/ line.cmd = replycode.cmd)

\* A line has come whole.
TakeLine ==
  /\ cpc = "reply" /\ area # <<>> /\ LineEnds # {}
  /\ LET line == area[1]
         code == IF firstline THEN [cmd |-> line.cmd, digit |-> line.digit]
                 ELSE replycode
     IN /\ area' = Drop(area, LineLength)
        /\ replycode' = code
        /\ IF EndsReply(line) THEN Answered(code.digit)
           ELSE /\ firstline' = FALSE
                /\ UNCHANGED <<cpc, stage, cmds, sent, result>>
  /\ UNCHANGED <<op, ctrl, serverVars, dataVars, lost>>

\* The area ends within a line: what there is is taken for a line, and the
\* rest of it for the next.  The client is out of step with the server from
\* there on, and the model follows it no further.
TakeCutLine ==
  /\ cpc = "reply" /\ area # <<>> /\ LineEnds = {}
  /\ lost' = lost \cup {"cut"}
  /\ cpc' = "astray" /\ area' = <<>>
  /\ UNCHANGED <<op, stage, firstline, replycode, result, sent, ctrl, cmds,
                 serverVars, dataVars>>

-----------------------------------------------------------------------------
(* The data connection.                                                    *)

Accept ==
  /\ cpc = "accept" /\ sphase = "connected"
  /\ cpc' = op
  /\ sphase' = "data"
  /\ dopen' = TRUE
  /\ data' = <<>> /\ pos' = 0 /\ stored' = <<>>
  /\ UNCHANGED <<op, stage, firstline, replycode, result, area, ctrl, cmds, sent,
                 closed, outcome, lost>>

\* An exception leaves ftpdata and the operation: the last reply to its command
\* will be taken for that of the next one.
Throws == cpc' = "idle" /\ lost' = lost \cup {"thrown"}

\* ::accept fails, or ::read in c.sgetn.
ReceivingFails ==
  /\ cpc \in {"accept", "retrieve"}
  /\ Throws
  /\ UNCHANGED <<op, stage, firstline, replycode, result, area, sent, ctrl, cmds,
                 serverVars, dataVars>>

\* Slip: a piece that is not full is taken for the end.
AllSentButLast == pos + 1 >= FileLen

AllSent == pos = FileLen

SendPiece ==
  /\ cpc = "store" /\ ~AllSent
  /\ pos' = pos + 1
  /\ data' = Append(data, File[pos + 1])
  /\ UNCHANGED <<clientVars, ctrl, cmds, serverVars, dopen, stored, lost>>

\* ::write fails in c.sputn.  c's destructor sends what its area holds, part of
\* the piece or not, and closes the connection as if the file ended there.
PieceFails ==
  /\ cpc = "store" /\ ~AllSent
  /\ pos' = pos + 1
  /\ data' \in {data, Append(data, File[pos + 1])}
  /\ dopen' = FALSE
  /\ Throws
  /\ UNCHANGED <<op, stage, firstline, replycode, result, area, sent, ctrl, cmds,
                 serverVars, stored>>

\* ::write fails in c's destructor: what the area holds is not sent, and the
\* connection not closed.
LastFlushFails ==
  /\ cpc = "store" /\ AllSent
  /\ \E n \in 0..Len(data) : data' = Take(data, n)
  /\ Throws
  /\ UNCHANGED <<op, stage, firstline, replycode, result, area, sent, ctrl, cmds,
                 serverVars, dopen, pos, stored>>

\* Slip: the reply is awaited while the data connection is still open.
SentHeldOpen == UNCHANGED dopen

\* c is destroyed, and with it the connection closed, before get_response.
SentClosed == dopen' = FALSE

Sent ==
  /\ cpc = "store" /\ AllSent
  /\ SentClosed
  /\ cpc' = "reply" /\ stage' = "end" /\ firstline' = TRUE
  /\ UNCHANGED <<op, replycode, result, area, ctrl, cmds, sent, serverVars,
                 data, pos, stored, lost>>

\* sgetn returns 0, not EOF, when the server has sent all: the loop that
\* receives a file or a listing goes on and writes nothing to o.
ReceivePiece ==
  /\ cpc = "retrieve" /\ data # <<>>
  /\ stored' = Append(stored, Head(data))
  /\ data' = Tail(data)
  /\ UNCHANGED <<clientVars, ctrl, cmds, serverVars, dopen, pos, lost>>

-----------------------------------------------------------------------------
(* The server.                                                             *)

\* The commands answered so far are 1 .. answered.
Answering == sent - Len(cmds) + 1

Reply(k, d) == \E reply \in Replies(k, d) : ctrl' = ctrl \o reply

Outcome(k, d) == outcome' = [i \in DOMAIN outcome \cup {k} |->
                               IF i = k THEN d ELSE outcome[i]]

ServerAnswers ==
  /\ sphase = "idle" /\ ~closed /\ cmds # <<>>
  /\ \E d \in {IF Head(cmds) = "rnfr" THEN 3 ELSE 2, 5} :
       /\ Head(cmds) \in {"store", "retrieve"} => d = 5
       /\ Reply(Answering, d) /\ Outcome(Answering, d)
  /\ cmds' = Tail(cmds)
  /\ UNCHANGED <<clientVars, sphase, closed, dataVars, lost>>

ServerBegins ==
  /\ sphase = "idle" /\ ~closed /\ cmds # <<>>
  /\ Head(cmds) \in {"store", "retrieve"}
  /\ Reply(Answering, 1)
  /\ sphase' = "connecting"
  /\ UNCHANGED <<clientVars, cmds, closed, outcome, dataVars, lost>>

ServerConnects ==
  /\ sphase = "connecting"
  /\ sphase' = "connected"
  /\ UNCHANGED <<clientVars, ctrl, cmds, closed, outcome, dataVars, lost>>

\* The server's last word on a transfer, once the data connection is done.
Completes(d) ==
  /\ sphase' = "idle"
  /\ Reply(Answering, d) /\ Outcome(Answering, d)
  /\ cmds' = Tail(cmds)

\* It could not connect: the client waits in accept for good.
ServerCannotConnect ==
  /\ sphase = "connecting"
  /\ Completes(4)
  /\ lost' = lost \cup {"connection"}
  /\ UNCHANGED <<clientVars, closed, dataVars>>

ServerStores ==
  /\ sphase = "data" /\ Head(cmds) = "store"
  /\ IF data # <<>>
     THEN /\ stored' = Append(stored, Head(data)) /\ data' = Tail(data)
          /\ UNCHANGED <<ctrl, cmds, sphase, outcome>>
     ELSE /\ ~dopen
          /\ Completes(2)
          /\ UNCHANGED <<data, stored>>
  /\ UNCHANGED <<clientVars, closed, dopen, pos, lost>>

ServerSends ==
  /\ sphase = "data" /\ Head(cmds) = "retrieve"
  /\ IF pos < FileLen
     THEN /\ pos' = pos + 1 /\ data' = Append(data, File[pos + 1])
          /\ UNCHANGED <<ctrl, cmds, sphase, outcome, dopen>>
     ELSE /\ dopen' = FALSE
          /\ Completes(2)
          /\ UNCHANGED <<data, pos>>
  /\ UNCHANGED <<clientVars, closed, stored, lost>>

\* It gives up the data connection, and says so: it does not take what is still
\* sent on it, or the client has gone.
ServerAborts ==
  /\ sphase = "data" \/ (sphase = "connected" /\ cpc = "idle")
  /\ Completes(4)
  /\ UNCHANGED <<clientVars, closed, dataVars, lost>>

\* It goes down between two commands.
ServerCloses ==
  /\ sphase = "idle" /\ ~closed
  /\ closed' = TRUE
  /\ UNCHANGED <<clientVars, ctrl, cmds, sphase, outcome, dataVars, lost>>

-----------------------------------------------------------------------------
ClientStep ==
  \/ Underflow \/ ReplyAtEof \/ TakeLine \/ TakeCutLine
  \/ Accept \/ SendPiece \/ Sent \/ ReceivePiece

ServerStep ==
  ServerAnswers \/ ServerBegins \/ ServerConnects \/ ServerStores \/ ServerSends

FtpNext ==
  \/ Plain \/ Rename \/ Transfer("store") \/ Transfer("retrieve")
  \/ ClientStep \/ ReceivingFails \/ PieceFails \/ LastFlushFails
  \/ ServerStep \/ ServerCannotConnect \/ ServerAborts \/ ServerCloses

\* A client that can go on does, and so does the server.
FtpFair == WF_ftpVars(ClientStep) /\ WF_ftpVars(ServerStep)

FtpSpec == FtpInit /\ [][FtpNext]_ftpVars /\ FtpFair
-----------------------------------------------------------------------------
Failed(d) == d >= rca_error

\* The code an operation returns is the server's last word on the operation's
\* own last command, through replies of several lines, preliminary replies,
\* commands refused, transfers and transfers the server gives up, until a reply
\* is cut within a line, a transfer throws, or the server goes away.
RepliesMatch ==
  cpc = "idle" /\ lost = {} =>
    /\ sent \in DOMAIN outcome
    /\ Failed(result) <=> Failed(outcome[sent])
    /\ area = <<>> /\ ctrl = <<>>

\* When putfile returns a success the server has the whole file.
StoredWhole ==
  cpc = "idle" /\ op = "store" /\ ~Failed(result) /\ lost = {} => stored = File

\* Every operation ends but one that receives, as long as the server makes the
\* data connection it announced, also one it gives up later, and no transfer
\* before has thrown: client and server never wait for each other.
OperationsEnd ==
  cpc # "idle" ~> cpc = "idle" \/ op = "retrieve" \/ lost # {} \/ closed

\* The data connection must have been destructed when ftpdata goes on to the
\* last reply (ftp.cpp:86): a transfer that receives a file gets there.
ReceivingEnds ==
  cpc = "retrieve" ~> cpc # "retrieve"
=============================================================================
