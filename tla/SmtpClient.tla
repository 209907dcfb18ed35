----------------------------- MODULE SmtpClient -----------------------------
(***************************************************************************)
(* The smtp client (src/socket++/smtp.cpp): commands and replies, and the  *)
(* text of a message, which data(filename) reads in pieces and send_buf    *)
(* puts on the wire with its line ends converted and dots doubled.         *)
(*                                                                         *)
(* A text is made of Chars; on the wire a line ends with "crlf", and the   *)
(* message with a line that holds a single dot.  A reply line is "more" if *)
(* another one follows it and "last" otherwise.                            *)
(***************************************************************************)
EXTENDS ByteSeqs, SequencesExt, FiniteSets

CONSTANTS
  BufLen,     \* the characters data() reads at a time (1024)
  MaxText,    \* bound: the characters of a message
  MaxSmtpCmds \* bound: the commands of one session

ASSUME SmtpConstants ==
  BufLen \in Nat \ {0} /\ MaxText \in Nat /\ MaxSmtpCmds \in Nat

Chars == {"lf", "dot", "x"}

VARIABLES
  mpc,        \* "idle", "reply", "text", or "astray": out of step for good
  after,      \* what comes when the reply has been taken
  text,       \* the message being sent
  done,       \* the characters of it that send_buf has put
  buf,        \* data()'s buffer, and the character behind it
  rcnt,       \* what the last ::read returned
  at,         \* the character of buf that send_buf is at
  wire,       \* what the message has become on the wire
  ncmds,      \* the number of commands sent
  replies,    \* the reply lines the client has not taken
  unanswered, \* the commands the server has not answered
  taking,     \* the server takes what comes for the text of a message
  gone,       \* the server has closed the connection
  upset,      \* history: the server has taken text for commands
  misdotted   \* history: the dots of the message doubled in a wrong place

smtpVars == <<mpc, after, text, done, buf, rcnt, at, wire, ncmds, replies, unanswered,
              taking, gone, upset, misdotted>>
messageVars == <<text, done, buf, rcnt, at, wire, misdotted>>

Layout == {<<"last">>, <<"more", "last">>}

SmtpInit ==
  /\ mpc = "idle" /\ after = "greeting"
  /\ text = <<>> /\ done = 0 /\ wire = <<>> /\ rcnt = 0 /\ at = 1
  /\ buf = [i \in 1..(BufLen + 1) |-> "x"]
  /\ ncmds = 0 /\ unanswered = <<>>
  /\ replies \in Layout
  /\ taking = FALSE /\ gone = FALSE /\ upset = FALSE /\ misdotted = {}

-----------------------------------------------------------------------------
(* Commands and replies (with an ostream to copy them to).                 *)

SendSmtpCmd(cmd, then) ==
  /\ mpc' = "reply" /\ after' = then
  /\ unanswered' = Append(unanswered, cmd)
  /\ ncmds' = ncmds + 1

\* Slip: helo() does not wait for the server's greeting.
HeloAtOnce ==
  /\ mpc = "idle" /\ after = "greeting"
  /\ SendSmtpCmd("helo", "end")
  /\ UNCHANGED <<messageVars, replies, taking, gone, upset>>

\* helo() takes the server's greeting before it says its own.
Helo ==
  /\ mpc = "idle" /\ after = "greeting"
  /\ mpc' = "reply" /\ after' = "helo"
  /\ UNCHANGED <<messageVars, ncmds, replies, unanswered, taking, gone, upset>>

\* mail, rcpt, vrfy, expn, rset, noop, help, quit.
Command ==
  /\ mpc = "idle" /\ after = "end" /\ ncmds < MaxSmtpCmds
  /\ SendSmtpCmd("command", "end")
  /\ UNCHANGED <<messageVars, replies, taking, gone, upset>>

\* What comes after a reply.  Whether the one to DATA was a go-ahead is not
\* looked at.
AfterReply(then) ==
  CASE then = "helo" -> SendSmtpCmd("helo", "end")
    [] then = "data" -> mpc' = "text" /\ UNCHANGED <<after, unanswered, ncmds>>
    [] then = "end" -> mpc' = "idle" /\ UNCHANGED <<after, unanswered, ncmds>>

\* get_response takes a line, and is done with the last.
TakeReplyLine ==
  /\ mpc = "reply" /\ replies # <<>>
  /\ replies' = Tail(replies)
  /\ IF Head(replies) = "more" THEN UNCHANGED <<mpc, after, unanswered, ncmds>>
     ELSE AfterReply(after)
  /\ UNCHANGED <<messageVars, taking, gone, upset>>

\* At the end of the connection it is done as well.
EofEndsReply ==
  /\ mpc = "reply" /\ replies = <<>> /\ gone
  /\ AfterReply(after)
  /\ UNCHANGED <<messageVars, replies, taking, gone, upset>>

\* ::read or ::write fails: an exception leaves the call, with what the areas
\* hold, and the model follows the client no further.
CallThrows ==
  /\ mpc \in {"idle", "reply", "text"}
  /\ mpc' = "astray"
  /\ UNCHANGED <<messageVars, after, ncmds, replies, unanswered, taking, gone, upset>>

\* A line that has not come whole is not taken: from there on get_response
\* finds it at every call and either returns at once or never.
ReplyIsCut ==
  /\ mpc = "reply" /\ replies # <<>>
  /\ mpc' = "astray"
  /\ UNCHANGED <<messageVars, after, ncmds, replies, unanswered, taking, gone, upset>>

-----------------------------------------------------------------------------
(* The text of a message.                                                  *)

\* buf is on the stack: it holds what was there before.
Data(message, garbage) ==
  /\ mpc = "idle" /\ after = "end" /\ ncmds < MaxSmtpCmds
  /\ SendSmtpCmd("data", "data")
  /\ text' = message /\ done' = 0 /\ wire' = <<>> /\ misdotted' = {}
  /\ buf' = [i \in 1..(BufLen + 1) |-> garbage] /\ rcnt' = 0 /\ at' = 1
  /\ UNCHANGED <<replies, taking, gone, upset>>

\* Slip: a dot is doubled at the start of a piece only.
OnWireUndoubled(b, i) == IF b[i] = "lf" THEN <<"crlf">> ELSE <<b[i]>>

\* What character i of the buffer becomes; the character after a newline is
\* looked at even if it is not of this piece.
OnWire(b, i) ==
  IF b[i] = "lf"
  THEN IF b[i + 1] = "dot" THEN <<"crlf", "dot">> ELSE <<"crlf">>
  ELSE <<b[i]>>

\* Slip: the dot that begins a piece is not doubled.
PieceBeginsPlain(b) == <<>>

PieceBegins(b) == IF b[1] = "dot" THEN <<"dot">> ELSE <<>>

AtLineStart(s, i, end) == i = 1 \/ s[i - 1] = end

\* One ::read of n characters into the front of buf, and the start of
\* send_buf, which looks at the first of them.
ReadPiece(n) ==
  /\ mpc = "text" /\ at > rcnt /\ done + n <= Len(text)
  /\ LET b == [i \in 1..(BufLen + 1) |->
                 IF i <= n THEN text[done + i] ELSE buf[i]]
     IN /\ buf' = b
        /\ wire' = wire \o PieceBegins(b)
        /\ misdotted' = IF b[1] = "dot" /\ ~AtLineStart(text, done + 1, "lf")
                        THEN misdotted \cup {"within a line"} ELSE misdotted
  /\ rcnt' = n /\ at' = 1
  /\ UNCHANGED <<mpc, after, text, done, ncmds, replies, unanswered, taking,
                 gone, upset>>

\* One turn of send_buf's loop over the piece.
SendChar ==
  /\ mpc = "text" /\ at <= rcnt
  /\ wire' = wire \o OnWire(buf, at)
  /\ misdotted' = IF at = rcnt /\ buf[at] = "lf" /\ buf[at + 1] = "dot"
                  THEN misdotted \cup {"behind the piece"} ELSE misdotted
  /\ at' = at + 1 /\ done' = done + 1
  /\ UNCHANGED <<mpc, after, text, buf, rcnt, ncmds, replies, unanswered,
                 taking, gone, upset>>

Ending == <<"crlf", "dot", "crlf">>

\* ::read returns 0, or -1 anywhere in the file: the ending goes out and the
\* reply to the message is awaited.
EndText ==
  /\ mpc = "text" /\ at > rcnt
  /\ mpc' = "reply" /\ after' = "end"
  /\ unanswered' = Append(unanswered, "text")
  /\ UNCHANGED <<messageVars, ncmds, replies, taking, gone, upset>>

-----------------------------------------------------------------------------
(* The server.                                                             *)

\* A line that holds a single dot ends at i + 1.
EndsAt(s, i) ==
  /\ s[i] = "dot" /\ AtLineStart(s, i, "crlf")
  /\ i < Len(s) /\ s[i + 1] = "crlf"

\* What of a message the server takes for commands: all of it if it refused
\* DATA, and else what follows the first line of a single dot.
TakenForCommands ==
  LET s == wire \o Ending
      end == CHOOSE i \in DOMAIN s :
               EndsAt(s, i) /\ \A j \in 1..(i - 1) : ~EndsAt(s, j)
  IN IF taking THEN Drop(s, end + 1) ELSE s

WrongCommands ==
  Cardinality({i \in DOMAIN TakenForCommands : TakenForCommands[i] = "crlf"})

ServerReplies ==
  /\ unanswered # <<>> /\ ~gone
  /\ \E r \in Layout :
       IF Head(unanswered) = "text"
       THEN /\ replies' = replies \o (IF taking THEN r ELSE <<>>)
                            \o [i \in 1..WrongCommands |-> "last"]
            /\ upset' = (upset \/ WrongCommands # 0)
            /\ taking' = FALSE
       ELSE /\ replies' = replies \o r
            /\ taking' \in IF Head(unanswered) = "data" THEN BOOLEAN ELSE {FALSE}
            /\ UNCHANGED upset
  /\ unanswered' = Tail(unanswered)
  /\ UNCHANGED <<messageVars, mpc, after, ncmds, gone>>

\* The connection ends, with the last replies or without.
ConnectionEnds ==
  /\ ~gone
  /\ gone' = TRUE
  /\ \E n \in 0..Len(replies) : replies' = Take(replies, n)
  /\ UNCHANGED <<messageVars, mpc, after, ncmds, unanswered, taking, upset>>

SmtpNext ==
  \/ Helo \/ Command \/ TakeReplyLine \/ ReplyIsCut \/ EofEndsReply \/ CallThrows
  \/ \E n \in 0..MaxText : \E message \in [1..n -> Chars] :
       \E garbage \in {"dot", "x"} : Data(message, garbage)
  \/ \E n \in 1..BufLen : ReadPiece(n)
  \/ SendChar \/ EndText
  \/ ServerReplies \/ ConnectionEnds

SmtpSpec == SmtpInit /\ [][SmtpNext]_smtpVars
-----------------------------------------------------------------------------
EndsOnce(s) == \A i \in DOMAIN s : EndsAt(s, i) => i = Len(s) - 1

\* A message does not end before its end, whatever lines of dots it has, however
\* ::read cuts it into pieces and behind whichever piece it fails: what follows
\* in the text is not taken for a command, unless a dot lay behind the newline
\* of a piece.
NoEarlyEnd ==
  mpc = "text" /\ at > rcnt /\ "behind the piece" \notin misdotted =>
    EndsOnce(wire \o Ending)

\* The class follows rfc821 (smtp.h:78), where a message ends with the first
\* line of a single dot: that is the one data() adds.
EndsWhereItEnds == mpc = "text" /\ done = Len(text) => EndsOnce(wire \o Ending)

\* The places of s that no doubled dot takes.
Kept(s) == {i \in DOMAIN s : ~(s[i] = "dot" /\ AtLineStart(s, i, "crlf"))}

Converted(c) == IF c = "lf" THEN "crlf" ELSE c

\* The server gets the text itself, with its line ends converted, unless a dot
\* was doubled in a wrong place: one that begins a piece within a line, or one
\* left in the buffer behind the newline of a piece.
TextArrives ==
  mpc = "text" /\ misdotted = {} =>
    /\ Cardinality(Kept(wire)) = done
    /\ \A i \in Kept(wire) :
         wire[i] = Converted(text[Cardinality(Kept(wire) \cap 1..i)])

\* Between two commands no reply is left over, and none outstanding but from a
\* server that has gone, through replies of several lines and messages, until
\* the server has taken text for commands, a call has thrown or a reply line has
\* been read in part.
RepliesInStep ==
  mpc = "idle" /\ after = "end" /\ ~upset =>
    replies = <<>> /\ (unanswered = <<>> \/ gone)
=============================================================================
