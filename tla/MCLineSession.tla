--------------------------- MODULE MCLineSession ---------------------------
(***************************************************************************)
(* StepwiseSession, TaggedSession and LineSession with the tables of       *)
(* LineProtocols.                                                          *)
(***************************************************************************)
EXTENDS StepwiseSession, LineProtocols

\* The checks of the runs, and the tagged ones among them.
LineChecks   == DOMAIN Scripts
TaggedChecks == {"imap", "imap-greet", "pop-greet", "smtp", "ssh", "jabber",
                 "ircd", "telnet-expect", "telnet-send"}

\* Of the others, a server that refuses can satisfy five and the port checks
\* (their test is weaker than the evidence, NntpGreet and Http, or there is
\* none); check_ftp tests response[0] of a reply that may have several lines;
\* three judge the first message when the evidence may come in a later one or is
\* never asked for; and three send again whatever the last recv() returned.
InPiecesChecks   == {"ftp"}
FirstMessage     == {"ircd", "jabber", "telnet-expect"}
SendOn           == {"ircd", "jabber", "telnet-send"}
LoginChecks      == {"pop", "pop-user", "nntp"}
StepwiseChecks   == LineChecks \ (SendOn \cup InPiecesChecks)
AnswerableChecks == LineChecks \ FirstMessage
FtpCheck         == {"ftp"}
NoCheck          == {}

GateStage ==
  "imap" :> "loginReply" @@ "imap-greet" :> "greeting" @@ "pop-greet" :> "greeting" @@
  "smtp" :> "greeting" @@ "ssh" :> "version" @@ "jabber" :> "features" @@
  "ircd" :> "welcome" @@ "telnet-expect" :> "initial" @@ "telnet-send" :> "answer"

KeyAtoms ==
  "imap" :> {"A1 OK"} @@ "imap-greet" :> {"* OK"} @@ "pop-greet" :> {"+OK"} @@
  "smtp" :> {"220"} @@ "ssh" :> {"SSH"} @@ "jabber" :> {"xmlns"} @@
  "ircd" :> {"001", "433"} @@ "telnet-expect" :> {"login"} @@ "telnet-send" :> {"login"}

MarkAtoms ==
  [c \in {"nntp", "nntp-greet"} |-> {"2", "3", "4"}] @@
  [c \in {"pop", "pop-user", "pop-greet"} |-> {"+OK"}] @@
  [c \in {"imap", "imap-greet"} |-> {"* OK", "A1 OK"}] @@
  [c \in {"http", "http-string"} |-> {"HTTP/1"}] @@
  [c \in StepwiseChecks |-> {"220", "SSH", "login"}]

LoginStages == {"greeting", "user", "userReply", "pass", "passReply"}
StagesBefore ==
  "ftp" :> {"welcome", "user", "userReply", "pass", "passReply"} @@
  "pop" :> LoginStages @@ "nntp" :> LoginStages @@
  "pop-user" :> {"greeting", "user", "userReply"} @@
  "imap" :> {"greeting", "login", "loginReply"} @@ "imap-greet" :> {"greeting"} @@
  "pop-greet" :> {"greeting"} @@ "smtp" :> {"greeting"} @@ "ssh" :> {"version"} @@
  "jabber" :> {"stream", "header", "features", "closeBad"} @@
  "ircd" :> {"greeting", "nick", "user", "welcome", "quitBad", "byeBad"} @@
  "telnet-expect" :> {"initial"} @@ "telnet-send" :> {"initial", "data", "answer"}

-----------------------------------------------------------------------------
\* OkMeansGranted without its exceptions: OK says that the service is healthy.
OkAlwaysGranted == pc = "OK" => granted

\* Every check ends: select() bounds each wait even when server and client
\* both wait for the other.
Terminates == <>(pc \in Done)
=============================================================================
