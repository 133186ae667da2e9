---------------------------- MODULE LineProtocols ----------------------------
(***************************************************************************)
(* The dialogues of the line-session plugins as tables for LineSession: a  *)
(* function from the stages of the plugin's checkX() to the call it makes  *)
(* there, and what a conforming server may say.  An atom is a piece of a   *)
(* reply that some test can tell apart: a leading digit ("2"), a token a   *)
(* plugin searches for ("+OK"), other text ("text"), the last piece of a   *)
(* message ("end").                                                        *)
(***************************************************************************)
EXTENDS TLC

\* One readResponse() and the tests on it.
If(tokens, stage)    == [shows |-> tokens, to |-> stage]
Read(tests, stage)   == [op |-> "recv", on |-> tests, otherwise |-> stage]
\* One sendCommand() whose failure ends the check, or is ignored.
Say(command, stage)  == [op |-> "send", cmd |-> command, must |-> TRUE, next |-> stage]
Try(command, stage)  == [op |-> "send", cmd |-> command, must |-> FALSE, next |-> stage]

\* check_ftp, checkFtp()
Ftp ==
  "welcome"   :> Read({If({"2"}, "user")}, "CRITICAL") @@
  "user"      :> Say("USER", "userReply") @@
  "userReply" :> Read({If({"3"}, "pass"), If({"2"}, "quit")}, "CRITICAL") @@
  "pass"      :> Say("PASS", "passReply") @@
  "passReply" :> Read({If({"2"}, "quit")}, "CRITICAL") @@
  "quit"      :> Try("QUIT", "bye") @@
  "bye"       :> Read({}, "OK")

\* check_pop, checkPop() with a user name and a password, with a user name only,
\* and without.
PopLogin ==
  "greeting"  :> Read({If({"+OK"}, "user")}, "CRITICAL") @@
  "user"      :> Say("USER", "userReply") @@
  "userReply" :> Read({If({"+OK"}, "pass")}, "CRITICAL") @@
  "pass"      :> Say("PASS", "passReply") @@
  "passReply" :> Read({If({"+OK"}, "quit")}, "CRITICAL") @@
  "quit"      :> Try("QUIT", "bye") @@
  "bye"       :> Read({}, "OK")

PopUser ==
  "greeting"  :> Read({If({"+OK"}, "user")}, "CRITICAL") @@
  "user"      :> Say("USER", "userReply") @@
  "userReply" :> Read({If({"+OK"}, "OK")}, "CRITICAL")

PopGreet == "greeting" :> Read({If({"+OK"}, "OK")}, "CRITICAL")

\* check_imap, checkImap() with credentials, and without.
ImapLogin ==
  "greeting"   :> Read({If({"* OK"}, "login")}, "CRITICAL") @@
  "login"      :> Say("LOGIN", "loginReply") @@
  "loginReply" :> Read({If({"A1 OK"}, "logout")}, "CRITICAL") @@
  "logout"     :> Try("LOGOUT", "bye") @@
  "bye"        :> Read({}, "OK")

ImapGreet == "greeting" :> Read({If({"* OK"}, "OK")}, "CRITICAL")

\* check_nntp, checkNntp() with credentials, and without.
NntpLogin ==
  "greeting"  :> Read({If({"2"}, "user"), If({"4"}, "user")}, "CRITICAL") @@
  "user"      :> Say("AUTHINFO USER", "userReply") @@
  "userReply" :> Read({If({"3"}, "pass")}, "CRITICAL") @@
  "pass"      :> Say("AUTHINFO PASS", "passReply") @@
  "passReply" :> Read({If({"2"}, "quit")}, "CRITICAL") @@
  "quit"      :> Try("QUIT", "bye") @@
  "bye"       :> Read({}, "OK")

NntpGreet ==
  "greeting"  :> Read({If({"2"}, "quit"), If({"4"}, "quit")}, "CRITICAL") @@
  "quit"      :> Try("QUIT", "bye") @@
  "bye"       :> Read({}, "OK")

\* check_ircd, checkIrcd(): NICK and USER are sent without reading in between,
\* and the verdict, taken from one recv(), is kept through the farewell.
Ircd ==
  "greeting" :> Read({If({}, "nick")}, "CRITICAL") @@
  "nick"     :> Say("NICK", "user") @@
  "user"     :> Say("USER", "welcome") @@
  "welcome"  :> Read({If({"001"}, "quitOk"), If({"433"}, "quitOk")}, "quitBad") @@
  "quitOk"   :> Try("QUIT", "byeOk") @@
  "byeOk"    :> Read({}, "OK") @@
  "quitBad"  :> Try("QUIT", "byeBad") @@
  "byeBad"   :> Read({}, "CRITICAL")

\* check_jabber, check(): it reads a stream header before it sends its own.
Jabber ==
  "stream"   :> Read({If({"<?xml"}, "header")}, "CRITICAL") @@
  "header"   :> Say("STREAM", "features") @@
  "features" :> Read({If({"xmlns"}, "closeOk")}, "closeBad") @@
  "closeOk"  :> Try("/STREAM", "OK") @@
  "closeBad" :> Try("/STREAM", "WARNING")

\* check_telnet, checkTelnet() without options, with -e, and with -s and -e.
TelnetPlain  == "initial" :> Read({}, "OK")
TelnetExpect == "initial" :> Read({If({"login"}, "OK")}, "CRITICAL")
TelnetSend ==
  "initial" :> Read({}, "data") @@
  "data"    :> Try("DATA", "answer") @@
  "answer"  :> Read({If({"login"}, "OK")}, "CRITICAL")

\* check_smtp, checkSmtp(); check_ssh, checkSsh(); check_http, checkHttp()
\* without and with an expected string; check_tcp, connectTcp().
Smtp == "greeting" :> Read({If({"220"}, "OK")}, "CRITICAL")
Ssh  == "version"  :> Read({If({"SSH"}, "OK")}, "CRITICAL")
Http ==
  "request" :> Say("GET", "reply") @@
  "reply"   :> Read({If({"HTTP/1", "200"}, "OK")}, "CRITICAL")
HttpString ==
  "request" :> Say("GET", "reply") @@
  "reply"   :> Read({If({"HTTP/1", "200", "string"}, "OK")}, "CRITICAL")
Tcp == [s \in {} |-> s]

\* check_mongodb, check_kafka and check_cassandra, check() without options: a
\* connection to the port is all they ask for.
MongodbPort   == Tcp
KafkaPort     == Tcp
CassandraPort == Tcp

Scripts ==
  "ftp" :> Ftp @@ "pop" :> PopLogin @@ "pop-user" :> PopUser @@
  "pop-greet" :> PopGreet @@
  "imap" :> ImapLogin @@ "imap-greet" :> ImapGreet @@
  "nntp" :> NntpLogin @@ "nntp-greet" :> NntpGreet @@
  "ircd" :> Ircd @@ "jabber" :> Jabber @@
  "telnet" :> TelnetPlain @@ "telnet-expect" :> TelnetExpect @@
  "telnet-send" :> TelnetSend @@ "smtp" :> Smtp @@ "ssh" :> Ssh @@
  "http" :> Http @@ "http-string" :> HttpString @@ "tcp" :> Tcp @@
  "mongodb" :> MongodbPort @@ "kafka" :> KafkaPort @@ "cassandra" :> CassandraPort

PortChecks == {"tcp", "mongodb", "kafka", "cassandra"}

\* The first call after connect(); a check of a port has its verdict with it.
FirstStage ==
  "ftp" :> "welcome" @@ "pop" :> "greeting" @@ "pop-user" :> "greeting" @@ "pop-greet" :> "greeting" @@
  "imap" :> "greeting" @@ "imap-greet" :> "greeting" @@
  "nntp" :> "greeting" @@ "nntp-greet" :> "greeting" @@
  "ircd" :> "greeting" @@ "jabber" :> "stream" @@
  "telnet" :> "initial" @@ "telnet-expect" :> "initial" @@
  "telnet-send" :> "initial" @@ "smtp" :> "greeting" @@ "ssh" :> "version" @@
  "http" :> "request" @@ "http-string" :> "request" @@
  [c \in PortChecks |-> "OK"]

\* response[0] is tested, not response.find().
FirstByteOnly == {"ftp", "nntp", "nntp-greet"}

-----------------------------------------------------------------------------
(* The servers.  A message "grants" when it is the evidence that the check *)
(* of that name stands for: credentials accepted, or for a check without   *)
(* credentials the service's own greeting or answer.                       *)

Msg(atoms)    == [text |-> atoms, grants |-> FALSE]
Grant(atoms)  == [text |-> atoms, grants |-> TRUE]
Nothing       == Msg(<<>>)
\* what a server that accepts says, and what one that refuses may say
Both(good, bad) == TRUE :> good @@ FALSE :> bad

DigitGreeting ==
  Both({Msg(<<"2", "2", "end">>), Msg(<<"2", "2", "text", "2", "2", "end">>)},
       {Msg(<<"2", "2", "end">>), Msg(<<"4", "2", "end">>)})

ServerGreeting ==
  "ftp"           :> DigitGreeting @@
  "pop"           :> Both({Msg(<<"+OK", "end">>)}, {Msg(<<"+OK", "end">>), Msg(<<"-ERR", "end">>)}) @@
  "pop-user"      :> Both({Msg(<<"+OK", "end">>)}, {Msg(<<"+OK", "end">>), Msg(<<"-ERR", "end">>)}) @@
  "pop-greet"     :> Both({Grant(<<"+OK", "end">>)}, {Msg(<<"-ERR", "end">>)}) @@
  "imap"          :> Both({Msg(<<"* OK", "end">>)}, {Msg(<<"* OK", "end">>), Msg(<<"* BYE", "end">>)}) @@
  "imap-greet"    :> Both({Grant(<<"* OK", "end">>)}, {Msg(<<"* BYE", "end">>)}) @@
  "nntp"          :> Both({Msg(<<"2", "0", "end">>)}, {Msg(<<"2", "0", "end">>), Msg(<<"4", "0", "end">>)}) @@
  "nntp-greet"    :> Both({Grant(<<"2", "0", "end">>)}, {Msg(<<"4", "0", "end">>)}) @@
  "ircd"          :> Both({Msg(<<"text", "end">>), Nothing}, {Msg(<<"text", "end">>)}) @@
  "jabber"        :> Both({Nothing}, {Nothing}) @@
  "telnet"        :> Both({Grant(<<"text", "end">>)}, {Msg(<<"text", "end">>)}) @@
  "telnet-expect" :> Both({Grant(<<"text", "end", "login", "end">>)}, {Msg(<<"text", "end">>)}) @@
  "telnet-send"   :> Both({Msg(<<"text", "end">>)}, {Msg(<<"text", "end">>)}) @@
  "smtp"          :> Both({Grant(<<"220", "end">>)}, {Msg(<<"554", "end">>)}) @@
  "ssh"           :> Both({Grant(<<"SSH", "end">>)}, {Msg(<<"text", "end">>)}) @@
  "http"          :> Both({Nothing}, {Nothing}) @@
  "http-string"   :> Both({Nothing}, {Nothing}) @@
  [c \in PortChecks |-> Both({Grant(<<>>)}, {Grant(<<>>)})]

Bye == Both({Msg(<<"2", "2", "end">>)}, {Msg(<<"2", "2", "end">>)})
Xml == Both({Grant(<<"<?xml", "xmlns", "end">>)}, {Msg(<<"<?xml", "end">>)})

\* HTTP: a 200 in the status line, or elsewhere in the head ("Content-Length:
\* 200"); the body may travel in a segment of its own.
HttpOk    == Grant(<<"HTTP/1", "200", "string", "end">>)
HttpError == {Msg(<<"HTTP/1", "500", "end">>), Msg(<<"HTTP/1", "500", "200", "end">>),
              Msg(<<"HTTP/1", "500", "200", "string", "end">>)}

\* The servers of the checks that send no command.
Speechless == [m \in {} |-> {Nothing}]

ServerAnswer ==
  "ftp" :> ("USER" :> Both({Msg(<<"3", "3", "end">>), Grant(<<"2", "3", "end">>)},
                           {Msg(<<"3", "3", "end">>), Msg(<<"5", "3", "end">>)}) @@
            "PASS" :> Both({Grant(<<"2", "3", "end">>)}, {Msg(<<"5", "3", "end">>)}) @@
            "QUIT" :> Bye) @@
  "pop" :> ("USER" :> Both({Msg(<<"+OK", "end">>)}, {Msg(<<"+OK", "end">>), Msg(<<"-ERR", "end">>)}) @@
            "PASS" :> Both({Grant(<<"+OK", "end">>)}, {Msg(<<"-ERR", "end">>)}) @@
            "QUIT" :> Both({Msg(<<"+OK", "end">>)}, {Msg(<<"+OK", "end">>)})) @@
  "pop-user" :> ("USER" :> Both({Grant(<<"+OK", "end">>)}, {Msg(<<"-ERR", "end">>)})) @@
  "imap" :> ("LOGIN"  :> Both({Grant(<<"A1 OK", "end">>), Grant(<<"text", "A1 OK", "end">>)},
                              {Msg(<<"A1 NO", "end">>), Msg(<<"* OK", "A1 NO", "end">>)}) @@
             "LOGOUT" :> Both({Msg(<<"* BYE", "end">>)}, {Msg(<<"* BYE", "end">>)})) @@
  "nntp" :> ("AUTHINFO USER" :> Both({Msg(<<"3", "8", "end">>)}, {Msg(<<"3", "8", "end">>), Msg(<<"4", "8", "end">>)}) @@
             "AUTHINFO PASS" :> Both({Grant(<<"2", "8", "end">>)}, {Msg(<<"4", "8", "end">>)}) @@
             "QUIT" :> Bye) @@
  "nntp-greet" :> ("QUIT" :> Bye) @@
  "ircd" :> ("NICK" :> Both({Nothing, Msg(<<"text", "end">>), Grant(<<"433", "end">>)}, {Msg(<<"text", "end">>)}) @@
             "USER" :> Both({Grant(<<"001", "end">>)}, {Msg(<<"text", "end">>)}) @@
             "QUIT" :> Both({Msg(<<"text", "end">>)}, {Msg(<<"text", "end">>)})) @@
  "jabber" :> ("STREAM" :> Xml @@ "/STREAM" :> Both({Nothing}, {Nothing})) @@
  "telnet-send" :> ("DATA" :> Both({Grant(<<"login", "end">>)}, {Msg(<<"text", "end">>)})) @@
  "http" :> ("GET" :> Both({HttpOk}, HttpError)) @@
  "http-string" :> ("GET" :> Both({HttpOk}, HttpError)) @@
  [c \in DOMAIN Scripts |-> Speechless]

OneByte == {"2", "3", "4", "5", "0", "8"}
=============================================================================
