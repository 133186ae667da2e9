----------------------------- MODULE LineSession -----------------------------
(***************************************************************************)
(* The session engine of the plugins that hold a short dialogue over one   *)
(* TCP connection (check_ftp, check_pop, check_imap, check_nntp,           *)
(* check_ircd, check_jabber, check_telnet, check_smtp, check_ssh,          *)
(* check_tcp, check_http).  They share one structure: connect to the first *)
(* address, then a fixed sequence of send() and "one select() and one      *)
(* recv()" steps; whatever that single recv() returned is taken for the    *)
(* whole reply.  The dialogue of each plugin is a table (LineProtocols);   *)
(* this module says how a table runs against a server and a TCP byte       *)
(* stream that splits, joins and delays what the server wrote.             *)
(***************************************************************************)
EXTENDS Naturals, Sequences

CONSTANTS
  Check,     \* the check configurations (a plugin and the options it got)
  First,     \* [Check -> Stage \cup ExitCode]: what connect() leads to
  Script,    \* [Check -> [stages -> step record]]: the client's dialogue
  LeadOnly,  \* the checks that look only at response[0]
  Greeting,  \* [Check -> [BOOLEAN -> set of replies]]: what the server says first
  Answer,    \* [Check -> [commands -> [BOOLEAN -> set of replies]]]
  Byte,      \* the atoms one byte long: TCP cannot split them
  Text,      \* the atom that no check looks for
  End        \* the atom that ends each message the server wrote

ExitCode == {"OK", "WARNING", "CRITICAL", "UNKNOWN"}
Done     == ExitCode \cup {"SIGPIPE"}

VARIABLES
  check,    \* which check this process runs
  healthy,  \* whether the service would accept what the check asks
  pc,       \* "dial", a stage of Script[check], or how the process ended
  inbox,    \* the atoms the server wrote and the client has not read
  cmds,     \* the commands the client sent and the server has not answered
  greeted,  \* the server has sent (or withheld) its greeting
  link,     \* the connection, as the client's kernel will find it
  granted,  \* the server has sent the reply that the verdict OK stands for
  fault     \* the network or the server has failed this session

vars == <<check, healthy, pc, inbox, cmds, greeted, link, granted, fault>>
peer == <<check, healthy, greeted, granted>>

-----------------------------------------------------------------------------
(* What a reply means to the client. *)

\* The atoms a response shows to the test the code applies to it:
\* response[0] for some plugins, response.find(token) for the others.
Shown(c, response) ==
  IF c \in LeadOnly
  THEN {response[i] : i \in {j \in DOMAIN response : j = 1}}
  ELSE {response[i] : i \in DOMAIN response}

\* Where the client c goes from its stage s after a response: to the target of
\* a test that holds of a non-empty response, else where the failed test sends it.
Judged(c, s, response) ==
  LET step   == Script[c][s]
      passed == {o \in step.on : response # <<>> /\ o.shows \subseteq Shown(c, response)}
  IN  IF passed = {} THEN {step.otherwise} ELSE {o.to : o \in passed}

\* What one recv() can return, with what it leaves unread: any prefix of the
\* bytes on their way, also one that cuts an atom of several bytes in two.
Segments(stream) ==
  {[got  |-> SubSeq(stream, 1, k),
    left |-> SubSeq(stream, k + 1, Len(stream))] : k \in 1..Len(stream)}
  \cup
  {[got  |-> Append(SubSeq(stream, 1, k - 1), Text),
    left |-> <<Text>> \o SubSeq(stream, k + 1, Len(stream))] :
      k \in {i \in 1..Len(stream) : stream[i] \notin Byte}}

Whole(response) == response[Len(response)] = End

-----------------------------------------------------------------------------
(* The client. *)

Init ==
  /\ check \in Check
  /\ healthy \in BOOLEAN
  /\ pc = "dial"
  /\ inbox = <<>>
  /\ cmds = <<>>
  /\ greeted = FALSE
  /\ link = "up"
  /\ granted = FALSE
  /\ fault = FALSE

Step == Script[check][pc]
At(op) == pc \in DOMAIN Script[check] /\ Step.op = op

\* getaddrinfo(), socket() and connect() to the first address; any of them
\* failing ends the check, without trying a second address.
Dial ==
  /\ pc = "dial"
  /\ \/ pc' = First[check] /\ UNCHANGED fault
     \/ pc' = "CRITICAL" /\ fault' = TRUE
  /\ UNCHANGED <<peer, inbox, cmds, link>>

\* mutant: the command lacks its "\r\n", and the server waits for it
SentWithoutEnd(cmd) == cmds' = cmds

Sent(cmd) == cmds' = Append(cmds, cmd)

\* send().  After a close by the peer it still succeeds, and provokes a reset;
\* on a reset connection it fails once, and after that (or after the reset
\* that an earlier send() provoked) it raises SIGPIPE, which nothing catches.
Send ==
  /\ At("send")
  /\ \/ /\ link = "up"
        /\ Sent(Step.cmd)
        /\ pc' = Step.next
        /\ UNCHANGED link
     \/ /\ link \in {"closed", "poked"}
        /\ pc' = Step.next
        /\ link' = "poked"
        /\ UNCHANGED cmds
     \/ /\ link = "reset"
        /\ pc' = IF Step.must THEN "CRITICAL" ELSE Step.next
        /\ link' = "dead"
        /\ UNCHANGED cmds
     \/ /\ link = "dead"
        /\ pc' = "SIGPIPE"
        /\ UNCHANGED <<cmds, link>>
  /\ UNCHANGED <<peer, inbox, fault>>

\* readResponse(): select() reports the socket readable and recv() is called once.
Recv ==
  /\ At("recv")
  /\ \E s \in Segments(inbox) :
       /\ pc' \in Judged(check, pc, s.got)
       /\ inbox' = s.left
       /\ fault' = (fault \/ ~Whole(s.got))
  /\ UNCHANGED <<peer, cmds, link>>

\* mutant: the tests are not asked whether there is a response
EmptyAccepted ==
  pc' \in IF Step.on = {} THEN {Step.otherwise} ELSE {o.to : o \in Step.on}

EmptyResponse == pc' \in Judged(check, pc, <<>>)

\* mutant: readResponse() calls select() again when it times out
TimeoutRetried ==
  /\ At("recv")
  /\ link = "up" \/ inbox # <<>>
  /\ UNCHANGED vars

\* readResponse() returns an empty response: select() timed out.  It is a
\* fault when the server still owed something or it was on its way; otherwise
\* both sides were waiting for each other.
Timeout ==
  /\ At("recv")
  /\ link = "up" \/ inbox # <<>>
  /\ EmptyResponse
  /\ fault' = (fault \/ inbox # <<>> \/ cmds # <<>> \/ ~greeted)
  /\ UNCHANGED <<peer, inbox, cmds, link>>

\* readResponse() returns an empty response: recv() found the connection
\* closed (0) or reset (-1, which also consumes the pending error).
Hangup ==
  /\ At("recv")
  /\ link # "up"
  /\ inbox = <<>>
  /\ EmptyResponse
  /\ link' = IF link = "reset" THEN "dead" ELSE link
  /\ UNCHANGED <<peer, inbox, cmds, fault>>

Exited == pc \in Done /\ UNCHANGED vars

-----------------------------------------------------------------------------
(* The server and the network. *)

Write(reply) ==
  /\ inbox' = inbox \o reply.text
  /\ granted' = (granted \/ reply.grants)

Live == pc \notin Done /\ pc # "dial" /\ link = "up"

Greet ==
  /\ Live
  /\ ~greeted
  /\ \E r \in Greeting[check][healthy] : Write(r)
  /\ greeted' = TRUE
  /\ UNCHANGED <<check, healthy, pc, cmds, link, fault>>

Reply ==
  /\ Live
  /\ greeted
  /\ cmds # <<>>
  /\ \E r \in Answer[check][Head(cmds)][healthy] : Write(r)
  /\ cmds' = Tail(cmds)
  /\ UNCHANGED <<check, healthy, pc, greeted, link, fault>>

\* The server closes the connection: what it wrote still arrives.
Close ==
  /\ Live
  /\ link' = "closed"
  /\ fault' = TRUE
  /\ UNCHANGED <<peer, pc, inbox, cmds>>

\* The server, or a middlebox, resets it: some of what was on its way is lost.
Reset ==
  /\ Live
  /\ link' = "reset"
  /\ \E k \in 0..Len(inbox) : inbox' = SubSeq(inbox, 1, k)
  /\ fault' = TRUE
  /\ UNCHANGED <<peer, pc, cmds>>

\* The reset provoked by a send() after the close reaches the client.
ResetBack ==
  /\ pc \notin Done
  /\ link = "poked"
  /\ link' = "dead"
  /\ UNCHANGED <<peer, pc, inbox, cmds, fault>>

-----------------------------------------------------------------------------
Client == Dial \/ Send \/ Recv \/ Timeout \/ Hangup
Environment == Greet \/ Reply \/ Close \/ Reset \/ ResetBack

Next == Client \/ Environment \/ Exited

Spec == Init /\ [][Next]_vars

\* The process is scheduled, and SO_RCVTIMEO / select() bound each wait: the
\* client always takes its next step.  The server owes nothing.
FairSpec == Spec /\ WF_vars(Client)
=============================================================================
