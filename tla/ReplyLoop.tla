------------------------------ MODULE ReplyLoop ------------------------------
(***************************************************************************)
(* The session engine of the plugins that collect a reply with a loop:     *)
(*     while ((bytes = recv(...)) > 0) { response += buffer; if (...) break; } *)
(* (check_redis, check_memcached, check_zookeeper, check_docker, and       *)
(* httpGet()/httpGetAuth() of src/common/http_api.cpp under the plugins of *)
(* an HTTP API).  They differ in what ends the loop and in the tests on    *)
(* the response, which are tables (ReplyProtocols); this module runs a     *)
(* table against a server and a TCP byte stream.                           *)
(***************************************************************************)
EXTENDS Naturals, Sequences

CONSTANTS
  Check,    \* the check configurations
  First,    \* [Check -> stage]: the first exchange
  Script,   \* [Check -> [stages -> exchange record]]
  Answer,   \* [Check -> [commands -> [BOOLEAN -> set of replies]]]
  Closing,  \* the checks whose server closes the connection after its answer
  Untimed,  \* the checks that set no SO_RCVTIMEO
  Secure,   \* the checks that speak TLS
  RecordEnd, \* the atoms after which a server may end a TLS record
  Byte      \* the atoms one byte long

ExitCode == {"OK", "WARNING", "CRITICAL", "UNKNOWN"}
Done     == ExitCode \cup {"SIGPIPE"}

VARIABLES
  check,     \* which check this process runs
  healthy,   \* whether the service is in the state the check asks for
  pc,        \* an exchange of Script[check], or how the process ended
  phase,     \* within an exchange: "dial", "handshake", "send", "read"
  response,  \* the whole atoms the loop has collected
  half,      \* it ends with the first bytes of the next atom
  due,       \* what the server wrote in answer to the last command
  inbox,     \* the atoms on their way (a half received one stays first)
  owed,      \* the command the server has yet to answer, or none
  link,      \* the connection, as the client's kernel will find it
  granted,   \* the server has written what the verdict OK stands for
  fault      \* the network or the server has failed this session

vars == <<check, healthy, pc, phase, response, half, due, inbox, owed, link, granted, fault>>
who  == <<check, healthy>>
peer == <<due, owed, granted>>

None == {}   \* owed is a set of at most one command

-----------------------------------------------------------------------------
(* The client's reading of a response to the exchange e. *)

\* The break in the loop.  (A lone "\r\n" is too short to end it.)
Complete(e, got, cut) ==
  \/ \E i \in DOMAIN got : got[i] \in e.anywhere
  \/ ~cut /\ Len(got) > 1 /\ got[Len(got)] \in e.atEnd

\* mutant: an empty response is not told from a good one
JudgedEmptyOk(e, got, cut) ==
  LET shown == {got[i] : i \in DOMAIN got}
      holds == {k \in DOMAIN e.tests : e.tests[k].shows \subseteq shown}
  IN  IF got = <<>> THEN "OK" ELSE IF holds = {} THEN e.otherwise
      ELSE e.tests[CHOOSE k \in holds : \A m \in holds : k <= m].to

\* The first of the tests that holds of a non-empty response decides.
Judged(e, got, cut) ==
  LET shown == {got[i] : i \in DOMAIN got}
      holds == {k \in DOMAIN e.tests : e.tests[k].shows \subseteq shown}
  IN  IF (got = <<>> /\ ~cut) \/ holds = {}
      THEN e.otherwise
      ELSE e.tests[CHOOSE k \in holds : \A m \in holds : k <= m].to

\* The exchange the process is in.
Exchange == Script[check][pc]

\* The exchange that follows: on the same connection or on one of its own.
Go(stage) ==
  /\ pc' = stage
  /\ phase' = IF stage \in DOMAIN Script[check] /\ Script[check][stage].dials
              THEN "dial" ELSE "send"

\* mutant: a loop that takes any segment for the whole reply
GatherOnce(segment, cut) ==
  /\ response' = response \o segment
  /\ half' = cut
  /\ Go(Judged(Exchange, response \o segment, cut))

\* What one more segment leads to: the break, or another recv().
Gather(segment, cut) ==
  /\ response' = response \o segment
  /\ half' = cut
  /\ IF Complete(Exchange, response \o segment, cut)
     THEN Go(Judged(Exchange, response \o segment, cut))
     ELSE UNCHANGED <<pc, phase>>

-----------------------------------------------------------------------------
Init ==
  /\ check \in Check
  /\ healthy \in BOOLEAN
  /\ pc = First[check]
  /\ phase = "dial"
  /\ response = <<>> /\ half = FALSE
  /\ due = <<>> /\ inbox = <<>> /\ owed = None
  /\ link = "up"
  /\ granted = FALSE /\ fault = FALSE

Running == pc \notin Done
At(p) == Running /\ phase = p

\* getaddrinfo(), socket(), connect(): a failure gives an empty response.
Dial ==
  /\ At("dial")
  /\ \/ /\ phase' = IF check \in Secure THEN "handshake" ELSE "send"
        /\ link' = "up"
        /\ inbox' = <<>>
        /\ owed' = None
        /\ UNCHANGED <<pc, fault>>
     \/ /\ Go(Judged(Exchange, <<>>, FALSE))
        /\ fault' = TRUE
        /\ UNCHANGED <<link, inbox, owed>>
  /\ UNCHANGED <<who, response, half, due, granted>>

\* SSL_connect(), which waits for the server: an empty response when it fails.
\* It checks no certificate.
Handshake ==
  /\ At("handshake")
  /\ \/ /\ link = "up"
        /\ phase' = "send"
        /\ UNCHANGED <<pc, fault>>
     \/ /\ Go(Judged(Exchange, <<>>, FALSE))
        /\ fault' = TRUE
  /\ UNCHANGED <<who, response, half, peer, inbox, link>>

\* mutant: the exchanges share one buffer
BufferShared == response' = response /\ half' = half

\* Every exchange starts with a response of its own.
EmptyBuffer == response' = <<>> /\ half' = FALSE

\* send() or SSL_write(), with an empty response when it fails.  A closed connection takes
\* one more send(); after the reset it provokes, the next raises SIGPIPE.
Send ==
  /\ At("send")
  /\ EmptyBuffer
  /\ due' = <<>>
  /\ \/ /\ link = "up"
        /\ owed' = {Exchange.cmd}
        /\ phase' = "read"
        /\ UNCHANGED <<pc, link>>
     \/ /\ link \in {"closed", "poked"}
        /\ link' = "poked"
        /\ phase' = "read"
        /\ UNCHANGED <<pc, owed>>
     \/ /\ link = "reset"
        /\ link' = "dead"
        /\ Go(Judged(Exchange, <<>>, FALSE))
        /\ UNCHANGED owed
     \/ /\ link = "dead"
        /\ pc' = "SIGPIPE"
        /\ UNCHANGED <<phase, link, owed>>
  /\ UNCHANGED <<who, inbox, granted, fault>>

\* TLS keeps records whole, and SSL_read() returns them so.
Records(k) ==
  check \in Secure => k \in {0, Len(inbox)} \cup {i \in DOMAIN inbox : inbox[i] \in RecordEnd}

\* recv() returned bytes: k whole atoms (the first may complete the half one)
\* and perhaps the first bytes of the next.
Recv ==
  /\ At("read")
  /\ \E k \in 0..Len(inbox), cut \in BOOLEAN :
       /\ cut => k < Len(inbox) /\ inbox[k + 1] \notin Byte
       /\ k = 0 => cut /\ ~half
       /\ Records(k)
       /\ check \in Secure => ~cut
       /\ Gather(SubSeq(inbox, 1, k), cut)
       /\ inbox' = SubSeq(inbox, k + 1, Len(inbox))
  /\ UNCHANGED <<who, peer, link, fault>>

\* recv() returned -1 when SO_RCVTIMEO ran out: the loop ends with what it has.
Timeout ==
  /\ At("read")
  /\ check \notin Untimed
  /\ link = "up" \/ inbox # <<>>
  /\ Go(Judged(Exchange, response, half))
  /\ fault' = (fault \/ inbox # <<>> \/ owed # None)
  /\ UNCHANGED <<who, peer, response, half, inbox, link>>

\* mutant: the loop goes on when recv() returns 0
HangupIgnored ==
  /\ At("read")
  /\ link # "up"
  /\ inbox = <<>>
  /\ UNCHANGED vars

\* recv() returned 0 (closed) or -1 (reset, whose pending error it takes).
Hangup ==
  /\ At("read")
  /\ link # "up"
  /\ inbox = <<>>
  /\ Go(Judged(Exchange, response, half))
  /\ link' = IF link = "reset" THEN "dead" ELSE link
  /\ UNCHANGED <<who, peer, response, half, inbox, fault>>

Exited == ~Running /\ UNCHANGED vars

-----------------------------------------------------------------------------
(* The server and the network. *)

Reply ==
  /\ Running
  /\ link = "up"
  /\ \E cmd \in owed : \E r \in Answer[check][cmd][healthy] :
       /\ inbox' = inbox \o r.text
       /\ due' = r.text
       /\ granted' = (granted \/ r.grants)
  /\ owed' = None
  /\ UNCHANGED <<who, pc, phase, response, half, link, fault>>

\* The server closes the connection; what it wrote still arrives.
Close ==
  /\ Running
  /\ phase # "dial"
  /\ link = "up"
  /\ link' = "closed"
  /\ fault' = (fault \/ check \notin Closing \/ phase # "read" \/ due = <<>>)
  /\ owed' = None
  /\ UNCHANGED <<who, pc, phase, response, half, inbox, due, granted>>

\* A reset: some of what was on its way is lost.
Reset ==
  /\ Running
  /\ phase # "dial"
  /\ link = "up"
  /\ link' = "reset"
  /\ \E k \in 0..Len(inbox) :
       /\ Records(k)
       /\ inbox' = SubSeq(inbox, 1, k)
  /\ owed' = None
  /\ fault' = TRUE
  /\ UNCHANGED <<who, pc, phase, response, half, due, granted>>

\* The reset provoked by a send() after the close arrives.
ResetBack ==
  /\ Running
  /\ link = "poked"
  /\ link' = "dead"
  /\ UNCHANGED <<who, pc, phase, response, half, peer, inbox, fault>>

-----------------------------------------------------------------------------
Client == Dial \/ Handshake \/ Send \/ Recv \/ Timeout \/ Hangup
Environment == Reply \/ Close \/ Reset \/ ResetBack

Next == Client \/ Environment \/ Exited

Spec == Init /\ [][Next]_vars

\* The process runs, and SO_RCVTIMEO bounds a recv() where it is set.  The
\* server owes nothing, and a segment it wrote may be delayed past the timeout.
FairSpec == Spec /\ WF_vars(Client)
=============================================================================
