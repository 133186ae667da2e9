---------------------------- MODULE DatagramCheck ----------------------------
(***************************************************************************)
(* The checks that send one datagram and wait for one (check_udp,          *)
(* check_sip, check_dhcp): a socket that is never connected, one sendto()  *)
(* whose result mostly does not matter, one recvfrom() that takes whatever *)
(* reached the port first, from whomever, and a timeout.  What a plugin    *)
(* sends and tests is a table; this module runs it over a network that     *)
(* loses, delays and doubles datagrams.                                    *)
(***************************************************************************)
EXTENDS Naturals, Sequences

CONSTANTS
  Check,   \* the check configurations (a plugin and the options it got)
  Query,   \* [Check -> record]: see UdpQuery, SipQuery and DhcpQuery
  Answer,  \* [Check -> [BOOLEAN -> set of datagrams]]: what the service may
           \* answer, with "grants" for what OK stands for
  Others,  \* what other senders may send to the port: texts
  Blind,   \* the configurations that do not look at what they receive
  Answerable  \* those that send a query, and see in the answer what it says

ExitCode == {"OK", "WARNING", "CRITICAL", "UNKNOWN"}

VARIABLES
  check,    \* which check this process runs
  healthy,  \* whether the service would give the answer the check asks for
  pc,       \* "open", "send", "wait", or the exit code
  bound,    \* the socket has a local port, which sendto() gave it
  sent,     \* sendto() returned a length
  query,    \* the query is on its way
  inbox,    \* the texts on their way to the port, or in the socket
  granted,  \* the service has sent the answer that OK stands for
  alien,    \* a datagram of another sender, or to an earlier query, came
  fault     \* something was lost, late, or could not be sent

vars == <<check, healthy, pc, bound, sent, query, inbox, granted, alien, fault>>
setup == <<check, healthy>>

-----------------------------------------------------------------------------
(* The tables. *)

If(tokens, code) == [shows |-> tokens, to |-> code]

\* check_udp, checkUdp() and check(): nothing is sent without -s; with -e the
\* datagram must not be empty and hold the text, without it any one will do.
UdpQuery(sends, expects) ==
  [sends |-> sends, port |-> "own", empty |-> ~expects, needed |-> FALSE,
   tests |-> IF expects THEN <<If({"expected"}, "OK")>> ELSE <<If({}, "OK")>>,
   otherwise |-> "CRITICAL", silent |-> "CRITICAL"]

\* check_sip, sendSipOptions() and check().
SipQuery ==
  [sends |-> TRUE, port |-> "own", empty |-> FALSE, needed |-> FALSE,
   tests |-> <<If({"SIP/2.0 200"}, "OK"), If({"SIP/2.0 405"}, "OK"),
               If({"SIP/2.0 501"}, "OK"), If({"SIP/2.0"}, "WARNING")>>,
   otherwise |-> "CRITICAL", silent |-> "CRITICAL"]

\* check_dhcp, checkDhcp(): the socket is not bound to port 68, where servers
\* send their offers, and only the result of sendto() enters the verdict.
DhcpQuery ==
  [sends |-> TRUE, port |-> "client", empty |-> TRUE, needed |-> TRUE,
   tests |-> <<>>, otherwise |-> "OK", silent |-> "OK"]

-----------------------------------------------------------------------------
Running == pc \notin ExitCode

\* What std::string(buffer) holds of a datagram: up to its first zero byte and
\* no more than the buffer ("far" begins what is beyond it).
Seen(text) ==
  LET ends == {i \in DOMAIN text : text[i] \in {"nul", "far"}}
  IN  {text[i] : i \in {j \in DOMAIN text : \A e \in ends : j < e}}

\* The first test that holds of the datagram decides.
Judged(q, text) ==
  LET holds == {k \in DOMAIN q.tests : q.tests[k].shows \subseteq Seen(text)}
  IN  IF text = <<>> /\ ~q.empty THEN q.silent
      ELSE IF holds = {} THEN q.otherwise
      ELSE q.tests[CHOOSE k \in holds : \A m \in holds : k <= m].to

\* mutant: the length that sendto() returns is taken for an error
ConcludedIfUnsent(q, wasSent, code) == IF q.needed /\ wasSent THEN "CRITICAL" ELSE code

\* check_dhcp: the verdict of a datagram that could not be sent.
Concluded(q, wasSent, code) == IF q.needed /\ ~wasSent THEN "CRITICAL" ELSE code

\* A configuration that looks does not take silence for an answer, nor an
\* answer of its service that means something else.
ASSUME LooksAssumption ==
  \A c \in Check \ Blind :
    /\ Query[c].silent # "OK"
    /\ \A h \in BOOLEAN : \A a \in Answer[c][h] :
         Judged(Query[c], a.text) = "OK" => a.grants

\* A query, its tests in a sequence, leads to exit codes.
ASSUME QueryAssumption ==
  \A c \in Check :
    /\ {Query[c].otherwise, Query[c].silent} \subseteq ExitCode
    /\ DOMAIN Query[c].tests \subseteq Nat
    /\ \A k \in DOMAIN Query[c].tests : Query[c].tests[k].to \in ExitCode

\* What a healthy service answers is judged OK, if it is seen at all.
ASSUME AnswerableAssumption ==
  \A c \in Answerable :
    /\ Query[c].sends
    /\ IF Query[c].port = "own"
       THEN \A a \in Answer[c][TRUE] : Judged(Query[c], a.text) = "OK"
       ELSE Query[c].silent = "OK"

Init ==
  /\ check \in Check
  /\ healthy \in BOOLEAN
  /\ pc = "open"
  /\ bound = FALSE /\ sent = FALSE
  /\ query = FALSE /\ inbox = {}
  /\ granted = FALSE /\ alien = FALSE /\ fault = FALSE

\* getaddrinfo() and socket(); a failure of any of them is CRITICAL.
Open ==
  /\ pc = "open"
  /\ \/ pc' = (IF Query[check].sends THEN "send" ELSE "wait") /\ UNCHANGED fault
     \/ pc' = "CRITICAL" /\ fault' = TRUE
  /\ UNCHANGED <<setup, bound, sent, query, inbox, granted, alien>>

\* mutant: the query counts as sent whatever sendto() returns
SendToUnchecked ==
  /\ pc = "send"
  /\ pc' = "wait"
  /\ bound' = TRUE
  /\ \/ sent' = TRUE /\ UNCHANGED fault
     \/ fault' = TRUE /\ UNCHANGED sent
  /\ query' = TRUE
  /\ UNCHANGED <<setup, inbox, granted, alien>>

\* sendto(): it gives the socket a port, also when it fails.
SendTo ==
  /\ pc = "send"
  /\ pc' = "wait"
  /\ bound' = TRUE
  /\ \/ sent' = TRUE /\ query' = TRUE /\ UNCHANGED fault
     \/ fault' = TRUE /\ UNCHANGED <<sent, query>>
  /\ UNCHANGED <<setup, inbox, granted, alien>>

\* recvfrom(): one datagram, whoever sent it.
Receive ==
  /\ pc = "wait"
  /\ \E text \in inbox :
       /\ pc' = Concluded(Query[check], sent, Judged(Query[check], text))
       /\ inbox' = inbox \ {text}
  /\ UNCHANGED <<setup, bound, sent, query, granted, alien, fault>>

\* mutant: recvfrom() is called again when it times out
TimeoutAgain ==
  /\ pc = "wait"
  /\ UNCHANGED vars

\* mutant: the result of recvfrom() is not looked at
TimeoutIsEmpty ==
  /\ pc = "wait"
  /\ pc' = Concluded(Query[check], sent,
                    Judged([Query[check] EXCEPT !.empty = TRUE], <<>>))
  /\ fault' = (fault \/ query \/ inbox # {})
  /\ UNCHANGED <<setup, bound, sent, query, inbox, granted, alien>>

\* recvfrom() or select() times out.  It is a fault when the answer was late.
Timeout ==
  /\ pc = "wait"
  /\ pc' = Concluded(Query[check], sent, Query[check].silent)
  /\ fault' = (fault \/ query \/ inbox # {})
  /\ UNCHANGED <<setup, bound, sent, query, inbox, granted, alien>>

Exited == ~Running /\ UNCHANGED vars

-----------------------------------------------------------------------------
(* The service and the network. *)

\* The service answers the query, to the port it came from or, a DHCP server,
\* to the client port; a query that the network doubled is answered again.
Serve ==
  /\ Running
  /\ query
  /\ query' \in BOOLEAN
  /\ \E a \in Answer[check][healthy] :
       /\ granted' = (granted \/ a.grants)
       /\ inbox' = IF Query[check].port = "own" THEN inbox \cup {a.text} ELSE inbox
  /\ UNCHANGED <<setup, pc, bound, sent, alien, fault>>

\* The query, or a datagram to the port, is lost.
Lose ==
  /\ Running
  /\ \/ query /\ query' = FALSE /\ UNCHANGED inbox
     \/ \E text \in inbox : inbox' = inbox \ {text} /\ UNCHANGED query
  /\ fault' = TRUE
  /\ UNCHANGED <<setup, pc, bound, sent, granted, alien>>

\* Another sender, or an answer to an earlier process that had this port.
Stray ==
  /\ Running
  /\ bound
  /\ \E text \in Others : inbox' = inbox \cup {text}
  /\ alien' = TRUE
  /\ UNCHANGED <<setup, pc, bound, sent, query, granted, fault>>

-----------------------------------------------------------------------------
Client == Open \/ SendTo \/ Receive \/ Timeout
Network == Serve \/ Lose \/ Stray

Next == Client \/ Network \/ Exited

Spec == Init /\ [][Next]_vars

\* The process runs, and SO_RCVTIMEO or select() ends its wait.
FairSpec == Spec /\ WF_vars(Client)

-----------------------------------------------------------------------------
\* No false OK: OK is only returned after the service has answered the query
\* as the check asks, unless somebody else's datagram came to the port (no
\* plugin compares the sender) or the check does not look at it (checkDhcp).
OkMeansAnswered == pc = "OK" /\ ~alien /\ check \notin Blind => granted

\* No false alarm: a service that answers as asked, over a network that loses
\* and delays nothing, gets OK.  Not so where no query is sent (checkUdp()
\* without -s waits for a datagram that cannot come) or the text is not seen.
HealthyIsOk ==
  pc \in ExitCode /\ healthy /\ ~fault /\ ~alien /\ check \in Answerable => pc = "OK"

\* Every variable has its type; only a query that was sent is on its way, and
\* nothing reaches a socket that has no port.
TypeOK ==
  /\ check \in Check
  /\ pc \in {"open", "send", "wait"} \cup ExitCode
  /\ healthy \in BOOLEAN /\ granted \in BOOLEAN /\ alien \in BOOLEAN /\ fault \in BOOLEAN
  /\ query => sent
  /\ sent => bound
  /\ inbox # {} => bound

\* As long as nobody else has written to the port, a datagram there that would
\* be judged OK is an answer that grants, and so is what made the verdict OK.
\* OkMeansAnswered alone is not inductive: it says nothing of the socket.
InboxGranted ==
  check \notin Blind /\ ~alien =>
    \A text \in inbox : Judged(Query[check], text) = "OK" => granted

\* As long as nothing fails, the answer of a healthy service, or the query for
\* it, is on its way until the check has it.
AnswerComes ==
  check \in Answerable /\ healthy /\ ~fault /\ ~alien =>
    /\ pc = "open" => ~query /\ inbox = {}
    /\ pc = "send" => ~query /\ inbox = {}
    /\ pc = "wait" =>
         /\ sent
         /\ IF Query[check].port = "own"
            THEN /\ query \/ inbox # {}
                 /\ \A text \in inbox : Judged(Query[check], text) = "OK"
            ELSE inbox = {}

\* The invariant behind the properties.
IInv == TypeOK /\ InboxGranted /\ OkMeansAnswered /\ AnswerComes /\ HealthyIsOk
=============================================================================
