----------------------------- MODULE WholeLoop -----------------------------
(***************************************************************************)
(* What the receive loops do on a network that fails nothing: the loop     *)
(* collects what the server wrote to the last command and nothing else, in *)
(* order, however TCP and TLS cut it.  Three verdicts rest on it: an OK    *)
(* for a bad state that is absent from the reply (check_consul looks for   *)
(* "critical"), the metrics of an OK, and the OK of a healthy service.     *)
(***************************************************************************)
EXTENDS KeyedLoop

CONSTANTS
  Whole,      \* the checks that judge whole replies only
  Absence,    \* those that look for the absence of a bad state
  Answerable, \* the checks whose tests know the answers of a healthy service
  Hasty       \* of these, those that may take a part of it for a bad one

\* Where the tests of an exchange may lead.
Targets(e) == {e.otherwise} \cup {e.tests[k].to : k \in DOMAIN e.tests}

\* What the loop may have collected of a reply: TLS delivers whole records.
Arrives(c, text, n) ==
  n \in 0..Len(text) /\ (c \in Secure => n \in {0, Len(text)} \/ text[n] \in RecordEnd)

\* No part of an answer ends the loop.
ReadsWhole(c, s) ==
  LET e == Script[c][s] IN
  \A h \in BOOLEAN : \A r \in Answer[c][e.cmd][h] :
    \A n \in 0..Len(r.text), cut \in BOOLEAN :
      n < Len(r.text) /\ Arrives(c, r.text, n) => ~Complete(e, SubSeq(r.text, 1, n), cut)

\* An exchange that stays on its connection follows one that was read to the
\* end, and no server closes a connection that is used again.
ASSUME ConnectionAssumption ==
  \A c \in Check : \A s \in DOMAIN Script[c] : \A t \in Targets(Script[c][s]) \cap DOMAIN Script[c] :
    Script[c][t].dials \/ (c \notin Closing /\ ReadsWhole(c, s))

ASSUME WholeAssumption ==
  /\ Absence \subseteq Whole
  /\ Whole \subseteq Check
  /\ \A c \in Whole : \A s \in DOMAIN Script[c] :
       "OK" \in Targets(Script[c][s]) => ReadsWhole(c, s)

ASSUME AbsenceAssumption ==
  \A c \in Absence : \A s \in DOMAIN Script[c] :
    LET e == Script[c][s] IN
    \A h \in BOOLEAN : \A r \in Answer[c][e.cmd][h] :
      Judged(e, r.text, FALSE) = "OK" => r.grants

\* What a healthy service answers leads to the next exchange or to OK, as soon
\* as enough of it has arrived to end the loop.
ASSUME AnswerableAssumption ==
  \A c \in Answerable : \A s \in DOMAIN Script[c] :
    LET e == Script[c][s] IN
    \A r \in Answer[c][e.cmd][TRUE] : \A n \in 0..Len(r.text), cut \in BOOLEAN :
      /\ Arrives(c, r.text, n)
      /\ cut => n < Len(r.text)
      /\ n = Len(r.text) \/ Complete(e, SubSeq(r.text, 1, n), cut)
      => \/ Judged(e, SubSeq(r.text, 1, n), cut) \in DOMAIN Script[c] \cup {"OK"}
         \/ c \in Hasty /\ n < Len(r.text)

-----------------------------------------------------------------------------
\* Nothing of the reply has arrived or been written.
Awaiting == owed = {Exchange.cmd} /\ due = <<>> /\ response = <<>> /\ inbox = <<>> /\ ~half

\* The loop has one part of a reply, and the rest is on its way.
Reading ==
  /\ owed = None
  /\ \E r \in Answer[check][Exchange.cmd][healthy] : due = r.text /\ (r.grants => granted)
  /\ due = response \o inbox
  /\ Arrives(check, due, Len(response))
  /\ half => inbox # <<>>

\* While nothing has failed, nothing of another reply is on its way.
Unbroken ==
  Running /\ ~fault =>
    /\ phase \in {"dial", "handshake", "send", "read"}
    /\ phase \in {"handshake", "send"} => link = "up" /\ inbox = <<>> /\ owed = None
    /\ phase = "read" =>
         /\ link = "up" \/ (link = "closed" /\ check \in Closing /\ due # <<>>)
         /\ Awaiting \/ Reading

\* No false OK: OK is only returned after the server wrote the answer that OK
\* stands for, whatever the network does.  For the checks that look for the
\* absence of a bad state, when the reply arrived whole.
OkMeansGranted ==
  pc = "OK" /\ check \in Keyed \cup Absence /\ (check \in Absence => ~fault) => granted

\* The loop collects the whole reply before it is judged, unless the network
\* fails: the metrics of an OK are those the server sent.
WholeReply == pc = "OK" /\ ~fault /\ check \in Whole => response = due

\* No false alarm: a service in the state the check asks for gets OK, however
\* TCP splits its replies, when the network loses and delays nothing.  Only a
\* hasty check (check_redis) may judge a reply of which it has read a part.
HealthyIsOk ==
  pc \in Done /\ healthy /\ ~fault /\ check \in Answerable =>
    pc = "OK" \/ (check \in Hasty /\ response # due)

\* The invariant behind the three: a reply is in one piece between the server
\* and the loop until it is judged.
LoopInv ==
  /\ IInv
  /\ Unbroken
  /\ OkMeansGranted /\ WholeReply /\ HealthyIsOk
=============================================================================
