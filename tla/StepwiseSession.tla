-------------------------- MODULE StepwiseSession --------------------------
(***************************************************************************)
(* The dialogues that stay in step: the client sends only after it has     *)
(* seen a mark of the reply to its last command, and a reply has at most   *)
(* one mark.  So the network cannot make one reply pass for two, and what  *)
(* is tested at the gate of a login is the reply to the login, although    *)
(* the same "+OK" answers every command of POP3.                           *)
(*                                                                         *)
(* While nothing fails, and replies arrive in one segment, a dialogue also *)
(* stays in step when its replies have several marks (check_ftp), and a    *)
(* healthy service gets OK.                                                *)
(***************************************************************************)
EXTENDS TaggedSession

CONSTANTS
  Stepwise,   \* the checks that stay in step whatever the network does
  Mark,       \* [Stepwise -> set of atoms]: what their tests look for
  Login,      \* of these, the logins; Before holds the stages up to the verdict on them
  Answerable, \* those that get one message at a time, and know the good ones
  InPieces    \* of these, the logins whose replies have several marks

Reads(c, s) == s \in DOMAIN Script[c] /\ Script[c][s].op = "recv"
Sends(c, s) == s \in DOMAIN Script[c] /\ Script[c][s].op = "send"

\* A reading step with a test that leads on.
Asks(c, s) == Reads(c, s) /\ \E o \in Script[c][s].on : o.to \notin BadEnd

\* What a server may say to the client in a reading step: its greeting, or the
\* reply to the command that was sent on the way there.
Heard(c, s, h) ==
  {r \in Greeting[c][h] : s = First[c]} \cup
  UNION {Answer[c][Script[c][t].cmd][h] : t \in {u \in DOMAIN Script[c] : Sends(c, u) /\ Script[c][u].next = s}}

Silent(c) == \A h \in BOOLEAN : \A r \in Greeting[c][h] : r.text = <<>>

Marked(c, text)  == \E i \in 1..Len(text) : text[i] \in Mark[c]
OneMark(c, text) == \A i, j \in 1..Len(text) : text[i] \in Mark[c] /\ text[j] \in Mark[c] => i = j

\* Steps that read and steps that send alternate.
ASSUME AlternationAssumption ==
  \A c \in Stepwise \cup Answerable :
    /\ c \in Check
    /\ First[c] \in DOMAIN Script[c] \cup {"OK"}
    /\ Sends(c, First[c]) => Silent(c)
    /\ \A s \in DOMAIN Script[c] :
         /\ Reads(c, s) \/ Sends(c, s)
         /\ Sends(c, s) => Reads(c, Script[c][s].next)
         /\ Reads(c, s) =>
              /\ Script[c][s].otherwise \in ExitCode \/ Sends(c, Script[c][s].otherwise)
              /\ \A o \in Script[c][s].on : o.to \in ExitCode \/ Sends(c, o.to)

\* An empty response ends a stepwise check, a test that leads on looks for a
\* mark, and the reply has one.
ASSUME MarkAssumption ==
  \A c \in Stepwise :
    /\ Text \notin Mark[c]
    /\ \A s \in DOMAIN Script[c] :
         /\ Reads(c, s) => Script[c][s].otherwise \in ExitCode
         /\ Asks(c, s) =>
              /\ \A o \in Script[c][s].on : o.to \notin BadEnd => o.shows \cap Mark[c] # {}
              /\ \A h \in BOOLEAN : \A r \in Heard(c, s, h) : OneMark(c, r.text)

\* A mark that lets a login pass its gate is in no reply but a granting one.
ASSUME LoginAssumption ==
  \A c \in Login :
    /\ c \in Stepwise
    /\ First[c] \in Before[c]
    /\ Before[c] \subseteq DOMAIN Script[c]
    /\ \A s \in Before[c] :
         /\ Sends(c, s) => Script[c][s].next \in Before[c]
         /\ Reads(c, s) =>
              /\ Script[c][s].otherwise \in BadEnd
              /\ \A o \in Script[c][s].on :
                   \/ o.to \in Before[c] \cup BadEnd
                   \/ \E a \in o.shows \cap Mark[c] :
                        \A h \in BOOLEAN : \A r \in Heard(c, s, h) :
                          (\E i \in 1..Len(r.text) : r.text[i] = a) => r.grants

\* A message is not empty, and its end is its last atom; the tests know the
\* replies of a healthy service.
ASSUME AnswerableAssumption ==
  /\ Text # End
  /\ \A c \in Answerable : \A s \in DOMAIN Script[c] : \A h \in BOOLEAN : Reads(c, s) =>
       \A r \in Heard(c, s, h) :
         /\ r.text # <<>>
         /\ \A i \in 1..Len(r.text) : r.text[i] = End <=> i = Len(r.text)
         /\ h => Judged(c, s, r.text) \cap Done \subseteq {"OK"}

ASSUME InPiecesAssumption ==
  \A c \in InPieces :
    /\ c \in Answerable
    /\ First[c] \in Before[c]
    /\ Before[c] \subseteq DOMAIN Script[c]
    /\ \A s \in Before[c] :
         /\ Sends(c, s) => Script[c][s].next \in Before[c]
         /\ \A h \in BOOLEAN : Reads(c, s) =>
              \A r \in Heard(c, s, h) :
                Judged(c, s, r.text) \subseteq Before[c] \cup BadEnd \/ r.grants

-----------------------------------------------------------------------------
\* The greeting has been sent, or it says nothing.
Greeted == greeted \/ Silent(check)

\* The server owes the reply that the reading step pc waits for.
Owed ==
  \/ /\ Len(cmds) = 1 /\ Greeted
     /\ Answer[check][Head(cmds)][healthy] \subseteq Heard(check, pc, healthy)
  \/ cmds = <<>> /\ ~greeted /\ pc = First[check]

\* Nothing that a test looks for is on its way or will be.
Quiet == cmds = <<>> /\ Greeted /\ ~Marked(check, inbox)

\* The one mark that is on its way is of the reply to the last command.
MarkHeard ==
  /\ cmds = <<>> /\ Greeted /\ OneMark(check, inbox)
  /\ Marked(check, inbox) =>
       \E r \in Heard(check, pc, healthy) :
         /\ r.grants => granted
         /\ \A i \in 1..Len(inbox) :
              inbox[i] \in Mark[check] => \E j \in 1..Len(r.text) : r.text[j] = inbox[i]

\* A stepwise check, whatever the network does.
StepInv ==
  check \in Stepwise =>
    /\ Sends(check, pc) => Quiet /\ link \notin {"poked", "dead"}
    /\ Asks(check, pc) =>
         /\ MarkHeard \/ (Owed /\ ~Marked(check, inbox))
         /\ link \in {"poked", "dead"} => ~Marked(check, inbox)
    /\ pc # "SIGPIPE"
    /\ check \in Login /\ pc \notin Undecided(check) => granted

\* One message at a time, while nothing has failed.
MessageInv ==
  check \in Answerable /\ ~fault =>
    /\ link = "up"
    /\ Sends(check, pc) => inbox = <<>> /\ cmds = <<>> /\ Greeted
    /\ Reads(check, pc) =>
         \/ inbox = <<>> /\ Owed
         \/ /\ cmds = <<>> /\ Greeted
            /\ \E r \in Heard(check, pc, healthy) : inbox = r.text /\ (r.grants => granted)
    /\ healthy /\ pc \in Done => pc = "OK"
    /\ check \in InPieces /\ pc \notin Undecided(check) => granted

\* What holds before the connection is there.
DialInv ==
  check \in Stepwise \cup Answerable /\ pc = "dial" =>
    inbox = <<>> /\ cmds = <<>> /\ ~greeted /\ link = "up"

\* The invariant behind the properties below.
LineInv == IInv /\ DialInv /\ StepInv /\ MessageInv

-----------------------------------------------------------------------------
\* No false OK: however TCP splits, joins, delays or cuts the replies, OK is
\* only returned after the server sent the reply that OK stands for, with
\* credentials the one that accepts them (checkPop, checkImap, checkNntp, ...).
\* check_ftp gives that only for a session whose replies all arrived whole.
OkMeansGranted ==
  pc = "OK" /\ check \in Tagged \cup Login \cup InPieces /\ (check \in InPieces => ~fault) => granted

\* No false alarm: a service that accepts what the check asks for, over a
\* network that neither loses, delays nor splits its messages, gets OK.
HealthyIsOk ==
  pc \in Done /\ healthy /\ ~fault /\ check \in Answerable => pc = "OK"

\* The check stays in step: it never sends a command while the server has not
\* answered the one before (each sendCommand() follows a readResponse() that
\* returned the reply to the last one).  For check_ftp, while replies are whole.
InStep ==
  [][Len(cmds') > Len(cmds) /\ (check \in Stepwise \/ (check \in InPieces /\ ~fault))
     => cmds = <<>>]_vars

\* The process ends by returning a status, never by a signal: a send() on a
\* connection the peer has reset is not reached.
ExitsWithStatus == check \in Stepwise => pc # "SIGPIPE"
=============================================================================
