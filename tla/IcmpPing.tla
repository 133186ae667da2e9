------------------------------ MODULE IcmpPing ------------------------------
(***************************************************************************)
(* check_ping and check_fping: pingHost() sends echo requests one by one   *)
(* over a raw ICMP socket, waits after each for at most one datagram, and  *)
(* check() compares the loss and the average round trip with thresholds.   *)
(* A raw socket is given every ICMP message that reaches the machine, and  *)
(* pingHost() looks neither at its type nor at its identifier, sequence    *)
(* number or sender.                                                       *)
(***************************************************************************)
EXTENDS Integers, Sequences, FiniteSets

CONSTANTS
  Proc,     \* the ping processes that run on the machine
  Host,     \* the hosts they ping
  Target,   \* [Proc -> Host]
  Options   \* the command lines: records of count, criticalPL, warningPL (in
            \* percent, not used unless positive), criticalRTA, warningRTA
            \* (whether a threshold on the round trip is given)

ASSUME OptionsAssumption ==
  /\ Target \in [Proc -> Host]
  /\ \A o \in Options :
       /\ o.count \in Nat /\ o.criticalPL \in Int /\ o.warningPL \in Int
       /\ o.criticalRTA \in BOOLEAN /\ o.warningRTA \in BOOLEAN

VARIABLES
  options,   \* [Proc -> Options]
  up,        \* the hosts that answer
  pc,        \* [Proc -> "open", "send", "wait", "judge", or the exit code]
  seq,       \* [Proc -> the number of the current packet]
  counted,   \* [Proc -> the datagrams it took for replies, each with the
             \*          number of the packet it was waiting for]
  queue,     \* [Proc -> what its socket holds]
  requests,  \* the echo requests on their way
  replies,   \* the messages on their way back to this machine
  answered,  \* [Proc -> the packets its host has answered]
  late,      \* the processes that met a late datagram
  lossy      \* the processes that met a lost packet or a long round trip

vars == <<options, up, pc, seq, counted, queue, requests, replies, answered, late, lossy>>
setup == <<options, up>>
net == <<requests, replies, answered>>

Done == {"OK", "WARNING", "CRITICAL", "UNKNOWN"}
Open(p) == pc[p] \in {"send", "wait"}

\* An echo reply, or the error a router sends in its place.
Echo(p, i)  == [kind |-> "reply", proc |-> p, number |-> i]
Error(p, i) == [kind |-> "error", proc |-> p, number |-> i]

-----------------------------------------------------------------------------
Init ==
  /\ options \in [Proc -> Options]
  /\ up \in SUBSET Host
  /\ pc = [p \in Proc |-> "open"]
  /\ seq = [p \in Proc |-> 0]
  /\ counted = [p \in Proc |-> <<>>]
  /\ queue = [p \in Proc |-> <<>>]
  /\ requests = {} /\ replies = {}
  /\ answered = [p \in Proc |-> {}]
  /\ late = {} /\ lossy = {}

\* pc and seq of p when it goes on with packet i, or has sent them all.
GoOn(p, i) ==
  /\ seq' = [seq EXCEPT ![p] = i]
  /\ pc' = [pc EXCEPT ![p] = IF i < options[p].count THEN "send" ELSE "judge"]

\* socket(SOCK_RAW) and gethostbyname(); an exception that check() catches
\* when one of them fails.
OpenSocket(p) ==
  /\ pc[p] = "open"
  /\ \/ GoOn(p, 0)
     \/ pc' = [pc EXCEPT ![p] = "UNKNOWN"] /\ UNCHANGED seq
  /\ UNCHANGED <<setup, counted, queue, net, late, lossy>>

\* sendto(); when it fails the packet counts as sent and lost.
SendEcho(p) ==
  /\ pc[p] = "send"
  /\ \/ /\ requests' = requests \cup {[proc |-> p, number |-> seq[p]]}
        /\ pc' = [pc EXCEPT ![p] = "wait"]
        /\ UNCHANGED <<seq, lossy>>
     \/ /\ GoOn(p, seq[p] + 1)
        /\ lossy' = lossy \cup {p}
        /\ UNCHANGED requests
  /\ UNCHANGED <<setup, counted, queue, replies, answered, late>>

\* mutant: recvfrom() leaves the datagram in the socket
RecvPeeked(p) ==
  /\ pc[p] = "wait"
  /\ queue[p] # <<>>
  /\ counted' = [counted EXCEPT ![p] = Append(@, [at |-> seq[p], msg |-> Head(queue[p])])]
  /\ GoOn(p, seq[p] + 1)
  /\ UNCHANGED <<setup, queue, net, late, lossy>>

\* select() reports the socket readable, recvfrom() takes one datagram, and
\* it is counted, with the time since this packet was sent.
RecvEcho(p) ==
  /\ pc[p] = "wait"
  /\ queue[p] # <<>>
  /\ counted' = [counted EXCEPT ![p] = Append(@, [at |-> seq[p], msg |-> Head(queue[p])])]
  /\ queue' = [queue EXCEPT ![p] = Tail(@)]
  /\ GoOn(p, seq[p] + 1)
  /\ UNCHANGED <<setup, net, late, lossy>>

Outstanding(p) == {q \in requests : q.proc = p} \cup {r \in replies : r.proc = p}

\* select() times out: after -t seconds, or in check_fping after one.
Timeout(p) ==
  /\ pc[p] = "wait"
  /\ queue[p] = <<>>
  /\ GoOn(p, seq[p] + 1)
  /\ late' = IF Outstanding(p) # {} THEN late \cup {p} ELSE late
  /\ UNCHANGED <<setup, counted, queue, net, lossy>>

-----------------------------------------------------------------------------
\* mutant: a threshold of 0 counts
LossOverAny(p, limit) ==
  LET sent == options[p].count IN
  sent # 0 /\ (sent - Len(counted[p])) * 100 >= limit * sent

\* mutant: the loss is computed where the average is, with a reply at hand
LossOverIfReceived(p, limit) ==
  LET sent == options[p].count IN
  limit > 0 /\ Len(counted[p]) > 0 /\ (sent - Len(counted[p])) * 100 >= limit * sent

\* packetLoss >= limit, which is false of the NaN that no packets give.
LossOver(p, limit) ==
  LET sent == options[p].count IN
  limit > 0 /\ sent # 0 /\ (sent - Len(counted[p])) * 100 >= limit * sent

\* mutant: the warning thresholds come first
VerdictWarningFirst(p, slowCritical, slowWarning) ==
  LET o == options[p] IN
  IF LossOver(p, o.warningPL) \/ slowWarning THEN "WARNING"
  ELSE IF LossOver(p, o.criticalPL) \/ slowCritical THEN "CRITICAL" ELSE "OK"

\* The thresholds of check(), with how the average compares with its own.
Verdict(p, slowCritical, slowWarning) ==
  LET o == options[p] IN
  IF LossOver(p, o.criticalPL) \/ slowCritical THEN "CRITICAL"
  ELSE IF LossOver(p, o.warningPL) \/ slowWarning THEN "WARNING"
  ELSE "OK"

\* close() and check().  Without a reply the average is 0 and never too long.
Judge(p) ==
  /\ pc[p] = "judge"
  /\ \E slowCritical, slowWarning \in BOOLEAN :
       /\ slowCritical => options[p].criticalRTA /\ counted[p] # <<>>
       /\ slowWarning => options[p].warningRTA /\ counted[p] # <<>>
       /\ pc' = [pc EXCEPT ![p] = Verdict(p, slowCritical, slowWarning)]
       /\ lossy' = IF slowCritical \/ slowWarning THEN lossy \cup {p} ELSE lossy
  /\ UNCHANGED <<setup, seq, counted, queue, net, late>>

Exited == (\A p \in Proc : pc[p] \in Done) /\ UNCHANGED vars

-----------------------------------------------------------------------------
(* The hosts, the network and the kernel. *)

\* A host that is up answers; a router may answer for one that is down.
Answer(q) ==
  /\ requests' = requests \ {q}
  /\ \/ /\ Target[q.proc] \in up
        /\ replies' = replies \cup {Echo(q.proc, q.number)}
        /\ answered' = [answered EXCEPT ![q.proc] = @ \cup {q.number}]
     \/ /\ Target[q.proc] \notin up
        /\ replies' = replies \cup {Error(q.proc, q.number)}
        /\ UNCHANGED answered
  /\ UNCHANGED <<setup, pc, seq, counted, queue, late, lossy>>

\* A request or a reply is lost.
Lose ==
  /\ \/ \E q \in requests :
          requests' = requests \ {q} /\ lossy' = lossy \cup {q.proc} /\ UNCHANGED replies
     \/ \E r \in replies :
          replies' = replies \ {r} /\ lossy' = lossy \cup {r.proc} /\ UNCHANGED requests
  /\ UNCHANGED <<setup, pc, seq, counted, queue, answered, late>>

\* A message arrives, and every open raw socket gets it.
Deliver(r) ==
  /\ replies' = replies \ {r}
  /\ queue' = [p \in Proc |-> IF Open(p) THEN Append(queue[p], r) ELSE queue[p]]
  /\ UNCHANGED <<setup, pc, seq, counted, requests, answered, late, lossy>>

Process(p) == OpenSocket(p) \/ SendEcho(p) \/ RecvEcho(p) \/ Timeout(p) \/ Judge(p)

Network ==
  \/ \E q \in requests : Answer(q)
  \/ \E r \in replies : Deliver(r)
  \/ Lose

Next == (\E p \in Proc : Process(p)) \/ Network \/ Exited

Spec == Init /\ [][Next]_vars

\* The processes are scheduled and select() times out.
FairSpec == Spec /\ \A p \in Proc : WF_vars(Process(p))

-----------------------------------------------------------------------------
\* A router's error was taken for a reply.
Misled(p) == \E i \in DOMAIN counted[p] : counted[p][i].msg.kind = "error"

\* On a machine with no other ICMP traffic the loss is never understated,
\* though no reply is matched with its request: beyond the critical limit the
\* verdict of check() is CRITICAL (or the ping could not be made), unless an
\* error a router sent for a packet was counted as the reply to it.  (With -c 0
\* nothing is sent, and nothing lost.)
LossNotUnderstated ==
  \A p \in Proc : LET o == options[p] IN
    /\ pc[p] \in {"OK", "WARNING"}
    /\ o.criticalPL > 0 /\ o.count > 0
    /\ ~Misled(p)
    => (o.count - Cardinality(answered[p])) * 100 < o.criticalPL * o.count

\* Nor is it overstated: a host that is up, over a network that loses nothing
\* and is not late, gets OK, however the steps interleave.
PromptIsOk ==
  \A p \in Proc :
    /\ pc[p] \in Done \ {"UNKNOWN"}
    /\ Target[p] \in up
    /\ p \notin late \cup lossy
    => pc[p] = "OK"

\* The round trips are those of the packets: while no reply is late, the
\* datagram counted after a packet is the answer to that packet.
RttIsOwn ==
  \A p \in Proc : p \notin late =>
    \A i \in DOMAIN counted[p] : LET c == counted[p][i] IN
      c.msg \in {Echo(p, c.at), Error(p, c.at)}

-----------------------------------------------------------------------------
\* The ping on a machine that has no other.
Only == CHOOSE p \in Proc : TRUE

\* Its evidence: a message about its packets, from the host or, as the code has
\* it, from a router.
Served == \E i \in DOMAIN counted[Only] : counted[Only][i].msg.proc = Only

\* With a limit on the loss it implements the abstract check, and it ends, also
\* when nothing comes back.
Checked == INSTANCE CheckVerdict WITH
  Running <- "running", Statuses <- Done,
  status <- IF pc[Only] \in Done THEN pc[Only] ELSE "running",
  served <- Served
Implements == Checked!FairSpec
=============================================================================
