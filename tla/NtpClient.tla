------------------------------ MODULE NtpClient ------------------------------
(***************************************************************************)
(* The clock queries of src/common/ntp_client.cpp and the checks built on  *)
(* them: queryNtpOffset() under check_ntp, check_ntp_time, check_ntp_peer  *)
(* and check_time on port 123; queryTimeProtocolOffset() (RFC 868, whole   *)
(* seconds only) under check_time on its other ports.  One datagram goes   *)
(* out, whatever datagram comes in is the answer.                          *)
(*                                                                         *)
(* Time is counted in ticks of the server's clock; the local clock is      *)
(* ahead of it by skew.  Offsets are kept doubled, so that the midpoint of *)
(* two readings stays an integer.                                          *)
(***************************************************************************)
EXTENDS Integers, FiniteSets

CONSTANTS
  Check,       \* the check configurations
  Resolution,  \* [Check -> ticks]: what a server timestamp is rounded down to
  Warning,     \* [Check -> Int]: the threshold -w, not used unless positive
  Critical,    \* [Check -> Int]: the threshold -c, not used unless positive
  ByStratum,   \* the checks whose thresholds are about the stratum
  Era,         \* ticks after which the 32-bit seconds of a timestamp wrap
  Skews,       \* how far the local clock can be ahead (negative: behind)
  Strata,      \* the strata a server may announce
  Stale,       \* when the server answered earlier queries from this port
  Start,       \* when the query may begin
  MaxReplies,  \* bound: how often the network delivers the request
  Horizon      \* bound: the last tick

ASSUME TimeAssumption ==
  /\ Era \in Nat \ {0}
  /\ Skews \subseteq Int
  /\ Start \subseteq Nat
  /\ Stale \subseteq Nat
  /\ Strata \subseteq Nat
  /\ MaxReplies \in Nat
  /\ \A c \in Check : /\ Resolution[c] \in Nat \ {0}
                      /\ Warning[c] \in Int /\ Critical[c] \in Int

VARIABLES
  check, skew,
  now,        \* the server's clock
  pc,         \* "stamp", "send", "wait", "restamp", or the exit code
  sendTime, recvTime,  \* local readings before sendto() and after recvfrom()
  requests,   \* how often the request may still reach the server
  net,        \* the answers on their way to the client
  answer,     \* the answer received
  offset2     \* twice offset_seconds

vars == <<check, skew, now, pc, sendTime, recvTime, requests, net, answer, offset2>>
setup == <<check, skew>>

Done   == {"OK", "WARNING", "CRITICAL"}
Local  == now + skew

-----------------------------------------------------------------------------
(* Timestamps and verdicts. *)

\* What the server writes for its time t; ntpTimestampToUnix() subtracts the
\* distance of the epochs, which cancels out, and does not add the era.
Stamp(c, t) == (t - (t % Resolution[c])) % Era

Abs(x) == IF x < 0 THEN -x ELSE x

\* mutant: std::abs() is missing
VerdictSigned(c, off2, stratum) ==
  LET over(limit) == limit > 0 /\ IF c \in ByStratum THEN stratum >= limit
                                                     ELSE off2 > 2 * limit
  IN  IF c \in ByStratum /\ stratum = 0 THEN "CRITICAL"
      ELSE IF over(Critical[c]) THEN "CRITICAL"
      ELSE IF over(Warning[c]) THEN "WARNING" ELSE "OK"

\* mutant: the warning threshold is looked at first
VerdictLowFirst(c, off2, stratum) ==
  LET over(limit) == limit > 0 /\ IF c \in ByStratum THEN stratum >= limit
                                                     ELSE Abs(off2) > 2 * limit
  IN  IF c \in ByStratum /\ stratum = 0 THEN "CRITICAL"
      ELSE IF over(Warning[c]) THEN "WARNING"
      ELSE IF over(Critical[c]) THEN "CRITICAL" ELSE "OK"

\* check(): the thresholds, of which only check_ntp_peer tests the stratum.
Verdict(c, off2, stratum) ==
  LET over(limit) == limit > 0 /\ IF c \in ByStratum THEN stratum >= limit
                                                     ELSE Abs(off2) > 2 * limit
  IN  IF c \in ByStratum /\ stratum = 0 THEN "CRITICAL"
      ELSE IF over(Critical[c]) THEN "CRITICAL"
      ELSE IF over(Warning[c]) THEN "WARNING" ELSE "OK"

-----------------------------------------------------------------------------
NoAnswer == [stamp |-> 0, stratum |-> 0, at |-> -1]
Reply(t, s) == [stamp |-> Stamp(check, t), stratum |-> s, at |-> t]

Init ==
  /\ check \in Check
  /\ skew \in Skews
  /\ now \in Start
  /\ pc = "stamp"
  /\ sendTime = 0 /\ recvTime = 0
  /\ requests = 0
  /\ \E times \in SUBSET {t \in Stale : t < now} :
       net = {Reply(t, s) : t \in times, s \in Strata}
  /\ answer = NoAnswer
  /\ offset2 = 0

\* Time passes.
Tick ==
  /\ pc \notin Done
  /\ now < Horizon
  /\ now' = now + 1
  /\ UNCHANGED <<setup, pc, sendTime, recvTime, requests, net, answer, offset2>>

\* mutant: an error is reported with a code of its own
StampSendErrno ==
  /\ pc = "stamp"
  /\ \/ pc' = "send" /\ sendTime' = Local
     \/ pc' = "EAI_NONAME" /\ UNCHANGED sendTime
  /\ UNCHANGED <<setup, now, recvTime, requests, net, answer, offset2>>

\* createUdpSocket() resolved the name and setSocketTimeout() succeeded, then
\* getTimeval(sendTime); or one of them failed.
StampSend ==
  /\ pc = "stamp"
  /\ \/ pc' = "send" /\ sendTime' = Local
     \/ pc' = "CRITICAL" /\ UNCHANGED sendTime
  /\ UNCHANGED <<setup, now, recvTime, requests, net, answer, offset2>>

\* sendto(): the network may lose the request or deliver it more than once.
SendTo ==
  /\ pc = "send"
  /\ \/ pc' = "wait" /\ requests' \in 0..MaxReplies
     \/ pc' = "CRITICAL" /\ UNCHANGED requests
  /\ UNCHANGED <<setup, now, sendTime, recvTime, net, answer, offset2>>

\* mutant: the time of sending is taken for the time of receiving
ReceiveEarlyStamp ==
  /\ pc = "wait"
  /\ \E m \in net : answer' = m /\ net' = net \ {m}
  /\ recvTime' = sendTime
  /\ offset2' = (sendTime + sendTime) - 2 * answer'.stamp
  /\ pc' = Verdict(check, offset2', answer'.stratum)
  /\ UNCHANGED <<setup, now, sendTime, requests>>

\* recvfrom() returns the first datagram that arrives, from anywhere.
Receive ==
  /\ pc = "wait"
  /\ \E m \in net : answer' = m /\ net' = net \ {m}
  /\ pc' = "restamp"
  /\ UNCHANGED <<setup, now, sendTime, recvTime, requests, offset2>>

\* recvfrom() fails when SO_RCVTIMEO runs out, or returns a short datagram.
GiveUp ==
  /\ pc = "wait"
  /\ pc' = "CRITICAL"
  /\ UNCHANGED <<setup, now, sendTime, recvTime, requests, net, answer, offset2>>

\* getTimeval(recvTime), the offset and the verdict.
Conclude ==
  /\ pc = "restamp"
  /\ recvTime' = Local
  /\ offset2' = (sendTime + recvTime') - 2 * answer.stamp
  /\ pc' = Verdict(check, offset2', answer.stratum)
  /\ UNCHANGED <<setup, now, sendTime, requests, net, answer>>

-----------------------------------------------------------------------------
\* The server answers a request that has reached it.
Serve ==
  /\ pc \notin Done
  /\ requests > 0
  /\ requests' = requests - 1
  /\ \E s \in Strata : net' = net \cup {Reply(now, s)}
  /\ UNCHANGED <<setup, now, pc, sendTime, recvTime, answer, offset2>>

\* An answer is lost.
Lose ==
  /\ pc \notin Done
  /\ \E m \in net : net' = net \ {m}
  /\ UNCHANGED <<setup, now, pc, sendTime, recvTime, requests, answer, offset2>>

Exited == pc \in Done /\ UNCHANGED vars

Client == StampSend \/ SendTo \/ Receive \/ GiveUp \/ Conclude

Next == Tick \/ Client \/ Serve \/ Lose \/ Exited

Spec == Init /\ [][Next]_vars

-----------------------------------------------------------------------------
\* Every variable has its type; an answer carries the stamp of its time.
Answered(m) == m.at \in Nat /\ m.stratum \in Strata /\ m.stamp = Stamp(check, m.at)

TypeOK ==
  /\ check \in Check
  /\ skew \in Skews
  /\ now \in Nat
  /\ pc \in {"stamp", "send", "wait", "restamp"} \cup Done
  /\ sendTime \in Int /\ recvTime \in Int /\ offset2 \in Int
  /\ requests \in 0..MaxReplies
  /\ \A m \in net : Answered(m)
  /\ answer = NoAnswer \/ Answered(answer)

\* The process ended with Conclude, not with an error.
Measured == pc \in Done /\ answer # NoAnswer

\* The answer was given while this query ran, in the era of the epoch.
Fresh == sendTime <= answer.at + skew
InEra == answer.at < Era

\* Twice the largest error: the round trip, and what the server's timestamp
\* was rounded by.
Error2 == (recvTime - sendTime) + 2 * (Resolution[check] - 1)

\* Why the offset is accurate (with TypeOK an inductive invariant): answers
\* are never from the future, and the two local readings enclose a fresh one.
Readings ==
  /\ \A m \in net : m.at <= now
  /\ pc \in {"stamp", "send", "wait"} => answer = NoAnswer
  /\ pc \in {"send", "wait", "restamp"} => sendTime <= Local
  /\ pc = "restamp" => answer # NoAnswer /\ answer.at <= now
  /\ Measured =>
       /\ sendTime <= recvTime
       /\ answer.at + skew <= recvTime
       /\ offset2 = (sendTime + recvTime) - 2 * answer.stamp
       /\ pc = Verdict(check, offset2, answer.stratum)

IInv == TypeOK /\ Readings

\* queryNtpOffset() and queryTimeProtocolOffset() measure the clock: an offset
\* is off by at most half the round trip plus the rounding, however long the
\* request, the server, the answer and the process were delayed.
OffsetIsAccurate ==
  Measured /\ Fresh /\ InEra => Abs(offset2 - 2 * skew) <= Error2

\* The verdict is about the clock and not about the delays: a clock that is
\* further off than a threshold by more than the error is not reported OK,
\* and one that is within all thresholds by more than the error is.
VerdictFollowsClock ==
  Measured /\ Fresh /\ InEra /\ check \notin ByStratum =>
    /\ \A limit \in {Warning[check], Critical[check]} :
         limit > 0 /\ 2 * Abs(skew) > 2 * limit + Error2 => pc # "OK"
    /\ (\A limit \in {Warning[check], Critical[check]} :
         limit > 0 => 2 * Abs(skew) + Error2 <= 2 * limit) => pc = "OK"

\* A worse clock never gets a milder verdict from the thresholds: beyond -c it
\* is CRITICAL, also when -c is the lower of the two.
BeyondCriticalIsCritical ==
  Measured /\ Fresh /\ InEra /\ check \notin ByStratum
    /\ Critical[check] > 0 /\ 2 * Abs(skew) > 2 * Critical[check] + Error2
    => pc = "CRITICAL"
=============================================================================
