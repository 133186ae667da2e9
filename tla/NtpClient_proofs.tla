-------------------------- MODULE NtpClient_proofs --------------------------
(***************************************************************************)
(* Proofs about NtpClient: the offset of a fresh answer in the era of the  *)
(* epoch is off by at most half the round trip plus the rounding, whatever *)
(* the delays, the skew of the clock, the thresholds and the bounds; and   *)
(* the verdict is then about the clock.                                    *)
(***************************************************************************)
EXTENDS NtpClient, TLAPS

\* A remainder is smaller than its divisor and not larger than what is divided.
LEMMA Remainder ==
  ASSUME NEW t \in Nat, NEW r \in Nat \ {0}
  PROVE  /\ t % r \in Int
         /\ 0 <= t % r
         /\ t % r <= r - 1
         /\ t % r <= t
         /\ t < r => t % r = t
  BY SMT

\* A timestamp is at most the time it was written at, and less than one
\* resolution before it, until the 32-bit seconds wrap.
LEMMA StampInEra ==
  ASSUME NEW c \in Check, NEW t \in Nat
  PROVE  /\ Stamp(c, t) \in Int
         /\ t < Era => /\ Stamp(c, t) <= t
                       /\ t - (Resolution[c] - 1) <= Stamp(c, t)
  <1> DEFINE r == Resolution[c]
  <1> DEFINE low == t - (t % r)
  <1>1. r \in Nat \ {0} /\ Era \in Nat \ {0}
    BY TimeAssumption
  <1>2. low \in Nat /\ low <= t /\ t - (r - 1) <= low
    <2> HIDE DEF r
    <2>1. /\ t % r \in Int /\ 0 <= t % r
          /\ t % r <= r - 1 /\ t % r <= t
      BY <1>1, Remainder
    <2> QED  BY <1>1, <2>1
  <1>3. low % Era \in Int /\ (low < Era => low % Era = low)
    <2> HIDE DEF low
    <2> QED  BY <1>1, <1>2, Remainder
  <1> QED  BY <1>1, <1>2, <1>3 DEF Stamp

-----------------------------------------------------------------------------
\* The initial states: nothing measured, only earlier answers on their way.
LEMMA InitIInv == Init => IInv
  <1> SUFFICES ASSUME Init PROVE IInv
    OBVIOUS
  <1>1. now \in Nat /\ skew \in Skews /\ check \in Check
    BY TimeAssumption DEF Init
  <1>2. \A m \in net : Answered(m) /\ m.at <= now
    <2>1. PICK times \in SUBSET {t \in Stale : t < now} :
            net = {Reply(t, s) : t \in times, s \in Strata}
      BY DEF Init
    <2>2. \A t \in times : t \in Nat /\ t <= now
      <3>1. times \subseteq {t \in Stale : t < now} /\ Stale \subseteq Nat
        BY <2>1, TimeAssumption
      <3>2. ASSUME NEW t \in times PROVE t \in Nat /\ t < now
        BY <3>1
      <3> QED  BY <1>1, <3>2
    <2>3. ASSUME NEW t \in times, NEW s \in Strata
          PROVE  Answered(Reply(t, s)) /\ Reply(t, s).at <= now
      BY <2>2, <2>3 DEF Answered, Reply
    <2> QED  BY <2>1, <2>3
  <1>3. TypeOK
    BY <1>1, <1>2, TimeAssumption DEF Init, TypeOK
  <1>4. Readings
    BY <1>2 DEF Init, Readings, Measured, Done
  <1> QED  BY <1>3, <1>4 DEF IInv

\* Every step keeps the readings around the answer.
LEMMA NextIInv == IInv /\ [Next]_vars => IInv'
  <1> SUFFICES ASSUME IInv, [Next]_vars PROVE IInv'
    OBVIOUS
  <1> USE DEF IInv, setup
  <1>0. /\ skew \in Int /\ now \in Nat /\ check \in Check
        /\ \A c \in Check : Resolution[c] \in Nat \ {0}
    BY TimeAssumption DEF TypeOK
  <1>t. \A m : Answered(m) => m.at \in Nat /\ m.stamp \in Int /\ m # NoAnswer
    BY <1>0, StampInEra DEF Answered, NoAnswer
  <1>1. CASE Tick
    <2>1. TypeOK'
      BY <1>1, <1>0 DEF Tick, TypeOK, Answered, Stamp
    <2>2. Readings'
      BY <1>1, <1>0, <1>t DEF Tick, Readings, TypeOK, Measured, Local, Done
    <2> QED  BY <2>1, <2>2
  <1>2. CASE StampSend
    <2>1. TypeOK'
      BY <1>2, <1>0 DEF StampSend, TypeOK, Answered, Stamp, Local, Done
    <2>2. Readings'
      BY <1>2, <1>0 DEF StampSend, Readings, TypeOK, Measured, Local, Done
    <2> QED  BY <2>1, <2>2
  <1>3. CASE SendTo
    <2>1. TypeOK'
      BY <1>3, <1>0 DEF SendTo, TypeOK, Answered, Stamp, Done
    <2>2. Readings'
      BY <1>3, <1>0 DEF SendTo, Readings, TypeOK, Measured, Local, Done
    <2> QED  BY <2>1, <2>2
  <1>4. CASE Receive
    <2>1. TypeOK'
      BY <1>4, <1>0 DEF Receive, TypeOK, Answered, Stamp, Done
    <2>2. Readings'
      BY <1>4, <1>0, <1>t DEF Receive, Readings, TypeOK, Measured, Local, Done
    <2> QED  BY <2>1, <2>2
  <1>5. CASE GiveUp
    <2>1. TypeOK'
      BY <1>5, <1>0 DEF GiveUp, TypeOK, Answered, Stamp, Done
    <2>2. Readings'
      BY <1>5, <1>0 DEF GiveUp, Readings, TypeOK, Measured, Local, Done
    <2> QED  BY <2>1, <2>2
  <1>6. CASE Conclude
    <2>1. /\ answer.at \in Nat /\ answer.stamp \in Int /\ answer.at <= now
          /\ sendTime \in Int /\ sendTime <= now + skew
      BY <1>6, <1>t DEF Conclude, Readings, TypeOK, Local
    <2>2. recvTime' = now + skew /\ offset2' = (sendTime + recvTime') - 2 * answer.stamp
      BY <1>6 DEF Conclude, Local
    <2>3. Verdict(check, offset2', answer.stratum) \in Done
      BY DEF Verdict, Done
    <2>4. pc' \in Done
      BY <1>6, <2>3 DEF Conclude
    <2>5. TypeOK'
      BY <1>6, <1>0, <2>1, <2>2, <2>4 DEF Conclude, TypeOK, Answered, Stamp
    <2>6. Readings'
      BY <1>6, <1>0, <2>1, <2>2, <2>4 DEF Conclude, Readings, Measured, Done, Verdict
    <2> QED  BY <2>5, <2>6
  <1>7. CASE Serve
    <2>1. PICK s \in Strata : net' = net \cup {Reply(now, s)}
      BY <1>7 DEF Serve
    <2>2. Answered(Reply(now, s)) /\ Reply(now, s).at <= now
      BY <1>0 DEF Answered, Reply
    <2>3. \A m \in net' : Answered(m) /\ m.at <= now
      BY <2>1, <2>2 DEF TypeOK, Readings
    <2>4. TypeOK'
      BY <1>7, <1>0, <2>3, TimeAssumption DEF Serve, TypeOK, Answered, Stamp
    <2>5. Readings'
      BY <1>7, <1>0, <2>3 DEF Serve, Readings, Measured, Local, Done
    <2> QED  BY <2>4, <2>5
  <1>8. CASE Lose
    <2>1. TypeOK'
      BY <1>8, <1>0 DEF Lose, TypeOK, Answered, Stamp
    <2>2. Readings'
      BY <1>8, <1>0 DEF Lose, Readings, Measured, Local, Done
    <2> QED  BY <2>1, <2>2
  <1>9. CASE Exited \/ UNCHANGED vars
    <2>1. UNCHANGED vars
      BY <1>9 DEF Exited
    <2>2. TypeOK'
      BY <2>1 DEF vars, TypeOK, Answered, Stamp
    <2>3. Readings'
      BY <2>1 DEF vars, Readings, Measured, Local
    <2> QED  BY <2>2, <2>3
  <1> QED
    BY <1>1, <1>2, <1>3, <1>4, <1>5, <1>6, <1>7, <1>8, <1>9 DEF Next, Client

-----------------------------------------------------------------------------
\* The invariant implies that a fresh offset is accurate.
LEMMA ReadingsBoundError == IInv => OffsetIsAccurate
  <1> SUFFICES ASSUME IInv, Measured, Fresh, InEra
               PROVE  Abs(offset2 - 2 * skew) <= Error2
    BY DEF OffsetIsAccurate
  <1> DEFINE r == Resolution[check]
  <1>1. /\ skew \in Int /\ sendTime \in Int /\ recvTime \in Int
        /\ check \in Check /\ r \in Nat \ {0}
    BY TimeAssumption DEF IInv, TypeOK
  <1>2. answer.at \in Nat /\ answer.stamp = Stamp(check, answer.at)
    BY DEF IInv, TypeOK, Answered, Measured
  <1>3. /\ answer.stamp \in Int /\ answer.stamp <= answer.at
        /\ answer.at - (r - 1) <= answer.stamp
    BY <1>1, <1>2, StampInEra DEF InEra
  <1>4. /\ sendTime <= answer.at + skew /\ answer.at + skew <= recvTime
        /\ offset2 = (sendTime + recvTime) - 2 * answer.stamp
    BY DEF IInv, Readings, Fresh
  <1>5. /\ offset2 - 2 * skew <= (recvTime - sendTime) + 2 * (r - 1)
        /\ -(offset2 - 2 * skew) <= (recvTime - sendTime) + 2 * (r - 1)
    <2> HIDE DEF r
    <2> DEFINE at == answer.at
    <2> DEFINE stamp == answer.stamp
    <2>1. /\ at \in Nat /\ stamp \in Int /\ stamp <= at /\ at - (r - 1) <= stamp
          /\ sendTime <= at + skew /\ at + skew <= recvTime
          /\ offset2 = (sendTime + recvTime) - 2 * stamp
      BY <1>2, <1>3, <1>4
    <2> HIDE DEF at, stamp
    <2> QED  BY <1>1, <2>1
  <1> QED  BY <1>5 DEF Abs, Error2

\* An accurate offset makes the verdict one about the clock.
LEMMA AccurateVerdict ==
  IInv /\ OffsetIsAccurate => VerdictFollowsClock /\ BeyondCriticalIsCritical
  <1> SUFFICES ASSUME IInv, OffsetIsAccurate, Measured, Fresh, InEra, check \notin ByStratum
               PROVE  /\ \A limit \in {Warning[check], Critical[check]} :
                           limit > 0 /\ 2 * Abs(skew) > 2 * limit + Error2 => pc # "OK"
                      /\ (\A limit \in {Warning[check], Critical[check]} :
                           limit > 0 => 2 * Abs(skew) + Error2 <= 2 * limit) => pc = "OK"
                      /\ Critical[check] > 0 /\ 2 * Abs(skew) > 2 * Critical[check] + Error2
                           => pc = "CRITICAL"
    BY DEF VerdictFollowsClock, BeyondCriticalIsCritical
  <1> DEFINE w == Warning[check]
  <1> DEFINE k == Critical[check]
  <1> DEFINE e == Error2
  <1>1. /\ skew \in Int /\ offset2 \in Int /\ w \in Int /\ k \in Int /\ e \in Int
    BY TimeAssumption DEF IInv, TypeOK, Error2
  <1>2. Abs(offset2 - 2 * skew) <= e
    BY DEF OffsetIsAccurate
  <1>3. /\ Abs(offset2) \in Int /\ Abs(skew) \in Int
        /\ Abs(offset2) <= 2 * Abs(skew) + e
        /\ 2 * Abs(skew) <= Abs(offset2) + e
    <2> HIDE DEF e
    <2> QED  BY <1>1, <1>2 DEF Abs
  <1>4. pc = IF k > 0 /\ Abs(offset2) > 2 * k THEN "CRITICAL"
             ELSE IF w > 0 /\ Abs(offset2) > 2 * w THEN "WARNING" ELSE "OK"
    BY DEF IInv, Readings, Verdict
  <1> DEFINE a == Abs(offset2)
  <1> DEFINE b == Abs(skew)
  <1> HIDE DEF w, k, e, a, b
  <1>5. /\ a \in Int /\ b \in Int /\ a <= 2 * b + e /\ 2 * b <= a + e
        /\ pc = IF k > 0 /\ a > 2 * k THEN "CRITICAL"
                ELSE IF w > 0 /\ a > 2 * w THEN "WARNING" ELSE "OK"
    BY <1>3, <1>4 DEF a, b
  <1>6. /\ w > 0 /\ 2 * b > 2 * w + e => pc # "OK"
        /\ k > 0 /\ 2 * b > 2 * k + e => pc = "CRITICAL"
        /\ (w > 0 => 2 * b + e <= 2 * w) /\ (k > 0 => 2 * b + e <= 2 * k) => pc = "OK"
    BY <1>1, <1>5
  <1> QED  BY <1>6 DEF w, k, e, b

-----------------------------------------------------------------------------
\* The readings of the local clock enclose the server's, in every state.
THEOREM ReadingsHold == Spec => []IInv
  BY InitIInv, NextIInv, PTL DEF Spec

\* queryNtpOffset() and queryTimeProtocolOffset() are accurate to half the
\* round trip plus the rounding, for every skew, delay and resolution.
THEOREM OffsetAccurate == Spec => []OffsetIsAccurate
  BY ReadingsHold, ReadingsBoundError, PTL

\* check_ntp, check_ntp_time and check_time report the clock, not the delays.
THEOREM VerdictAccurate == Spec => []VerdictFollowsClock
  BY ReadingsHold, ReadingsBoundError, AccurateVerdict, PTL

\* Beyond the critical threshold the verdict is CRITICAL, whatever -w is.
THEOREM CriticalReported == Spec => []BeyondCriticalIsCritical
  BY ReadingsHold, ReadingsBoundError, AccurateVerdict, PTL
=============================================================================
