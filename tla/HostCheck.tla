------------------------------ MODULE HostCheck ------------------------------
(***************************************************************************)
(* A plugin process whose check() takes one reading (check_disk one of     *)
(* every path) and compares it with what the command line asks for: the    *)
(* checks of the host it runs on, and those of a name, of a certificate    *)
(* and of the port mapper of another.                                      *)
(***************************************************************************)
EXTENDS CommandLine

CONSTANT
  Readings   \* [plugin -> set of readings]

\* check_disk has a check() to run.
ASSUME DiskAssumption == "disk" \in DOMAIN Parsers => Parsers["disk"].stub = "none"

VARIABLES
  taken,     \* the readings so far, in order
  overall    \* overallCode of check_disk

vars == <<parserVars, taken, overall>>

ExitCode == {"OK", "WARNING", "CRITICAL", "UNKNOWN"}

-----------------------------------------------------------------------------
(* The thresholds of each check: the level, the bound, the comparison and  *)
(* the figure it is about; a bound below "from" is none.                   *)

Limit(level, at, from, hit, of) ==
  [level |-> level, at |-> at, from |-> from, hit |-> hit, of |-> of]

Value(s, name, default) == IF name \in DOMAIN s THEN s[name] ELSE default

Breached(l, r) ==
  /\ l.at >= l.from
  /\ CASE l.hit = "reach"  -> r[l.of] >= l.at
       [] l.hit = "exceed" -> r[l.of] > l.at
       [] l.hit = "within" -> r[l.of] \in 0..l.at
       [] l.hit = "below"  -> r[l.of] < l.at
       \* percent of the total; of nothing it is no number, and below no bound
       [] l.hit = "share"  -> 100 * r[l.of] < l.at * r.total
       \* without a limit, nothing is committed
       [] l.hit = "beyond" -> r.limit > 0 /\ 100 * r[l.of] > l.at * r.limit

LoadLimits(s) ==
  {Limit("CRITICAL", Value(s, l[1], -1), 1, "reach", l[2]) :
     l \in {<<"critical1", "1">>, <<"critical5", "5">>, <<"critical15", "15">>}} \cup
  {Limit("WARNING", Value(s, l[1], -1), 1, "reach", l[2]) :
     l \in {<<"warning1", "1">>, <<"warning5", "5">>, <<"warning15", "15">>}}

UsersLimits(s) ==
  {Limit("CRITICAL", Value(s, "-c", -1), 1, "reach", "users"),
   Limit("WARNING", Value(s, "-w", -1), 1, "reach", "users")}

\* mutant: the test that the threshold is set is missing
UptimeLimitsUnset(s) ==
  {Limit("CRITICAL", Value(s, "-c", 2), 1, "below", "days"),
   Limit("WARNING", Value(s, "-w", -1), 1, "below", "days")}

UptimeLimits(s) ==
  {Limit("CRITICAL", Value(s, "-c", -1), 1, "below", "days"),
   Limit("WARNING", Value(s, "-w", -1), 1, "below", "days")}

\* mutant: the maximum only counts when there is a minimum
ProcsLimitsTogether(s) ==
  {Limit("CRITICAL", Value(s, "criticalMin", -1), 1, "below", "procs"),
   Limit("CRITICAL", IF Value(s, "criticalMin", -1) > 0 THEN Value(s, "criticalMax", -1) ELSE -1,
         1, "exceed", "procs"),
   Limit("WARNING", Value(s, "warningMin", -1), 1, "below", "procs"),
   Limit("WARNING", Value(s, "warningMax", -1), 1, "exceed", "procs")}

ProcsLimits(s) ==
  {Limit("CRITICAL", Value(s, "criticalMin", -1), 1, "below", "procs"),
   Limit("CRITICAL", Value(s, "criticalMax", -1), 1, "exceed", "procs"),
   Limit("WARNING", Value(s, "warningMin", -1), 1, "below", "procs"),
   Limit("WARNING", Value(s, "warningMax", -1), 1, "exceed", "procs")}

OvercrLimits(s) ==
  {Limit("CRITICAL", Value(s, "-c", -1), 1, "beyond", "committed"),
   Limit("WARNING", Value(s, "-w", -1), 1, "beyond", "committed")}

NwstatLimits(s) ==
  {Limit("CRITICAL", Value(s, "criticalRx", -1), 1, "exceed", "Rx"),
   Limit("CRITICAL", Value(s, "criticalTx", -1), 1, "exceed", "Tx"),
   Limit("WARNING", Value(s, "warningRx", -1), 1, "exceed", "Rx"),
   Limit("WARNING", Value(s, "warningTx", -1), 1, "exceed", "Tx")}

SensorsLimits(s) ==
  {Limit("CRITICAL", Value(s, "-c", 85), Value(s, "-c", 85), "reach", "max"),
   Limit("WARNING", Value(s, "-w", 70), Value(s, "-w", 70), "reach", "max")}

SwapLimits(s) ==
  {Limit("CRITICAL", Value(s, "criticalFree", -1), 1, "below", "free"),
   Limit("CRITICAL", Value(s, "criticalPercent", -1), 1, "share", "free"),
   Limit("WARNING", Value(s, "warningFree", -1), 1, "below", "free"),
   Limit("WARNING", Value(s, "warningPercent", -1), 1, "share", "free")}

\* The share counts what is reserved for root, the amount does not; and the
\* default shares stay when only amounts are given.
DiskLimits(s) ==
  {Limit("CRITICAL", Value(s, "criticalFree", -1), 1, "below", "available"),
   Limit("CRITICAL", Value(s, "criticalPercent", 5), 1, "share", "free"),
   Limit("WARNING", Value(s, "warningFree", -1), 1, "below", "available"),
   Limit("WARNING", Value(s, "warningPercent", 10), 1, "share", "free")}

SslLimits(s) ==
  {Limit("CRITICAL", Value(s, "-c", 7), 0, "within", "days"),
   Limit("WARNING", Value(s, "-w", 30), 0, "within", "days")}

Limits(p, s) ==
  CASE p = "load"   -> LoadLimits(s)   [] p = "users"   -> UsersLimits(s)
    [] p = "uptime" -> UptimeLimits(s) [] p = "procs"   -> ProcsLimits(s)
    [] p = "overcr" -> OvercrLimits(s) [] p = "nwstat"  -> NwstatLimits(s)
    [] p = "swap"   -> SwapLimits(s)   [] p = "sensors" -> SensorsLimits(s)
    [] p = "disk"   -> DiskLimits(s)

\* The if-else chain of each check: all critical thresholds, then the others.
Verdict(limits, r) ==
  IF \E l \in limits : l.level = "CRITICAL" /\ Breached(l, r) THEN "CRITICAL"
  ELSE IF \E l \in limits : l.level = "WARNING" /\ Breached(l, r) THEN "WARNING"
  ELSE "OK"

-----------------------------------------------------------------------------
(* The readings. *)

\* check_sensors: a temperature below zero is taken for an unreadable file, one
\* above 1000 for millidegrees.
Celsius(raw) == IF raw > 1000 THEN raw \div 1000 ELSE raw
Readable(raws) == {Celsius(x) : x \in {y \in raws : y >= 0}}

\* check_ssl_validity: the handshake ends when the certificate is not accepted,
\* because SSL_VERIFY_PEER comes without a callback; the fallback that is
\* compiled without OpenSSL only connects.
Handshake(r) == r.answers /\ (r.openssl => r.trusted /\ r.left > 0)

\* The hours that are left as days, rounded towards zero; mktime() takes the
\* time of the certificate, which is UTC, for local time.
Days(hours) == IF hours >= 0 THEN hours \div 24 ELSE -((-hours) \div 24)
DaysLeft(r) == IF r.openssl THEN Days(r.left - r.zone) ELSE -1

\* check_dig only looks up addresses; here an address is the set of the expected
\* texts that it contains.
Records(r, type) == IF type \in {"A", "AAAA"} THEN r[type] ELSE {}

\* check_dns, check_dig: nothing found is critical, something else than what
\* was expected a warning.
Found(answers, expected) ==
  IF answers = {} THEN "CRITICAL" ELSE IF expected THEN "OK" ELSE "WARNING"

\* The checks that do nothing before they are given a host.
Remote == {"dns", "dig", "rpc", "ssl_validity"}

JudgedRemote(p, s, r) ==
  CASE p = "dns" -> Found(r.addresses, "-a" \notin DOMAIN s \/ s["-a"] \in r.addresses)
    [] p = "dig" ->
         LET found == Records(r, Value(s, "-t", "A"))
         IN  Found(found, "-e" \notin DOMAIN s \/ \E a \in found : s["-e"] \in a)
    [] p = "rpc" -> IF r.answers THEN "OK" ELSE "CRITICAL"
    [] p = "ssl_validity" ->
         IF Handshake(r) THEN Verdict(SslLimits(s), [days |-> DaysLeft(r)]) ELSE "CRITICAL"

\* check_mrtg: the log opens.
JudgedFile(s, r) ==
  IF "-f" \notin DOMAIN s THEN "UNKNOWN" ELSE IF r.opens THEN "OK" ELSE "CRITICAL"

\* A check() that compares one reading.
Judged(p, s, r) ==
  CASE p \in Remote -> IF "-H" \in DOMAIN s THEN JudgedRemote(p, s, r) ELSE "UNKNOWN"
    [] p = "mrtg" -> JudgedFile(s, r)
    [] p = "swap" /\ r.total = 0 -> "OK"
    [] p = "sensors" ->
         IF Readable(r.raw) = {} THEN "UNKNOWN"
         ELSE Verdict(SensorsLimits(s),
                      [max |-> CHOOSE t \in Readable(r.raw) : \A u \in Readable(r.raw) : t >= u])
    [] OTHER -> Verdict(Limits(p, s), r)

-----------------------------------------------------------------------------
Init ==
  /\ ParserInit
  /\ taken = <<>>
  /\ overall = "OK"

Parse == ParserNext /\ UNCHANGED <<taken, overall>>

Check ==
  /\ pc = "check"
  /\ plugin \in DOMAIN Readings \ {"disk"}
  /\ \E r \in Readings[plugin] :
       /\ taken' = <<r>>
       /\ pc' = Judged(plugin, settings, r)
  /\ UNCHANGED <<plugin, line, i, settings, overall>>

\* check_disk without a path checks the root file system.
Paths == IF "paths" \in DOMAIN settings THEN settings["paths"] ELSE <<"/">>

\* mutant: the last path decides
AggregateLast(sofar, code) == code

\* A critical path makes the whole critical, a warning or an unreadable one
\* only what was OK until then.
Aggregate(sofar, code) ==
  IF code = "CRITICAL" \/ sofar = "OK" THEN code ELSE sofar

\* The next path: statvfs(), which may fail, and the thresholds.
CheckDisk ==
  /\ pc = "check" /\ plugin = "disk"
  /\ Len(taken) < Len(Paths)
  /\ \E r \in Readings[plugin] :
       /\ taken' = Append(taken, r)
       /\ overall' = Aggregate(overall, IF r.readable THEN Verdict(DiskLimits(settings), r)
                                        ELSE "UNKNOWN")
  /\ UNCHANGED parserVars

DiskDone ==
  /\ pc = "check" /\ plugin = "disk"
  /\ Len(taken) = Len(Paths)
  /\ pc' = overall
  /\ UNCHANGED <<plugin, line, i, settings, taken, overall>>

\* The checks of the other modules go on from here.
Ended ==
  /\ pc \notin {"parse", "check"} \/ (pc = "check" /\ plugin \notin DOMAIN Readings)
  /\ UNCHANGED vars

Next == Parse \/ Check \/ CheckDisk \/ DiskDone \/ Ended

Spec == Init /\ [][Next]_vars

-----------------------------------------------------------------------------
\* What a path that was read says by itself.
PathVerdict(r) == IF r.readable THEN Verdict(DiskLimits(settings), r) ELSE "UNKNOWN"

\* check_disk is never better than its worst path, in whatever order they are
\* listed: one critical path makes it CRITICAL, and it is OK only if each is.
DiskCovers ==
  plugin = "disk" /\ pc \in ExitCode =>
    /\ (\E k \in DOMAIN taken : PathVerdict(taken[k]) = "CRITICAL") <=> pc = "CRITICAL"
    /\ (\A k \in DOMAIN taken : PathVerdict(taken[k]) = "OK") <=> pc = "OK"
=============================================================================
