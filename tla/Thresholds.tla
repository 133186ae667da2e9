------------------------------ MODULE Thresholds ------------------------------
(***************************************************************************)
(* What the thresholds of a command line are to do, as the usage texts     *)
(* explain them, and what else is a reason for an alarm: the words of the  *)
(* line on one side, the status of check() on the other.                   *)
(***************************************************************************)
EXTENDS LineMeaning

\* The checks that compare a reading with thresholds, and the others of HostCheck.
Measuring == {"load", "users", "uptime", "procs", "overcr", "nwstat", "swap", "disk",
              "sensors", "ssl_validity"}
HostChecks == Measuring \cup Remote \cup {"mrtg"}

\* The options whose words decide: -w and -c with the settings of the thresholds,
\* and what check_dns and check_dig are told to expect.
KindOf(p) ==
  CASE p = "load"   -> "list"
    [] p = "procs"  -> "range"
    [] p = "nwstat" -> "pair"
    [] p \in {"swap", "disk"} -> "share"
    [] OTHER -> "number"

SettingsOf(p, o) ==
  CASE p = "load" /\ o = "-c" -> <<"critical1", "critical5", "critical15">>
    [] p = "load" /\ o = "-w" -> <<"warning1", "warning5", "warning15">>
    [] p = "procs" /\ o = "-c" -> <<"criticalMin", "criticalMax">>
    [] p = "procs" /\ o = "-w" -> <<"warningMin", "warningMax">>
    [] p = "nwstat" /\ o = "-c" -> <<"criticalRx", "criticalTx">>
    [] p = "nwstat" /\ o = "-w" -> <<"warningRx", "warningTx">>
    [] p \in {"swap", "disk"} /\ o = "-c" -> <<"criticalPercent", "criticalFree">>
    [] p \in {"swap", "disk"} /\ o = "-w" -> <<"warningPercent", "warningFree">>
    [] OTHER -> <<o>>

Plain(o, kind, to) == [opt |-> o, kind |-> kind, to |-> to, also |-> <<>>, ports |-> <<>>]
Threshold(p, o) == Plain(o, KindOf(p), SettingsOf(p, o))

Deciding(p) ==
  CASE p \in Measuring -> {Threshold(p, "-c"), Threshold(p, "-w")}
    [] p = "dns" -> {Plain("-a", "text", <<"-a">>)}
    [] p = "dig" -> {Plain("-e", "text", <<"-e">>)}
    [] OTHER -> {}

Targets(o) == {o.to[k] : k \in DOMAIN o.to}

\* The word has a part for each number that is read from it.
WellFormed(o, w) ==
  /\ w.parts \in Seq(Seq(Int)) /\ w.parts # <<>>
  /\ (o.kind = "range" /\ w.sep = "colon") \/ (o.kind = "pair" /\ w.sep = "comma") => Len(w.parts) > 1

\* No other option, and no word by itself, goes to the settings of these.
ASSUME DecidingAssumption ==
  \A p \in HostChecks \cap DOMAIN Parsers :
    /\ Parsers[p].stub = "none" /\ Parsers[p].loose \in {"ignored", "paths"}
    /\ \A o \in Parsers[p].opts : o.ports = <<>>
    /\ Deciding(p) \subseteq Parsers[p].opts
    /\ \A l \in Lines[p] : \A k \in 1..Len(l.groups) : \A o \in Deciding(p) :
         LET g == l.groups[k] IN
         IF g[1].text = o.opt THEN Len(g) = 2 => WellFormed(o, g[2])
         ELSE ~Garbled(p, g) => About(p, g) \cap Targets(o) = {}

\* Time zones are less than a day away from UTC.
ASSUME ZoneAssumption ==
  "ssl_validity" \in DOMAIN Readings =>
    \A r \in Readings["ssl_validity"] : r.left \in Int /\ r.zone \in -23..23

-----------------------------------------------------------------------------
Highest(raws) == CHOOSE t \in raws : \A u \in raws : t >= u

\* The reading is beyond the limit that a word states.  The days of a certificate
\* are counted by the local time of the host, as DaysLeft explains.
Beyond(p, w, r) ==
  LET n(k) == w.parts[k][1] IN
  CASE p = "load" ->
         IF w.sep = "comma"
         THEN \E k \in DOMAIN w.parts \cap 1..3 : r[<<"1", "5", "15">>[k]] >= n(k)
         ELSE r["1"] >= n(1)
    [] p = "users" -> r.users >= n(1)
    [] p = "uptime" -> r.days < n(1)
    [] p = "procs" -> IF w.sep = "colon" THEN r.procs < n(1) \/ r.procs > n(2) ELSE r.procs > n(1)
    [] p = "overcr" -> 100 * r.committed > n(1) * r.limit /\ r.limit > 0
    [] p = "nwstat" -> w.sep = "comma" /\ (r.Rx > n(1) \/ r.Tx > n(2))
    [] p = "swap" -> r.total # 0 /\ (IF w.sep = "percent" THEN 100 * r.free < n(1) * r.total
                                     ELSE r.free < n(1))
    [] p = "sensors" -> Readable(r.raw) # {} /\ Highest(Readable(r.raw)) >= n(1)
    [] p = "ssl_validity" -> Handshake(r) /\ r.openssl /\ DaysLeft(r) <= n(1)
    [] p = "disk" -> r.readable /\ (IF w.sep = "percent" THEN 100 * r.free < n(1) * r.total
                                    ELSE r.available < n(1))
    [] OTHER -> FALSE

\* The groups that give a word to an option, these words, and the last of them.
GivenAt(o) == {k \in 1..Len(line.groups) : Group(k)[1].text = o /\ Len(Group(k)) = 2}
Given(o) == {Group(k)[2] : k \in GivenAt(o)}
LastGiven(o) == {Group(k)[2] : k \in {k \in GivenAt(o) : \A m \in GivenAt(o) : m <= k}}

\* A threshold that is set: zero and less mean none.
Positive(w) == \A k \in DOMAIN w.parts : w.parts[k] # <<>> => w.parts[k][1] > 0

\* The words that count without an option.
NumberOf(text, n) == Word(text, FALSE, "", <<<<n>>>>)
Percent(n) == Word("default", FALSE, "percent", <<<<n>>>>)
Default(p, o) ==
  CASE p = "disk"    -> {Percent(IF o = "-c" THEN 5 ELSE 10)}
    [] p = "sensors" -> {NumberOf("default", IF o = "-c" THEN 85 ELSE 70)}
    [] p = "ssl_validity" -> {NumberOf("default", IF o = "-c" THEN 7 ELSE 30)}
    [] OTHER -> {}

\* What the check is to find is not there at all.
Missing(r) ==
  CASE plugin = "dns" -> r.addresses = {}
    [] plugin = "dig" -> Records(r, Value(settings, "-t", "A")) = {}
    [] plugin \in {"rpc", "ssl_validity"} -> ~r.answers
    [] plugin = "mrtg" -> ~r.opens
    [] OTHER -> FALSE

\* It is there, but not what the line expects; or the handshake fails, as it does
\* for a certificate whose issuer is not trusted.
Unexpected(r) ==
  CASE plugin = "dns" -> \E w \in LastGiven("-a") : w.text \notin r.addresses
    [] plugin = "dig" -> \E w \in LastGiven("-e") :
         \A a \in Records(r, Value(settings, "-t", "A")) : w.text \notin a
    [] plugin = "ssl_validity" -> r.openssl /\ (~r.trusted \/ r.left <= 0)
    [] OTHER -> FALSE

Judging ==
  /\ pc \in ExitCode /\ plugin \in HostChecks
  /\ plugin \in Remote => "-H" \in DOMAIN settings
  /\ plugin = "mrtg" => "-f" \in DOMAIN settings

\* A reading beyond the critical threshold of the command line is CRITICAL,
\* whatever else the line says and, for check_disk, whichever path it is of; so
\* is a name without records and a host that cannot be reached.
CriticalHonoured ==
  Judging =>
    /\ \A w \in LastGiven("-c") :
         Positive(w) /\ (\E k \in DOMAIN taken : Beyond(plugin, w, taken[k])) => pc = "CRITICAL"
    /\ \A k \in DOMAIN taken : Missing(taken[k]) => pc = "CRITICAL"

\* WARNING and CRITICAL have a reason: a threshold of the line, or a default,
\* that a reading is beyond, or something that is not there or not as expected.
AlarmHasReason ==
  Judging /\ pc \in {"WARNING", "CRITICAL"} =>
    \E k \in DOMAIN taken :
      \/ Missing(taken[k]) \/ Unexpected(taken[k])
      \/ \E o \in {"-w", "-c"} : \E w \in Given(o) \cup Default(plugin, o) :
           Beyond(plugin, w, taken[k])
=============================================================================
