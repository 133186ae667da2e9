# A verification development for netmon-plugins

TLA+ modules of the parts of netmon-plugins that are hard to test, TLC
configurations that check them, and TLAPS proofs of the results that hold for
every value of the constants. Paths are those of the repository; the plugin
`X` is `plugins/X/check_X.cpp`.

## 1. The system

netmon-plugins is a set of about 80 monitoring plugins in C++. Each is a
process of its own: `main()` parses the command line (`parseArguments()`),
`executePlugin()` (`src/common/plugin.cpp`) calls `check()`, and the exit code
(0 OK, 1 WARNING, 2 CRITICAL, 3 UNKNOWN) is what the monitoring system reads.
A plugin has no threads and keeps no state between runs. What is hard is
outside of it: a TCP stream that has no message bounds, servers and networks
that fail at any moment, datagrams that come late or belong to somebody else,
clocks, other processes, signals, and command lines.

| component | state it keeps | interacts with | what is hard | what makes it correct |
|---|---|---|---|---|
| framework (`plugin.cpp`) | none | every plugin | exceptions outside `check()` | every run ends with one of four statuses |
| line sessions: `ftp pop imap nntp ircd jabber telnet smtp ssh tcp http` | the socket, the stage of the dialogue, the last response | a server over TCP | one `recv()` is taken for one reply; replies split, joined, late; reset and SIGPIPE; who speaks first | no false OK, no false alarm, in step with the server, an end |
| receive loops: `redis memcached zookeeper docker` | the socket, the response so far | a server over TCP or a local socket | what ends the loop; a loop that ignores why `recv()` ended; missing timeout | the whole reply is judged; no false OK; an end |
| HTTP API client (`http_api.cpp`) and the API plugins | the response so far | an HTTP server | a body that is cut looks whole | as above |
| clock queries (`ntp_client.cpp`) and `ntp ntp_peer ntp_time time` | two readings of the local clock | a server over UDP | delays between the readings; stale and doubled datagrams; era wrap | the offset and its error bound; the verdict follows the clock |
| `ping`, `fping` | counters of the loop | hosts, routers, other pings of the machine | raw sockets see everything; late replies | loss and round trips are those of this ping |
| `negate`, `dummy` | the parsed command | the plugin it runs, signals | nested processes and command lines | the inverted status of the command |
| exporter script (`deployment/prometheus/netmon-exporter.sh`) | a temporary file, the metrics file | cron, plugins, scrapes | overlapping, failing and killed runs | a scrape finds each result once |
| files, logs and processes (`file_age file_count file_size log procs`) | counters, an open file, open directories | the file system, `/proc` | files that come, grow, are truncated and go between two system calls; the glob | the count holds what was there all the time, and nothing that never was |
| `disk` | per-run accumulators | the file system | `statvfs()` that fails for one of several paths; aggregation order | the worst of the single verdicts |
| host resources (`load swap uptime users sensors overcr nwstat`) | none | the kernel | thresholds at their edges, one of several thresholds missing | a bound that is passed is reported, and no alarm is without one |
| one datagram (`udp sip dhcp`) | a socket | servers over UDP | lost, late and doubled datagrams, those of others | OK only for the answer of the service |
| names, port mapper, certificates (`dns dig rpc ssl_validity`) | none | a resolver, a server over TCP or TLS | the day of expiry; what is compared with what | as for host resources |
| command lines (`parseArguments()` of every plugin) | the settings | the user; `main()` before `executePlugin()` | values that look like options, missing words, numbers that are none | the settings are what the words say, or the process does not run |
| databases and stubs (`mysql mysql_query pgsql dbi apt by_ssh cluster game hpjd ide_smart ldap mrtg mrtgtraf nt radius real snmp ups`) | none | - | their `check()` returns a fixed status (`mrtg` opens a file first) | - |
| JSON helpers (`json_utils.cpp`) | none | the API plugins | first textual match wins | the value of the key that is meant |

The main hazards are listed line by line in `PROJECT.json`.

## 2. Modules

| module | models | composed with |
|---|---|---|
| `CheckVerdict` | the abstract check: one verdict, OK only for evidence that exists | refined by `TaggedSession`, `KeyedLoop` and `IcmpPing` |
| `LineSession` | the engine of the line sessions: connect, `sendCommand()`, `readResponse()`, a byte stream, a server, failures | `LineProtocols`, in `MCLineSession` |
| `LineProtocols` | the dialogue of each line-session plugin, and what a conforming server may say, as tables | |
| `TaggedSession` | the line sessions whose verdict rests on one key | extends `LineSession` |
| `StepwiseSession` | the dialogues that stay in step, or get one message at a time; the inductive invariant | extends `TaggedSession`; extended by `MCLineSession` |
| `ReplyLoop` | the engine of the receive loops, with the TLS handshake and records | `ReplyProtocols`, in `MCReplyLoop` |
| `KeyedLoop` | the receive loops whose OK rests on a key | extends `ReplyLoop` |
| `WholeLoop` | the receive loops on a network that fails nothing: whole replies; the inductive invariant | extends `KeyedLoop`; extended by `MCReplyLoop` |
| `ReplyProtocols` | the exchanges of redis, memcached, zookeeper, docker, `checkHttps` and the API plugins, as tables | extends `BasicAuth`; extended by `MCReplyLoop` |
| `BasicAuth` | `base64Encode()` over bytes, and what a server decodes | `ReplyProtocols` |
| `IcmpPing` | `pingHost()` and `check()` of `ping` and `fping`, several processes on one machine | |
| `NtpClient` | both clock queries, the four checks on them, network and time | |
| `DatagramCheck` | `udp`, `sip`, `dhcp`: one datagram out, one back | |
| `CommandLine` | the loop of `parseArguments()` and the exceptions of `std::stoi` | |
| `OptionTables` | the options of every plugin, as tables | `CommandLine`, in `MCHostCheck` |
| `HostCheck` | the checks of one reading: settings, thresholds, verdict; `disk` path by path | extends `CommandLine` |
| `LineMeaning` | what a command line means, said of its groups; the inductive invariant of the loop | extends `HostCheck`; extended by `Thresholds` |
| `Thresholds` | what the thresholds and expectations of a line are to do, and what else is a reason for an alarm | extends `LineMeaning`; extended by `MCHostCheck` |
| `FileChecks` | `file_age`, `file_size`, `log`, `file_count`, `procs`, one system call a step | |
| `FileMeaning` | what must and what may be counted, whatever changes meanwhile; what command lines and file systems are | extends `FileChecks`; extended by `MCFileChecks` |
| `JsonUtils` | the searches of `json_utils.cpp` over a text of atoms | |
| `Negate` | the life of a plugin process; `negate`, `dummy`, the parser of `disk`, nesting, signals | |
| `MetricsExporter` | the exporter script, command by command | |
| `MC*` | constants, reference definitions and properties for TLC | the module they name |
| `*_proofs` (`LineSession ReplyLoop NtpClient DatagramCheck HostCheck IcmpPing FileChecks Processes`) | the theorems | the module they name (`StepwiseSession` for `LineSession_proofs`, `WholeLoop` for `ReplyLoop_proofs`, `Thresholds` for `HostCheck_proofs`, `FileMeaning` for `FileChecks_proofs`); `Processes_proofs` extends `MetricsExporter` and `Negate`, whose names differ so that it can |

### Line sessions

`pc` is where `checkX()` stands: `"dial"`, a stage of its table, or how the
process ended. A stage is a `sendCommand()` (`Say` when its failure ends the
check, `Try` when it is ignored) or a `readResponse()` with the tests on the
response. `inbox` is what the server wrote and the client has not read, as
atoms: a token that some test looks for, a leading digit, other text, the end
of a message. `Recv` returns any prefix of it, and may cut a token of several
bytes in two; that is the whole difference between TCP and messages.
`Timeout` is `select()` returning 0, `Hangup` a `recv()` that returns 0 or -1.
`link` is the connection as the client's kernel finds it: a `send()` to a
closed peer succeeds and provokes a reset (`poked`), a `send()` on a reset
connection fails once and then raises SIGPIPE (`dead`), because the code
neither ignores the signal nor uses MSG_NOSIGNAL. `granted` remembers that the
server wrote the message that OK stands for. `fault` remembers that something
went wrong in the network or the server; a split inside a message counts, two
messages in one segment do not.

The plugins have copies of the same functions, so the rows of the map for
`Dial`, `Send`, `Recv`, `Timeout` and `Hangup` name copies in different
plugins.

### Receive loops

An exchange has a command, what ends the loop (`anywhere` in the response, or
at the end of it), the tests and where they lead. `response` is what the loop
has collected; `half` says that it ends inside a token. `due` is the reply the
server wrote. `Go` takes the next exchange, over the same connection (redis)
or one of its own (docker). The checks of `Secure` make a TLS handshake after
they have connected, for which client and server need each other; TLS hands over
whole records, and a server may put the headers in one of their own. `checkHttps`
ends its loop with the first record. The pages of
an HTTP API are a status code, the empty line, the first byte of the body (`{`)
and what the tests look for; the tests that a check makes one after the other
are the list `tests`, of which the first that holds decides. Commands of a
plugin that are judged alike share a table entry; a command name that the plugin
does not know is judged like a listing, or in `etcd`, `kubernetes`, `influxdb`
and `ceph` by an entry of its own (`AnyStatus`). A server asks for credentials
and takes those that `BasicAuth` delivers as they were given.

### Clock queries

Time is in ticks of the server's clock, the local clock is ahead by `skew`,
and may be read at any later tick (a delay of the process). Offsets are
doubled so that the midpoint stays an integer. `Stamp` drops the era and what
the resolution of the protocol drops. `Stale` are answers of the server to
queries an earlier process made from the same port.

### Ping

`counted[p]` lists the datagrams a process took for replies, each with the
packet it was waiting for; the program only counts them. `Deliver` gives a
message to every open raw socket, as the kernel does. `late` and `lossy` name
the processes to which something happened that explains a bad verdict. The
average round trip is abstracted to how it compares with the thresholds. Not
modelled: other ICMP traffic than that of pings, and messages that the network
doubles.

### Datagrams

`bound` is the local port, which the first `sendto()` gives the socket: before
it nothing can arrive. The network loses, delays and doubles the query and the
answer; `Stray` is a datagram of another sender, or one to an earlier query,
which the socket takes because it is not connected (`alien`). `recvfrom()` is
called once. `granted` says that the service has given the answer, `fault` that
something was lost or late.

### Command lines and host checks

`CommandLine` goes over the words as the loop of every `parseArguments()` does:
an option takes the next word whatever it is, an option without one is skipped,
other words are ignored or go to a list. A number is read as `std::stoi` and the
like read it, from the beginning of the word. A word without one
(`std::invalid_argument`), or with one that its type cannot hold
(`std::out_of_range`), ends the process by SIGABRT, because `main()` parses
before it calls `executePlugin()`; to the model the two are one.
`settings` then holds what was set; `HostCheck` turns the settings into limits
(level, bound, comparison, figure), takes one reading and judges it. The
certificate check counts its days from a UTC date that `mktime()` reads as local time. `CheckDisk`
takes one path after the other, `overall` is the status so far, and `Aggregate`
joins the next one. `check()` of a stub ends with its status. `LineMeaning` says
what a line means without the loop: its `groups` are an option with its word, a
flag, or a word by itself, and the last group about a setting decides it.
`Thresholds` says when a reading is beyond a word (`Beyond`), without settings,
limits or the order of comparisons.

### Files and processes

`at` says which inode a path names, `node` what an inode holds, so a file that
is replaced is not the one that is open. Every `access()`, `stat()`, `open()`,
`getline()`, `readdir()` is a step; between them files are created, written,
truncated, rotated and removed. `stack` holds the directories of the recursive
walk. `before`, `ever` and `rewritten` are history. `FileMeaning`
bounds a count from both sides, by `Least` and `Most`: what was there all the
time must be counted, and what was never there must not. Its glob is the usual
one, and `Inside`, what a directory holds at any depth, is the least set closed
under entries. The bounds make sense of a path that was there throughout, could
be read and has only grown (`Sound`).

### JSON

A text is a sequence of atoms (quotes, braces, commas, colons, words). The
helpers search it as the regular expressions do; the reference in `MCJsonUtils`
is the tree of which the text is printed.

### check_negate

`stack` holds the processes, each waiting for the next. Command lines are
sequences of words, and the parsers are folds over them. The user may quote a
command with its options, so a word is itself a sequence of what the shell makes
of it: `check()` joins the command and its arguments with spaces, and the shell
of `std::system()` splits them again (`Shell`). A status is the wait status: 0 to
3, 127 from the shell, or `Signal`; `cause` says whether a process was ended by an
exception of its parser, as `check_disk` is by a word after `-w` that begins with no
number, or by a signal from outside.

### Exporter script

One action per command of the script. `mv` is one step when the temporary
directory and the metrics file share a file system, and two otherwise.

## 3. Runs

Passing runs (TLC checks every property listed in `PROJECT.json`):

| run | states | shows |
|---|---|---|
| `LineSessions` | 6870 | every line-session check: OK only after the accepting reply, whatever the network does; a healthy server gets OK; no SIGPIPE; commands wait for replies; every check ends; the inductive invariant of the proofs; for nine of them the implementation of `CheckVerdict!Spec` |
| `ReplyLoops` | 14793 | every receive-loop check: no false OK, the whole reply is judged, no false alarm, an end; the inductive invariant of the proofs; for the keyed ones (all but `Lenient` and `Absent`) the implementation of `CheckVerdict!Spec` |
| `NtpClocks` | 913472 | the offset, its error bound, the verdicts |
| `PingQuiet` | 2168 | loss, round trips, verdict and end of a ping on a quiet machine; implements `CheckVerdict!FairSpec` |
| `Datagrams` | 5880 | OK only after the service has answered, no false alarm, an end; the inductive invariant of the proofs |
| `CommandLines` | 123842 | every parser: the settings are what the words say, only a garbled number aborts, and not after `-h`; every host check: a critical figure is reported, an alarm has its reason, `disk` is the worst of its paths |
| `Files` | 762673 | counts, ages and sizes lie between what was there throughout and what was ever there, and the status is that of such a count |
| `JsonValues` | 47103 | the searches find a key that is there once, and make nothing up |
| `NegateLines` | 89502 | every command line of `negate` of up to five words, nested and quoted, with options of the command: the status of the command that was meant is inverted; parsers that throw and processes that signals end are UNKNOWN; an end |
| `ExporterCron` | 85377 | two runs of the script that may overlap, fail and be killed: header first, no temporary file left behind, and no sample twice unless a run was disturbed |

Some checks are left out of some properties, because the code does otherwise;
the names are those of sets in the MC modules, or say which checks are
not in the set that the property names:

| set | checks | left out of | because |
|---|---|---|---|
| not in `Tagged`, `Login`, `InPieces` | `nntp-greet`, `telnet`, `http`, `http-string`, the port checks | `OkMeansGranted` | their tests accept more than the granting message, or there is none |
| `InPiecesChecks` | `ftp` | `OkMeansGranted` and `InStep` after a fault, `ExitsWithStatus` | it takes a message that arrives in pieces for several |
| `FirstMessage` | `ircd`, `jabber`, `telnet-expect` | `HealthyIsOk` | they judge the first message, and the evidence may be in the next one |
| `SendOn` | `ircd`, `jabber`, `telnet-send` | `InStep`, `ExitsWithStatus` | they send again whatever the last `recv()` returned |
| `Lenient` (loops) | `zk-other`, `https`, `https-string`, `etcd-other`, `kubernetes-other`, `influxdb-other`, `ceph-other` | `OkMeansGranted` | any answer is OK, or any with "200" in it |
| `Absent` | `vault-seal`, `consul`, `elasticsearch`, `couchbase`, `prometheus-metric`, `activemq-queues`, `ceph-status` | `OkMeansGranted` after a fault | they look for a bad state, which a body that was cut may not show |
| `RedisChecks` | `redis`, `redis-auth` | `WholeReply`; alarms on part of a reply | the loop ends where a segment ends |
| `FirstLine` | `zk-stat` | `WholeReply` | the loop ends after the first line |
| `OneRecord` | `https`, `https-string` | `WholeReply` | one `SSL_read()` for the whole answer |
| `BodyUnread` | `https-string` | `HealthyIsOk` | the string may be in the next record |
| `InfluxPing` | `influxdb-ping`, `influxdb-other` | `HealthyIsOk` | its good answer has no body, and an empty body is CRITICAL |
| `Unpadded` | `rabbitmq-longer` | `HealthyIsOk` | the last bytes of its credentials are lost |
| `Untimed` | `docker`, `docker-container` | `Terminates` | no timeout on the daemon socket |
| not in `Answered` | `udp` and `udp-expect`; `udp-binary` | `HealthyIsOk` | no query is sent; the text after a zero byte is not seen |
| `NoLook` | `dhcp` | `OkMeansAnswered` | OK without any answer |
| not in `ArgsWithout` | `negate` when an argument of the command is `-c`, `-h` or in quotes | `NegationFaithful` | the first two are taken for options of `negate`, the quotes are gone when the shell reads the command again |
| `PortMoved` | `imap`, `pop` with `-S` and `-p` | `MeansWhatItSays` | `-S` moves a port that was given |

Besides, `UniqueKeyFound` and `FoundIsThere` leave out documents with a brace in
a string where the helper counts braces (`Reliable`), and the counts of `Files`
are about a path that was there throughout, could be read and has only grown
(`Sound`).

Runs that TLC finds violated; each is a disagreement between the code and a
comment, document or description quoted in `PROJECT.json`:

| run | what the code does |
|---|---|
| `FtpFalseOk` | a greeting in two segments shifts the replies; a refused login is OK |
| `NegateTakesOption` | `check_negate` takes the `-c` of its command for its own, so `negate dummy -c` inverts the status of `dummy` |

Disagreements met while modelling that have no run. Where the models contain the
behaviour, the properties of the passing runs leave it out:

*Line sessions.*
- `check_nntp` accepts a greeting that starts with 4; `check_http` takes "200"
  anywhere in the first segment or TLS record for the status, and misses the string
  of `-s` in the next; `check_telnet -e` looks at the
  first message only, when the banner comes in two.
- `check_ircd` judges the first segment after USER, which may not hold the
  welcome yet. `check_jabber` waits for a server that waits for it.
- A reset during the dialogue ends `check_ircd`, `check_redis` and others that
  send after it by SIGPIPE.

*Receive loops and HTTP APIs.*
- `check_redis` ends its loop where a segment ends in "\r\n", so an INFO reply
  split after its length line is CRITICAL and its metrics may be a part.
- `check_docker` waits for ever for a silent daemon.
- `check_zookeeper` takes any answer to a command it does not know for OK; so do
  `check_etcd`, `check_kubernetes`, `check_influxdb` and `check_ceph`, whatever the
  HTTP status.
- A body that was cut is judged like a whole one: `check_consul` may miss the
  critical service, `check_prometheus` read 9 for 95.
- The ping of InfluxDB answers 204 without a body
  (`plugins/influxdb/check_influxdb.cpp:67` says so), and an empty body is
  CRITICAL (line 59).
- `base64Encode()` pads right only when the length of `user:password` is a
  multiple of three; otherwise the last bytes are lost, and the Basic
  authentication of `docs/architecture/README.md:145` fails.
- Without OpenSSL, `-S` of `kubernetes`, `grafana`, `apache` and `phpfpm`
  silently asks over plain HTTP. `check_ceph -c health` takes 401 for an answer.
- `check_rabbitmq` reads the totals after the first one as 0, since
  `extractJsonNestedValue()` without a dot stops at the first comma.

*JSON helpers.* Braces in strings are counted; a dotted path of a number that
is not there falls back to its last key anywhere; the first quoted value wins
over an unquoted one before it; an empty string gives `""`; an escaped quote
ends a value.

*Clocks and pings.*
- A datagram that answers an earlier query is taken for the answer, so the
  offset is not what `include/netmon/ntp_client.hpp:23` says of it. The 32-bit seconds
  of NTP wrap in 2036 (`NtpClocks` stays within an era).
- `check_ping` counts errors of routers as replies of the host
  (`check_ping.cpp:335`), and the replies to other pings of the machine
  (`PingQuiet` has none). Without thresholds 100% loss is OK, and so is the loss
  of `-c 0`, which is no number.

*Datagrams.* `check_udp` without `-s` sends nothing and waits for nothing. The
answer of any sender counts for `udp` and `sip`. `check_dhcp` is OK without any
answer, and its socket is not bound to port 68.

*Host checks.*
- A word that should be a number and is none, or is one out of range, ends every
  plugin by SIGABRT, where `docs/architecture/README.md` has try-catch blocks that
  prevent crashes (line 285) and says that `parseArguments()` validates all input
  (line 304). `AbortedByGarbageOnly` says that nothing else does, and does not say
  that such a word must. A number followed by other text is accepted.
- A certificate whose issuer is not trusted fails the handshake, so
  `check_ssl_validity` is CRITICAL however long it is valid;
  `check_ssl_validity.cpp:68` has "don't fail on verification errors". To
  `AlarmHasReason` a handshake that fails is a reason.
- `-s` of `dns` and `dig` is not used; `dig` knows A and AAAA only; `rpc` tests
  port 111 whatever the program.
- `-S` of `imap` and `pop` moves an explicit `-p 143` or `-p 110` that comes
  before it.
- `nwstat` drops thresholds without a comma, and the counters of an interface
  that is missing are 0, which is OK. `sensors` does not read below 0 °C.
- `disk` keeps its default percentages beside thresholds in MB, counts the
  blocks reserved for root as used, and has no percentage of a total of 0.
- The days of a certificate are those of the local time zone.
- `cluster`, `game`, `hpjd`, `mrtgtraf` and `real` are OK, the other stubs UNKNOWN,
  whatever the service does.

*Files.* The glob of `file_count` does not go back after a star; an entry that
has gone counts as a file; a symbolic link to a directory above is followed.
`procs` counts itself. `log` without `-q` reports a file readable without opening
it.

*Others.*
- `check_negate` takes `-h` of its command for its own, too, and an argument in quotes
  reaches the command in pieces.
- The exporter exports 0 for every result, because of `|| true`, and its last
  `mv` overwrites the samples with the header, so the metrics of
  `docs/deployment/README.md:164` are not there.
- `docs/plugin-reference/README.md` documents options that do not exist or mean
  something else: line 81 (`check_procs -s`), line 182 (`check_ping -c 200,50%`,
  where `-c` is the number of packets), lines 22 and 66 (`-w` of `disk` and
  `swap` as what is used, where it is what is free).

**Bounds, and why they are enough.** A session runs each check with every
greeting and reply of its server; the tables are the whole dialogue, so nothing
is cut off. Replies have one to eight atoms, enough for a split at every place
where a test can tell the halves apart. `NtpClocks` delivers a request up to
twice and lets six ticks pass, enough for a reading on each side of an answer
and a delay on each leg; its skews lie on both sides of every threshold.
`PingQuiet` sends up to three packets, so that a reply may be late by one and
by two; the limits of 30, 50, 60, 80 and 100 percent fall on and between the
losses. `Datagrams` has every answer and every stranger's text on its way at
once. `CommandLines` has lines of up to two groups (an option with its word, a
flag, a word), of three with `-H` first where a host is needed: two groups meet
in every way the loop can confuse them (a word taken for an option, an option
taken for a word, one set twice, two that set the same), and there is no third
setting on which the handling of two depends. The readings lie on, above and
below every threshold. `Files` allows three changes: one before, one between
and one after the looks of the check, or a directory that is removed and made
again with a file. `JsonValues` has documents of two levels with two members
each, so that a key may be beside, above, below and inside the one that is
meant. `NegateLines` has lines of up to five words, among which `-c`, `-w`, `-h` and
`-m` may stand anywhere, and lines with a quoted command of up to four words:
`negate -c "negate -c disk 5"` and `negate -c "negate disk" -w` are two deep, and
`negate negate -c negate dummy` shows who takes the `-c`. The exporter has two runs and two checks:
the overlap of a run with the one before is what cron produces, and a third run
adds only another overlap of two. The runs are symmetric, and `ExporterCron`
checks no liveness, so it uses their symmetry.

**Fairness.** Clients are weakly fair: the process is scheduled, and
`select()` or SO_RCVTIMEO ends each wait. Nothing is assumed of servers,
networks, the kernel's delivery or signals. For `check_docker` `Timeout` is
disabled, as the code sets none, so it can wait for ever and `Terminates`
leaves it out. A server that sends a byte before each timeout could keep a
receive loop alive; replies in the model are finite, so `Terminates` says
nothing of that case. `NtpClocks`, `CommandLines`, `Files`, `JsonValues` and
`ExporterCron` check no liveness: their loops are bounded by the words, the
files or the commands of the script.

## 4. Proofs

All theorems are checked by TLAPS to the last leaf.

*`LineSession_proofs`.* Constants: any set of checks, any tables, any servers
that meet the assumptions of `TaggedSession` and `StepwiseSession`; TLC evaluates
them for the tables of the run. Three families of checks, with one invariant each:

- *Tagged* (nine checks): every way to OK passes one reading step, the gate, which
  looks for a key, and servers write a key only in a granting message.
  `KeyMeansGranted` is the invariant: a key in `inbox`, or a `pc` past the gate,
  implies `granted`. `TaggedOkGranted` alone is not inductive: it says nothing of the
  key on its way. `Recv` is the step that matters: what it returns is a prefix of
  `inbox`, at most with one token turned into other text, so it shows a key only if
  `inbox` held one. `NoFalseOk` and `SessionImplementsVerdict` (the session refines
  `CheckVerdict!Spec`) follow.
- *Stepwise* (all but three that send on, and `ftp`), whatever the network does:
  steps that read and steps that send alternate (`AlternationAssumption`), a step
  only leads on when it has seen a mark, and a reply has at most one
  (`MarkAssumption`). So at a reading step either the server still owes the reply
  and no mark is on its way, or the one mark there is of that reply
  (`Owed`, `MarkHeard`), and at a sending step no mark is left (`Quiet`). This is why
  the "+OK" that answers every command of POP3 cannot be taken for the reply to the
  next one, and why a login is judged by the reply to the login (`LoginAssumption`:
  there a mark that passes is in granting replies only). It also shows that a
  connection that was reset is noticed by a `recv()` before the next `send()`.
- *Answerable*, while nothing has failed: the whole message is on its way or is
  still owed, and nothing else (`MessageInv`), so the tests see a whole reply.
  Under `InPieces` (`check_ftp`, whose replies have several marks) this gives what
  `StepInv` gives the others. With a split it is false: `FtpFalseOk`.

`LineInv` is the conjunction. From it follow `NoLineFalselyOk` (`OkMeansGranted`,
now with the logins of POP3 and NNTP), `NoFalseAlarm` (`HealthyIsOk`), `NoSignal`
(`ExitsWithStatus`) and the action property `StaysInStep` (`InStep`: a command is
sent only when the server has answered the one before).

*`ReplyLoop_proofs`.* Any tables, servers and network that meet the assumptions of
`KeyedLoop` and `WholeLoop`, which TLC evaluates. For the keyed checks: outside the
`Sure` stages only a test that looks for a key leads to OK or to a `Sure` stage, and
servers write a key in no answer but the granting one. `KeyMeansGranted`: a key in
`response` or in `inbox`, or a `pc` that rests on one, implies `granted`; without
the key on its way, or half collected, it would not be inductive. `Recv` and
`Reset` only cut the stream, which makes no key, and the tests decide by the first
that holds, which exists because the numbers are well-founded. From it follow
`NoFalseOk` and `LoopImplementsVerdict`.

The other three properties rest on `Unbroken`: while nothing fails, the loop either
waits for a reply of which nothing is there (`Awaiting`), or what it has collected
and what is on its way are together one reply of the server, in order, cut where
TLS may cut it (`Reading`: `due = response \o inbox`). The next exchange finds
nothing left of the one before, since either it has a connection of its own or the
one before was read to the end (`ConnectionAssumption`). `OkOnWholeReply`
(`WholeReply`) follows because no part of a reply ends the loop of such a check;
`NoLoopFalselyOk` (`OkMeansGranted`), for the checks that look for the absence of a
bad state, because the whole reply is judged; and `NoFalseAlarm` (`HealthyIsOk`)
because the tests know every part of a good reply that can end the loop. The three
are conjuncts of `LoopInv`, since a verdict must be kept after the last step.

*`NtpClient_proofs`.* Any clocks, delays, thresholds, resolutions and bounds.
`Readings` is the invariant: the first reading is not after the present, no
answer is from the future, so the two readings enclose the moment of an answer
that is fresh. `OffsetAccurate` is arithmetic from it: the midpoint of an
interval that holds the moment is at most half its length away.
`VerdictAccurate` and `CriticalReported` follow by the definition of
`Verdict`. The freshness and era hypotheses are needed: a stale answer has a
wrong offset, and across the wrap of 2036 it is wrong by an era.

*`DatagramCheck_proofs`.* Any tables, strangers and services that meet three
assumptions: a check that looks at what it receives accepts, of what its service
says, only the answer that is asked for (`LooksAssumption`); a query leads to exit
codes (`QueryAssumption`); what a healthy service answers is judged OK, if the check
sees it (`AnswerableAssumption`). `InboxGranted` is the strengthening for
`NoFalseOk`: a datagram that would be judged OK is on its way only if the service
has granted, or a stranger wrote it. `AnswerComes` is the one for `NoFalseAlarm`:
while nothing fails, the query or its answer is on its way until the check has it,
so a timeout is a fault. The network may double query and answer at will.

*`HostCheck_proofs`.* The command lines first. Any parsers and any lines that meet
four assumptions, which TLC evaluates for every table and line of the run: options
have names of their own (`OptionAssumption`); a line is the sequence of its groups,
and a word that stands alone is no option that takes a word, unless it is the last
(`LineAssumption`); the usage asks for a number exactly where the code reads one
(`NumberAssumption`); only the flag `-S` and `-p` set the port, and no option sets
the paths (`PortAssumption`). Neither property is inductive: both are about the
end of the loop, and say nothing of its index, which jumps by one or two. `LineRead`
says that the loop always stands where a group begins, and that the settings are
what the groups before it say, none of which is garbled or `-h` (`AsSaid`: which settings there are, that the last
group about each decides it, and where the words by themselves went). One lemma for
each action shows that it steps over exactly one group; then
`MeansWhatItSaysHolds` and `AbortedByGarbageOnlyHolds` follow. The list of
`check_disk` needs a count of the words by themselves, from `FiniteSetTheorems`.

`DiskCoversHolds`, for any number of paths and any figures.
The strengthening `CoversSoFar` says of the paths read so far what `DiskCovers`
says of all: one of them is CRITICAL exactly if `overall` is, all are OK exactly
if it is, and a WARNING is of one of them. The step is `Aggregate`, by cases on
the two statuses.

`CriticalHonouredHolds` and `AlarmHasReasonHolds` join the two: they go from a word
of the line to the status of the process. The words, their numbers and the readings
are arbitrary; `DecidingAssumption` says that the options of the fourteen plugins
are those of their tables and that nothing else goes to their settings,
`ZoneAssumption` that a time zone is less than a day from UTC, without which a
certificate could be counted as expired. From `LineRead`: the last word given to an
option decides all the settings it is about (`LastDecides`), and a setting that is
set was read from a word that was given to its option (`SetIsGiven`); the two are not
the same, since `-c 4,2,2 -c 3` of `check_load` leaves two settings of the first word.
`LimitTable` is the table of all the limits, `BeyondBreaks` and `BreaksBeyond` show by
plugin that a reading is beyond a word exactly if it breaches a limit that is read from
it; `check_sensors` and `check_ssl_validity` have bounds of their own and are proved
apart. `JudgedOnce` is the invariant: a check that is done has judged one reading with
the settings as they still are; for `check_disk` it is `CoversSoFar`.

*`Processes_proofs`.* The exporter script first: any number of runs, and any list
of checks without repetition (`ChecksAssumption`). The invariant joins `TypeOK`, `Temporary` (a run
that ended of itself has no temporary file), `Within` (the index of a run is in
its list) and `Undisturbed`: as long as no run was disturbed, one runs at a
time, and the samples in the file are of checks before its current one.
`HeaderFirst`, `TempRemoved` and `NoDuplicates` follow; the last two are not
inductive, because they say nothing of the sample that comes next, or of runs
that go on.

Then `check_negate` (`NegateSpec`): any command lines and any depth. `Waiting` says
that all processes but the innermost wait, `Unwinding` that after a signal, or after an
exception of a parser, the innermost carries 3 or the signal, `Ended` what the outermost then returns.
`AbnormalIsUnknown` follows.

*`IcmpPing_proofs`.* Any count, thresholds and host, under `Alone`: one ping on
the machine. The conjuncts: packets are sent in order (`InOrder`), every
message has the number of one that was sent (`Below`) and is in one place only
(`Apart`), a reply is one that the host has given (`Genuine`), what is on its way
belongs to the current packet unless something was late (`OnTime`), without
losses each packet is counted or on its way (`Complete`), and the verdict rests on
the comparison of the loss (`Compared`). That the count is not above
what the host answered is a pigeonhole argument, from `FiniteSetTheorems`.
`PingImplementsVerdict` is the safety part of what `PingQuiet` checks as `Implements`:
a ping with packets to send and a limit on the loss, of 1 to 100 percent (`Limited`),
implements `CheckVerdict!Spec`. The step that matters is `Judge`: of no message at all
the loss is 100 percent, which is over any such limit, so OK means that something came
back. Without a limit it is false, as section 3 says.

*`FileChecks_proofs`.* Any paths, file systems, command lines and changes by
others, under two assumptions that TLC evaluates for the trees of the run: the
options have their types and nothing above the path of the line matters
(`JobAssumption`); a path that is there has an inode and is in a directory
(`TreeAssumption`). The lengths of files, the depth of the tree and the number
of changes (`MaxChanges`) are arbitrary. `CountBetween` and `VerdictFits` are about the end of
a check only, so the invariant (`FilesInvariant`) says at each system call what
has been dealt with, in five parts:

- `History` and `Missing`: a file of the start is where it was or is gone, it only
  grows unless it is marked as rewritten, and what is there is in a directory.
- `AgeInv`: between `stat()` and the clock, the time of modification read is one
  that the file had at some moment so far.
- `LogInv`: the first `pos` lines of the open inode are read, all of them are
  finished, and `count` is how many of them match (`ReadSoFar`). That an appended
  line cannot change one that was read needs `getline()` never to have returned an
  unfinished line before the end of the file.
- `Walking`: there are sets C, V and O, of the paths counted, returned and opened so
  far, of which five things hold. `Shape`: the open directories lie inside each
  other, along the entries at hand. `Seen`: every path is returned once, by the
  directory it is in. `Scanned`: of a directory that was there throughout, `readdir()`
  has returned before the end whatever was in it throughout. `AtEntry`: what is known
  of the entry between its `stat()` and its count. `Counted`: `count` is the
  cardinality of C, which holds what had to be counted of what has been dealt with,
  and nothing that must not be. C, V and O are quantified and not variables, since
  the program keeps none of them: it keeps a number.
- `Done`: the verdict is that of a count between the bounds.

The actions of the others are shown to be cases of `Meanwhile`, which says what
any of them may do, and the invariant to survive `Meanwhile`; so each property is
argued once and not for every change. At the end all directories are closed: then C
holds `Listed` by the leastness of `Inside` (`InsideIsLeast`: the paths
that were returned, with those that were not there throughout or could not be reached
throughout, are closed under entries), and lies within `Listable` because `Matches`, the code's glob without
backtracking, accepts nothing the usual one rejects (`MatchIsGlob`). The converse is
false, which is why `Listed` asks for `Matches`. Two errors of the model were
found by these proofs and mended: `OpenDirectory` could open a path that was no
directory any more, and some CASEs had arms that overlap, which TLC takes in
order and the language does not.

Only model-checked:

- liveness (`Terminates`) and the fair refinement of ping, since the prover knows no
  fairness;
- the JSON helpers (`UniqueKeyFound`, `FoundIsThere`): the reference is recursive
  over documents, and the searches are over texts, so this is induction over data;
- `NegationFaithful`: the parser of `check_negate` is a fold over the words, and what
  a nested command line means is defined by recursion over it.

## 5. Not modelled, and the plan

Not modelled: the Windows branches; formatting of messages and performance data,
and the metrics of an OK; `in_cksum`; `jsonHasKey()`, which has no caller;
symbolic links; the records of TLS beyond their order, and what a certificate
says beyond trust and dates; the dependency check, which prints advice and enters
no verdict.

What could come next: symbolic links in `FileChecks`, where the walk of
`file_count` may not end before ELOOP.
