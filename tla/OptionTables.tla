---------------------------- MODULE OptionTables ----------------------------
(***************************************************************************)
(* The options of every plugin, as parseArguments() of each tests them:    *)
(* which take a word, how the word is read, and what else they set.  An    *)
(* option stands for its short and its long name.  The parsers of          *)
(* check_negate and check_dummy are in Negate.                             *)
(***************************************************************************)
EXTENDS Integers, Sequences, TLC

\* An option: how the word after it is read, the settings it goes to, what the
\* option sets besides, and the two default ports of an option that changes one.
Option(opt, kind, to) == [opt |-> opt, kind |-> kind, to |-> to, also |-> <<>>, ports |-> <<>>]

Text(opts)   == {Option(o, "text", <<o>>) : o \in opts}    \* taken as it is
Number(opts) == {Option(o, "number", <<o>>) : o \in opts}  \* std::stoi, stod, stol
Flag(opts)   == {[Option(o, "flag", <<>>) EXCEPT !.also = <<o, "yes">>] : o \in opts}

\* "a,b,c": as many of the numbers as there are; "a" is the first.
RtaPl(opt, level) == Option(opt, "list", <<level \o "RTA", level \o "PL">>)
Averages(opt, level) == Option(opt, "list", <<level \o "1", level \o "5", level \o "15">>)
\* "min:max", or the maximum alone.
RangeOf(opt, level) == Option(opt, "range", <<level \o "Min", level \o "Max">>)
\* "rx,tx"; a word without a comma is taken and dropped.
PairOf(opt, level) == Option(opt, "pair", <<level \o "Rx", level \o "Tx">>)
\* "n%" or an amount.
ShareOf(opt, level) == Option(opt, "share", <<level \o "Percent", level \o "Free">>)

Also(option, name, value) == [option EXCEPT !.also = <<name, value>>]
SetsTo(opt, name, value)  == Also(Option(opt, "flag", <<>>), name, value)
\* -S of check_imap and check_pop: the default port becomes the secure one.
Secure(opt, plain, tls) == [SetsTo(opt, opt, "yes") EXCEPT !.ports = <<plain, tls>>]

\* A parser: its options, the setting that words without an option go to, and
\* the status of a check() that looks at nothing.
Parser(opts)     == [opts |-> opts, loose |-> "ignored", stub |-> "none"]
Loose(opts, to)  == [opts |-> opts, loose |-> to, stub |-> "none"]
Stub(opts, code) == [opts |-> opts, loose |-> "ignored", stub |-> code]

-----------------------------------------------------------------------------
Activemq == Parser(Text({"-H", "-u", "-P", "-c"}) \cup Number({"-p", "-t"}))
Apache == Parser(Text({"-H", "-u"}) \cup Number({"-p", "-t"}) \cup Flag({"-S"}))
Apt == Stub(Number({"-w", "-c"}), "UNKNOWN")
BySsh == Stub(Text({"-H", "-u", "-C"}) \cup Number({"-p"}), "UNKNOWN")
Cassandra == Parser(Text({"-H", "-c"}) \cup Number({"-p", "-j", "-T"}))
Ceph == Parser(Text({"-H", "-u", "-P", "-c"}) \cup Number({"-p", "-t"}))
Cluster == Stub(Text({"-t", "-n"}), "OK")
Consul == Parser(Text({"-H", "-t", "-c"}) \cup Number({"-p", "-T"}))
Couchbase == Parser(Text({"-H", "-u", "-P", "-c"}) \cup Number({"-p", "-t"}))
Dbi == Stub(Text({"-d", "-u", "-P"}), "UNKNOWN")
Dhcp == Parser(Text({"-H", "-i"}) \cup Number({"-t"}))
Dig == Parser(Text({"-H", "-t", "-s", "-e"}))
Disk == Loose({ShareOf("-w", "warning"), ShareOf("-c", "critical")}, "paths")
Dns == Parser(Text({"-H", "-a", "-s"}) \cup Number({"-t"}))
Docker == Parser({Also(o, "useSocket", "no") : o \in Text({"-H"}) \cup Number({"-p"})
      \cup Flag({"-S"})} \cup {Also(o, "useSocket", "yes") : o \in Text({"-s"})}
      \cup Text({"-c"}) \cup Number({"-t"}))
Elasticsearch == Parser(Text({"-H", "-u", "-P", "-c"}) \cup Number({"-p", "-t"}))
Etcd == Parser(Text({"-H", "-c"}) \cup Number({"-p", "-T"}))
FileAge == Loose(Text({"-f"}) \cup Number({"-w", "-c"}) \cup Flag({"-O"}), "-f")
FileCount == Loose(Text({"-d", "-p"}) \cup Number({"-w", "-c"}) \cup Flag({"-r", "-D"}), "-d")
FileSize == Loose(Text({"-f"}) \cup Number({"-w", "-c"}), "-f")
Fping == Parser(Text({"-H"}) \cup Number({"-c", "-i"})
      \cup {RtaPl("-w", "warning"), RtaPl("--critical", "critical")})
Ftp == Parser(Text({"-H", "-u", "-P"}) \cup Number({"-p", "-t"}) \cup Flag({"-a"}))
Game == Stub(Text({"-H", "-t"}) \cup Number({"-p"}), "OK")
Grafana == Parser(Text({"-H", "-u", "-P", "-c"}) \cup Number({"-p", "-T"}) \cup Flag({"-S"}))
Hpjd == Stub(Text({"-H"}) \cup Number({"-p"}), "OK")
Http == Parser(Text({"-H", "-u", "-s"}) \cup Number({"-p", "-t"}) \cup Flag({"-S"}))
IdeSmart == Stub(Text({"-d"}), "UNKNOWN")
Imap == Parser(Text({"-H", "-u", "-P"}) \cup Number({"-p", "-t"}) \cup {Secure("-S", 143, 993)})
Influxdb == Parser(Text({"-H", "-u", "-P", "-c"}) \cup Number({"-p", "-T"}))
Ircd == Parser(Text({"-H", "-n"}) \cup Number({"-p", "-t"}))
Jabber == Parser(Text({"-H", "-u", "-P"}) \cup Number({"-p", "-t"}))
Kafka == Parser(Text({"-H", "-c"}) \cup Number({"-p", "-P", "-T"}))
Kubernetes == Parser(Text({"-H", "-t", "-c"}) \cup Number({"-p", "-T"})
      \cup {SetsTo("-S", "useSSL", "yes"), SetsTo("--no-ssl", "useSSL", "no")})
Ldap == Stub(Text({"-H", "-D", "-P", "-b"}) \cup Number({"-p"}), "UNKNOWN")
Load == Parser({Averages("-w", "warning"), Averages("-c", "critical")})
Log == Loose(Text({"-f", "-q", "-O"}) \cup Number({"-w", "-c"}) \cup Flag({"-i", "-v"}), "-f")
Memcached == Parser(Text({"-H"}) \cup Number({"-p", "-t"}))
Mongodb == Parser(Text({"-H"}) \cup Number({"-p", "-P", "-t"}) \cup Flag({"-T"}))
Mrtg == Parser(Text({"-f", "-t"}))
Mrtgtraf == Stub(Text({"-f", "-i"}), "OK")
Mysql == Stub(Text({"-H", "-u", "-P", "-d"}) \cup Number({"-p"}), "UNKNOWN")
MysqlQuery == Stub(Text({"-H", "-u", "-P", "-d", "-q"}) \cup Number({"-p"}), "UNKNOWN")
Nntp == Parser(Text({"-H", "-u", "-P"}) \cup Number({"-p", "-t"}))
Nomad == Parser(Text({"-H", "-t", "-c"}) \cup Number({"-p", "-T"}))
Nt == Stub(Text({"-H", "-m"}), "UNKNOWN")
Ntp == Parser(Text({"-H"}) \cup Number({"-p", "-w", "-c", "-t"}))
NtpPeer == Parser(Text({"-H"}) \cup Number({"-p", "-w", "-c", "-t"}))
NtpTime == Parser(Text({"-H"}) \cup Number({"-p", "-w", "-c", "-t"}))
Nwstat == Parser(Text({"-i"}) \cup {PairOf("-w", "warning"), PairOf("-c", "critical")})
Overcr == Parser(Number({"-w", "-c"}))
Pgsql == Stub(Text({"-H", "-u", "-P", "-d"}) \cup Number({"-p"}), "UNKNOWN")
Phpfpm == Parser(Text({"-H", "-u"}) \cup Number({"-p", "-t"}) \cup Flag({"-S", "-P"}))
Ping == Parser(Text({"-H"}) \cup Number({"-c", "-t"})
      \cup {RtaPl("-w", "warning"), RtaPl("--critical", "critical")})
Pop == Parser(Text({"-H", "-u", "-P"}) \cup Number({"-p", "-t"}) \cup {Secure("-S", 110, 995)})
Procs == Parser(Text({"-a"}) \cup {RangeOf("-w", "warning"), RangeOf("-c", "critical")})
Prometheus == Parser(Text({"-H", "-u", "-m"}) \cup Number({"-p", "-w", "-c", "-t"}))
Rabbitmq == Parser(Text({"-H", "-u", "-P", "-q"}) \cup Number({"-p", "-t"}))
Radius == Stub(Text({"-H", "-s", "-u", "-P"}) \cup Number({"-p"}), "UNKNOWN")
Real == Stub(Text({"-m"}) \cup Number({"-w", "-c"}), "OK")
Redis == Parser(Text({"-H", "-a"}) \cup Number({"-p", "-t"}))
Rpc == Parser(Text({"-H"}) \cup Number({"-p", "-v", "-t"}))
Sensors == Parser(Text({"-s"}) \cup Number({"-w", "-c"}))
Sip == Parser(Text({"-H", "-f", "-t"}) \cup Number({"-p", "-T"}))
Smtp == Parser(Text({"-H", "-e"}) \cup Number({"-p", "-t"}))
Snmp == Stub(Text({"-H", "-C", "-o"}) \cup Number({"-p"}), "UNKNOWN")
Solr == Parser(Text({"-H", "-c", "-C"}) \cup Number({"-p", "-t"}))
Ssh == Parser(Text({"-H"}) \cup Number({"-p", "-t"}))
SslValidity == Parser(Text({"-H"}) \cup Number({"-p", "-t", "-w", "-c"}))
Swap == Parser({ShareOf("-w", "warning"), ShareOf("-c", "critical")})
Tcp == Parser(Text({"-H"}) \cup Number({"-p", "-t"}))
Telnet == Parser(Text({"-H", "-s", "-e"}) \cup Number({"-p", "-t"}))
Time == Parser(Text({"-H"}) \cup Number({"-p", "-w", "-c", "-t"}))
Udp == Parser(Text({"-H", "-s", "-e"}) \cup Number({"-p", "-t"}))
Ups == Stub(Text({"-H", "-u"}) \cup Number({"-p"}), "UNKNOWN")
Uptime == Parser(Number({"-w", "-c"}))
Users == Parser(Number({"-w", "-c"}))
Vault == Parser(Text({"-H", "-t", "-c"}) \cup Number({"-p", "-T"}))
Zookeeper == Parser(Text({"-H", "-c"}) \cup Number({"-p", "-T"}))
-----------------------------------------------------------------------------
ParserOf ==
  "activemq" :> Activemq @@ "apache" :> Apache @@ "apt" :> Apt @@ "by_ssh" :> BySsh @@
  "cassandra" :> Cassandra @@ "ceph" :> Ceph @@ "cluster" :> Cluster @@
  "consul" :> Consul @@ "couchbase" :> Couchbase @@ "dbi" :> Dbi @@ "dhcp" :> Dhcp @@
  "dig" :> Dig @@ "disk" :> Disk @@ "dns" :> Dns @@ "docker" :> Docker @@
  "elasticsearch" :> Elasticsearch @@ "etcd" :> Etcd @@ "file_age" :> FileAge @@
  "file_count" :> FileCount @@ "file_size" :> FileSize @@ "fping" :> Fping @@
  "ftp" :> Ftp @@ "game" :> Game @@ "grafana" :> Grafana @@ "hpjd" :> Hpjd @@
  "http" :> Http @@ "ide_smart" :> IdeSmart @@ "imap" :> Imap @@
  "influxdb" :> Influxdb @@ "ircd" :> Ircd @@ "jabber" :> Jabber @@ "kafka" :> Kafka @@
  "kubernetes" :> Kubernetes @@ "ldap" :> Ldap @@ "load" :> Load @@ "log" :> Log @@
  "memcached" :> Memcached @@ "mongodb" :> Mongodb @@ "mrtg" :> Mrtg @@
  "mrtgtraf" :> Mrtgtraf @@ "mysql" :> Mysql @@ "mysql_query" :> MysqlQuery @@
  "nntp" :> Nntp @@ "nomad" :> Nomad @@ "nt" :> Nt @@ "ntp" :> Ntp @@
  "ntp_peer" :> NtpPeer @@ "ntp_time" :> NtpTime @@ "nwstat" :> Nwstat @@
  "overcr" :> Overcr @@ "pgsql" :> Pgsql @@ "phpfpm" :> Phpfpm @@ "ping" :> Ping @@
  "pop" :> Pop @@ "procs" :> Procs @@ "prometheus" :> Prometheus @@
  "rabbitmq" :> Rabbitmq @@ "radius" :> Radius @@ "real" :> Real @@ "redis" :> Redis @@
  "rpc" :> Rpc @@ "sensors" :> Sensors @@ "sip" :> Sip @@ "smtp" :> Smtp @@
  "snmp" :> Snmp @@ "solr" :> Solr @@ "ssh" :> Ssh @@ "ssl_validity" :> SslValidity @@
  "swap" :> Swap @@ "tcp" :> Tcp @@ "telnet" :> Telnet @@ "time" :> Time @@
  "udp" :> Udp @@ "ups" :> Ups @@ "uptime" :> Uptime @@ "users" :> Users @@
  "vault" :> Vault @@ "zookeeper" :> Zookeeper
=============================================================================
