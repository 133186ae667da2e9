--------------------------- MODULE ReplyProtocols ---------------------------
(***************************************************************************)
(* The exchanges of the plugins that collect replies with a loop, as       *)
(* tables for ReplyLoop, and what their servers may answer.  An atom is a  *)
(* piece of a reply that some test can tell apart.                         *)
(***************************************************************************)
EXTENDS TLC, Sequences, BasicAuth

If(tokens, stage) == [shows |-> tokens, to |-> stage]

\* One command, its receive loop, and the tests on the response.
Ask(cmd, dials, anywhere, atEnd, tests, otherwise) ==
  [cmd |-> cmd, dials |-> dials, anywhere |-> anywhere, atEnd |-> atEnd,
   tests |-> tests, otherwise |-> otherwise]

\* sendRedisCommand(): the loop ends where a segment ends with "\r\n".
SendRedisCommand(cmd, dials, tests) ==
  Ask(cmd, dials, {}, {"crlf"}, tests, "CRITICAL")

\* check_redis, check(): AUTH if there is a password, PING, INFO.  The INFO
\* reply is a bulk string whose body must not be empty, or anything else.
Auth(dials) == SendRedisCommand("AUTH", dials, <<If({"+OK"}, "ping")>>)
Ping(dials) == SendRedisCommand("PING", dials, <<If({"+PONG"}, "info")>>)
Info        == SendRedisCommand("INFO", FALSE, <<If({"#"}, "OK"), If({"-"}, "OK")>>)

Redis     == "ping" :> Ping(TRUE) @@ "info" :> Info
RedisAuth == "auth" :> Auth(TRUE) @@ "ping" :> Ping(FALSE) @@ "info" :> Info

\* check_memcached, sendCommand() and check(): the loop ends at "END\r\n".
Memcached == "stats" :> Ask("stats", TRUE, {"END"}, {}, <<If({"STAT"}, "OK")>>, "CRITICAL")

\* check_zookeeper, sendZookeeperCommand() and check() with -c ruok, with
\* -c stat or mntr, and with any other -c: the loop ends at the first newline.
FourLetters(cmd, tests) == "word" :> Ask(cmd, TRUE, {"nl"}, {}, tests, "CRITICAL")

ZkRuok  == FourLetters("ruok", <<If({"imok"}, "OK")>>)
ZkStat  == FourLetters("stat", <<If({"version"}, "OK"), If({}, "WARNING")>>)
ZkOther == FourLetters("ruok", <<If({}, "OK")>>)

\* check_docker, dockerApiRequest() over the daemon's socket and check(),
\* without and with a container.  A response whose head did not arrive whole
\* is searched as it is.
DockerPing(after) ==
  Ask("_ping", TRUE, {}, {},
      <<If({"blank", "body OK"}, after), If({"blank"}, "CRITICAL"), If({"200 OK"}, after)>>,
      "CRITICAL")
Docker == "ping" :> DockerPing("OK")
DockerContainer ==
  "ping"    :> DockerPing("inspect") @@
  "inspect" :> Ask("inspect", TRUE, {}, {}, <<If({"State", "running", "State end"}, "OK")>>, "CRITICAL")

-----------------------------------------------------------------------------
\* httpGet(): the loop ends when the server closes; the status code counts
\* only when the empty line after the headers has arrived.  "{" is the first
\* byte of the body.
HttpGet(cmd, tests) == "get" :> Ask(cmd, TRUE, {}, {}, tests, "CRITICAL")
On(code, tokens, stage) == If({code, "blank", "{"} \cup tokens, stage)

\* Status 200 and a body of any kind; status 200 alone; and any answer with a
\* body, whatever its status.
Answers(path)   == HttpGet(path, <<On("200", {}, "OK")>>)
Accepts(path)   == HttpGet(path, <<If({"200", "blank"}, "OK")>>)
AnyStatus(path) == HttpGet(path, <<If({"blank", "{"}, "OK")>>)

\* The leader in quotes: what is left of the body without its first and last
\* byte must not be empty.
Leader == HttpGet("/v1/status/leader", <<On("200", {"leader 2nd"}, "OK")>>)

\* check_etcd, check_grafana, check_vault and check_consul: the tests of their
\* check() with -c health (for check_vault also -c seal), and with the commands
\* that only ask for an answer.
Etcd        == HttpGet("/health", <<On("200", {"health true"}, "OK")>>)
Grafana     == HttpGet("/api/health", <<On("200", {"database ok"}, "OK")>>)
VaultHealth == HttpGet("/v1/sys/health",
  <<On("200", {"sealed true"}, "CRITICAL"), On("200", {"initialized false"}, "WARNING"),
    On("200", {}, "OK"), On("429", {}, "OK")>>)
VaultSeal   == HttpGet("/v1/sys/seal-status",
  <<On("200", {"sealed true"}, "CRITICAL"), On("200", {}, "OK")>>)

Consul      == HttpGet("/v1/health/state/any",
  <<On("200", {"critical"}, "CRITICAL"), On("200", {"warning"}, "WARNING"), On("200", {}, "OK")>>)

EtcdCommands   == "etcd-version" :> Answers("/version") @@ "etcd-other" :> AnyStatus("/health")
GrafanaVersion == "grafana-version" :> Answers("/api/health")
VaultStatus    == "vault-status" :> Answers("/v1/sys/health")
ConsulCommands == "consul-leader" :> Leader @@ "consul-members" :> Answers("/v1/agent/members")

\* check_http -S, checkHttps(), without and with an expected string: one
\* SSL_read() for the whole answer.
ReadOnce(tests) == "get" :> Ask("GET", TRUE, {"HTTP/1"}, {}, tests, "CRITICAL")
Https ==
  "https"        :> ReadOnce(<<If({"HTTP/1", "200"}, "OK")>>) @@
  "https-string" :> ReadOnce(<<If({"HTTP/1", "200", "string"}, "OK")>>)

-----------------------------------------------------------------------------
(* The plugins of HTTP APIs that have several commands: one entry for each   *)
(* command that is judged in its own way.  A command name that none of them  *)
(* knows is judged by AnyStatus in four plugins (Others and etcd-other), in  *)
(* the rest like a listing.                                                  *)

\* check_elasticsearch, checkCluster(): a status that is not there is green.
Elasticsearch == "elasticsearch" :> HttpGet("/_cluster/health",
  <<On("200", {"status red"}, "CRITICAL"), On("200", {"status yellow"}, "WARNING"),
    On("200", {}, "OK")>>)

\* check_nomad, check().
Nomad ==
  "nomad"      :> Leader @@
  "nomad-jobs" :> Answers("/v1/jobs")

\* check_kubernetes, check() with and without --no-ssl.
Kubernetes ==
  "kubernetes"       :> HttpGet("/healthz", <<On("200", {"ok"}, "OK")>>) @@
  "kubernetes-ssl"   :> HttpGet("/healthz", <<On("200", {"ok"}, "OK")>>) @@
  "kubernetes-nodes" :> Answers("/api/v1/nodes")

\* check_rabbitmq, check(), with and without a queue, and with credentials of
\* three and of four bytes.
Rabbitmq ==
  "rabbitmq" :> Answers("/api/overview") @@ "rabbitmq-queue" :> Answers("/api/queues") @@
  "rabbitmq-login" :> Answers("/api/overview") @@ "rabbitmq-longer" :> Answers("/api/overview")

\* check_ceph, check() with -c health, where 401 will do, and with -c status or
\* -c osd, where a cluster that does not tell its health is healthy.
Ceph ==
  "ceph" :> HttpGet("/api/auth", <<On("200", {}, "OK"), On("401", {}, "OK")>>) @@
  "ceph-status" :> HttpGet("/api/status",
     <<On("200", {"health ok"}, "OK"), On("200", {"health warning"}, "WARNING"),
       On("200", {"health"}, "CRITICAL"), On("200", {}, "OK")>>)

\* check_kafka -c topics and -c brokers, check_cassandra -c jmx (which take a
\* 200 without a body), and check_mongodb over HTTP: their check().
Kafka     == "kafka-topics" :> Accepts("/topics")
Cassandra == "cassandra-jmx" :> Accepts("/jolokia/read/java.lang:type=Runtime")
Mongodb   == "mongodb-http" :> HttpGet("/",
  <<On("200", {"MongoDB"}, "OK"), On("200", {}, "WARNING")>>)

\* check_couchbase, check().
Couchbase ==
  "couchbase" :> HttpGet("/pools/default",
     <<On("200", {"rebalance running"}, "WARNING"), On("200", {}, "OK")>>) @@
  "couchbase-nodes" :> Answers("/pools/default/nodes")

\* check_influxdb, check().  An empty body is CRITICAL whatever the code.
Influxdb ==
  "influxdb-ping"   :> HttpGet("/ping", <<On("204", {}, "OK"), On("200", {}, "OK")>>) @@
  "influxdb-health" :> HttpGet("/health", <<On("200", {"status pass"}, "OK")>>) @@
  "influxdb-databases" :> Answers("/query")

\* check_solr, check().
Solr ==
  "solr" :> HttpGet("/solr/admin/ping", <<On("200", {"status OK"}, "OK")>>) @@
  "solr-cores" :> Answers("/solr/admin/cores")

\* check_prometheus, check(), without a metric and with one whose thresholds
\* are 40 and 90.  Its value may be 4, 9, 45 or 95.
Prometheus ==
  "prometheus" :> Answers("/metrics") @@
  "prometheus-metric" :> HttpGet("/metrics",
     <<On("200", {"metric 9", "5"}, "CRITICAL"), On("200", {"metric 4", "5"}, "WARNING"),
       On("200", {"metric 9"}, "OK"), On("200", {"metric 4"}, "OK"), On("200", {}, "UNKNOWN")>>)

\* check_activemq, check(): Jolokia reports its errors with status 200.
Activemq ==
  "activemq" :> HttpGet("/api/jolokia/read/java.lang:type=Runtime",
     <<On("200", {"error"}, "CRITICAL"), On("200", {"VmName"}, "OK"), On("200", {}, "WARNING")>>) @@
  "activemq-queues" :> HttpGet("/api/jolokia/read/org.apache.activemq:type=Broker",
     <<On("200", {"error"}, "CRITICAL"), On("200", {}, "OK")>>)

\* check_phpfpm, check(), without SSL.
Phpfpm == "phpfpm" :> Answers("/status") @@
          "phpfpm-ping" :> HttpGet("/ping", <<On("200", {"pong"}, "OK")>>)

\* check_apache, check(), without SSL; check_grafana with it.
Apache == "apache" :> Answers("/server-status")
GrafanaSsl == "grafana-ssl" :> Grafana

\* The fall through to "API responding" of check_kubernetes, check_influxdb and
\* check_ceph, which look at the status within their known commands only.
Others ==
  "kubernetes-other" :> AnyStatus("/healthz") @@ "influxdb-other" :> AnyStatus("/ping") @@
  "ceph-other" :> AnyStatus("/api/auth")

ApiScripts ==
  EtcdCommands @@ GrafanaVersion @@ VaultStatus @@ ConsulCommands @@ Https @@ Others @@
  Elasticsearch @@ Nomad @@ Kubernetes @@ Rabbitmq @@ Couchbase @@ Influxdb @@
  Solr @@ Prometheus @@ Activemq @@ Phpfpm @@ Apache @@ GrafanaSsl @@ Ceph @@ Kafka @@
  Cassandra @@ Mongodb

-----------------------------------------------------------------------------
Scripts ==
  "redis" :> Redis @@ "redis-auth" :> RedisAuth @@ "memcached" :> Memcached @@
  "zk-ruok" :> ZkRuok @@ "zk-stat" :> ZkStat @@ "zk-other" :> ZkOther @@
  "docker" :> Docker @@ "docker-container" :> DockerContainer @@
  "etcd" :> Etcd @@ "grafana" :> Grafana @@ "vault-health" :> VaultHealth @@
  "vault-seal" :> VaultSeal @@ "consul" :> Consul @@ ApiScripts

FirstExchange ==
  "redis" :> "ping" @@ "redis-auth" :> "auth" @@ "memcached" :> "stats" @@
  "zk-ruok" :> "word" @@ "zk-stat" :> "word" @@ "zk-other" :> "word" @@
  "docker" :> "ping" @@ "docker-container" :> "ping" @@
  [c \in DOMAIN Scripts |-> "get"]

\* "Connection: close" in the request, or a server that always closes.
ClosingServers == DOMAIN Scripts \ {"redis", "redis-auth", "memcached"}

\* dockerApiRequest() sets no option on its socket.
NoTimeout == {"docker", "docker-container"}

\* Those that speak TLS, in httpGet() or checkHttps().  A server may put the
\* headers and the body in records of their own.
TlsChecks  == {"kubernetes-ssl", "grafana-ssl", "https", "https-string"}
HeadersEnd == {"blank"}

-----------------------------------------------------------------------------
(* The servers. *)

Msg(atoms)      == [text |-> atoms, grants |-> FALSE]
Grant(atoms)    == [text |-> atoms, grants |-> TRUE]
Both(good, bad) == TRUE :> good @@ FALSE :> bad
Page(code, body) == <<code, "blank", "{">> \o body

Bulk    == <<"$len", "crlf", "#", "clients", "crlf", "uptime", "crlf", "crlf">>
Denied  == <<"-", "NOPERM", "crlf">>
Authed  == Both({Msg(<<"+OK", "crlf">>)}, {Msg(<<"+OK", "crlf">>), Msg(<<"-ERR", "crlf">>)})
Pinged  == Both({Grant(<<"+PONG", "crlf">>)}, {Msg(<<"-ERR", "crlf">>)})
Told    == Both({Msg(Bulk), Msg(Denied)}, {Msg(Denied)})

PingPage    == <<"200 OK", "blank", "body OK">>
ErrorPage   == <<"500", "blank", "{">>
ContainerIn(state) == <<"200 OK", "blank", "{", "State", state, "State end">>

\* A server of one command, with the pages of a service in order and out of it.
Pages(path, good, bad) == path :> Both({Grant(p) : p \in good}, {Msg(p) : p \in bad})
\* The same for who has logged in with "user:password".
Login(auth, answer) ==
  [path \in DOMAIN answer |->
     IF Accepted(auth) THEN answer[path]
     ELSE Both({Msg(Page("401", <<"denied">>))}, {Msg(Page("401", <<"denied">>))})]
Lists(path) == Pages(path, {Page("200", <<"items">>)}, {Page("401", <<"denied">>), Page("500", <<>>)})

LeaderPages == Pages("/v1/status/leader",
  {Page("200", <<"leader 1st", "leader 2nd", "leader", "quote">>)},
  {Page("200", <<"quote">>), Page("404", <<"no leader">>)})
WebPages == "GET" :> Both({Grant(<<"HTTP/1", "200", "blank", "string">>)},
  {Msg(<<"HTTP/1", "500", "blank">>), Msg(<<"HTTP/1", "500", "200", "blank", "string">>)})

ApiAnswer ==
  "etcd-version" :> Lists("/version") @@
  "etcd-other" :> Pages("/health", {Page("200", <<"health true">>)}, {Page("503", <<"health false">>)}) @@
  "grafana-version" :> Pages("/api/health", {Page("200", <<"database ok", "version">>)},
     {Page("503", <<"database failing">>)}) @@
  "vault-status" :> Pages("/v1/sys/health", {Page("200", <<"initialized true", "sealed false">>)},
     {Page("429", <<"initialized true", "sealed false">>), Page("503", <<"initialized true", "sealed true">>)}) @@
  "consul-leader" :> LeaderPages @@
  "consul-members" :> Lists("/v1/agent/members") @@
  [c \in {"https", "https-string"} |-> WebPages] @@
  "kubernetes-other" :> Pages("/healthz", {Page("200", <<"ok">>)}, {Page("500", <<"ok", "failed">>)}) @@
  "influxdb-other" :> Pages("/ping", {<<"204", "blank">>}, {Page("503", <<>>)}) @@
  "ceph-other" :> Pages("/api/auth", {Page("200", <<"token">>)}, {Page("401", <<"denied">>), Page("500", <<>>)}) @@
  "elasticsearch" :> Pages("/_cluster/health", {Page("200", <<"status green", "nodes">>)},
     {Page("200", <<"status yellow", "nodes">>), Page("200", <<"status red", "nodes">>)}) @@
  "nomad" :> LeaderPages @@
  "nomad-jobs" :> Lists("/v1/jobs") @@
  "kubernetes" :> Pages("/healthz", {Page("200", <<"ok">>)}, {Page("500", <<"ok", "failed">>)}) @@
  "kubernetes-nodes" :> Lists("/api/v1/nodes") @@
  "rabbitmq" :> Lists("/api/overview") @@
  "rabbitmq-queue" :> Lists("/api/queues") @@
  "rabbitmq-login" :> Login(<<117, 58, 112>>, Lists("/api/overview")) @@
  "rabbitmq-longer" :> Login(<<117, 58, 112, 119>>, Lists("/api/overview")) @@
  "kubernetes-ssl" :> Pages("/healthz", {Page("200", <<"ok">>)}, {Page("500", <<"failed">>)}) @@
  "ceph" :> Pages("/api/auth", {Page("200", <<"token">>), Page("401", <<"denied">>)}, {Page("500", <<>>)}) @@
  "ceph-status" :> Pages("/api/status", {Page("200", <<"health", "health ok">>)},
     {Page("200", <<"health", "health warning">>), Page("200", <<"health", "health error">>),
      Page("401", <<"denied">>)}) @@
  "kafka-topics" :> Lists("/topics") @@
  "cassandra-jmx" :> Lists("/jolokia/read/java.lang:type=Runtime") @@
  "mongodb-http" :> Pages("/", {Page("200", <<"title", "MongoDB">>)}, {Page("200", <<"title">>)}) @@
  "couchbase" :> Pages("/pools/default", {Page("200", <<"rebalance none", "nodes">>)},
     {Page("200", <<"rebalance running", "nodes">>)}) @@
  "couchbase-nodes" :> Lists("/pools/default/nodes") @@
  "influxdb-ping" :> Pages("/ping", {<<"204", "blank">>}, {Page("503", <<>>)}) @@
  "influxdb-health" :> Pages("/health", {Page("200", <<"status pass">>)}, {Page("503", <<"status fail">>)}) @@
  "influxdb-databases" :> Lists("/query") @@
  "solr" :> Pages("/solr/admin/ping", {Page("200", <<"status 0", "status OK">>)},
     {Page("200", <<"status 0", "status disabled">>), Page("503", <<>>)}) @@
  "solr-cores" :> Lists("/solr/admin/cores") @@
  "prometheus" :> Lists("/metrics") @@
  "prometheus-metric" :> Pages("/metrics", {Page("200", <<"metric 4", "nl">>), Page("200", <<"metric 9", "nl">>)},
     {Page("200", <<"metric 4", "5", "nl">>), Page("200", <<"metric 9", "5", "nl">>), Page("200", <<"nl">>)}) @@
  "activemq" :> Pages("/api/jolokia/read/java.lang:type=Runtime", {Page("200", <<"VmName", "status 200">>)},
     {Page("200", <<"error", "status 404">>), Page("401", <<>>)}) @@
  "activemq-queues" :> Pages("/api/jolokia/read/org.apache.activemq:type=Broker",
     {Page("200", <<"queues">>)}, {Page("200", <<"error", "status 404">>)}) @@
  "phpfpm" :> Lists("/status") @@
  "phpfpm-ping" :> Pages("/ping", {Page("200", <<"pong">>)}, {Page("502", <<>>), Page("200", <<"page">>)}) @@
  "apache" :> Lists("/server-status")

ServerAnswer ==
  "redis" :> ("PING" :> Pinged @@ "INFO" :> Told) @@
  "redis-auth" :> ("AUTH" :> Authed @@ "PING" :> Pinged @@ "INFO" :> Told) @@
  "memcached" :> ("stats" :> Both({Grant(<<"STAT", "conns", "STAT", "hits", "END">>)},
                                  {Msg(<<"ERROR">>)})) @@
  "zk-ruok"   :> ("ruok" :> Both({Grant(<<"imok">>)}, {Msg(<<"refused", "nl">>)})) @@
  "zk-stat"   :> ("stat" :> Both({Grant(<<"version", "nl", "stats", "nl">>)},
                                 {Msg(<<"not serving", "nl">>)})) @@
  "zk-other"  :> ("ruok" :> Both({Grant(<<"imok">>)}, {Msg(<<"refused", "nl">>)})) @@
  "docker"    :> ("_ping" :> Both({Grant(PingPage)}, {Msg(ErrorPage)})) @@
  "docker-container" :> (
     "_ping"   :> Both({Msg(PingPage)}, {Msg(PingPage), Msg(ErrorPage)}) @@
     "inspect" :> Both({Grant(ContainerIn("running"))},
                       {Msg(ContainerIn("exited")), Msg(<<"404", "blank", "{">>)})) @@
  "etcd"    :> ("/health" :> Both({Grant(Page("200", <<"health true">>))},
                  {Msg(Page("200", <<"health false">>)), Msg(Page("503", <<"health false">>))})) @@
  [c \in {"grafana", "grafana-ssl"} |->
     Pages("/api/health", {Page("200", <<"database ok", "version">>)},
           {Page("503", <<"database failing">>)})] @@
  "vault-health" :> ("/v1/sys/health" :>
     Both({Grant(Page("200", <<"initialized true", "sealed false">>)),
           Grant(Page("429", <<"initialized true", "sealed false">>))},
          {Msg(Page("503", <<"initialized true", "sealed true">>)),
           Msg(Page("501", <<"initialized false", "sealed true">>))})) @@
  "vault-seal" :> ("/v1/sys/seal-status" :>
     Both({Grant(Page("200", <<"initialized true", "sealed false">>))},
          {Msg(Page("200", <<"initialized true", "sealed true">>))})) @@
  "consul" :> ("/v1/health/state/any" :>
     Both({Grant(Page("200", <<"passing", "passing">>))},
          {Msg(Page("200", <<"passing", "warning">>)), Msg(Page("200", <<"passing", "critical">>)),
           Msg(Page("200", <<"warning", "critical">>)), Msg(Page("500", <<>>))})) @@
  ApiAnswer

OneByte == {"-", "#", "{", "nl", "5", "quote", "leader 1st", "leader 2nd"}
=============================================================================
