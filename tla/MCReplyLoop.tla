---------------------------- MODULE MCReplyLoop ----------------------------
(***************************************************************************)
(* WholeLoop, KeyedLoop and ReplyLoop with the tables of ReplyProtocols.   *)
(***************************************************************************)
EXTENDS WholeLoop, ReplyProtocols

\* The checks of the runs; those that accept any answer; those whose tests can
\* miss a state that did not arrive (a list without "critical"); those that stop
\* at the end of a segment; the one that reads one line of its reply; the
\* one whose good answer has no body, which httpGet()'s callers take for none;
\* the one whose credentials are not a multiple of three bytes; and those that
\* judge the first record of the answer, which may end before the body.
LoopChecks  == DOMAIN Scripts
Lenient     == {"zk-other", "https", "https-string", "etcd-other", "kubernetes-other",
                "influxdb-other", "ceph-other"}
Absent      == {"vault-seal", "consul", "elasticsearch", "couchbase",
                "prometheus-metric", "activemq-queues", "ceph-status"}
RedisChecks == {"redis", "redis-auth"}
FirstLine   == {"zk-stat"}
InfluxPing  == {"influxdb-ping", "influxdb-other"}
Unpadded    == {"rabbitmq-longer"}
OneRecord   == {"https", "https-string"}
BodyUnread  == {"https-string"}

\* The others are keyed: their tests look for an atom of the granting answer
\* alone, for most APIs the status 200.
KeyedChecks == LoopChecks \ (Lenient \cup Absent)

KeyAtoms ==
  [c \in RedisChecks |-> {"+PONG"}] @@ "memcached" :> {"STAT"} @@
  "zk-ruok" :> {"imok"} @@ "zk-stat" :> {"version"} @@
  "docker" :> {"200 OK", "body OK"} @@ "docker-container" :> {"running"} @@
  "etcd" :> {"health true"} @@ "nomad" :> {"leader 2nd"} @@
  "consul-leader" :> {"leader 2nd"} @@ "solr" :> {"status OK"} @@
  "mongodb-http" :> {"MongoDB"} @@ "activemq" :> {"VmName"} @@ "phpfpm-ping" :> {"pong"} @@
  "vault-health" :> {"200", "429"} @@ "ceph" :> {"200", "401"} @@
  "influxdb-ping" :> {"200", "204"} @@ [c \in KeyedChecks |-> {"200"}]

\* check_redis asks for INFO after the PONG that shows it to be alive.
AfterKey == [c \in KeyedChecks |-> IF c \in RedisChecks THEN {"info"} ELSE {}]

\* Those that read replies to the end, and those whose healthy answers pass.
WholeChecks      == LoopChecks \ (RedisChecks \cup FirstLine \cup OneRecord)
AnswerableChecks == LoopChecks \ (InfluxPing \cup Unpadded \cup BodyUnread)

-----------------------------------------------------------------------------
\* Every check that sets a timeout ends, also when the server answers nothing.
Terminates == <>(pc \in Done \/ check \in Untimed)
=============================================================================
