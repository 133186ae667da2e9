----------------------------- MODULE MCHostCheck -----------------------------
(***************************************************************************)
(* Thresholds for TLC: command lines of up to two groups for every plugin, *)
(* and the readings of the host checks.                                    *)
(***************************************************************************)
EXTENDS Thresholds, OptionTables, SequencesExt

Two     == NumberOf("2", 2)
Four    == NumberOf("4", 4)
Name    == Word("name", FALSE, "", <<<<>>>>)
Type(t) == Word(t, FALSE, "", <<<<>>>>)
Dashed  == Word("-p", TRUE, "", <<<<>>>>)   \* a value that looks like an option
Fifth   == Word("20%", FALSE, "percent", <<<<20>>>>)
Pair    == Word("2,4", FALSE, "comma", <<<<2>>, <<4>>>>)
Triple  == Word("4,2,2", FALSE, "comma", <<<<4>>, <<2>>, <<2>>>>)
MinMax  == Word("2:4", FALSE, "colon", <<<<2>>, <<4>>>>)
Broken  == Word("2,x", FALSE, "comma", <<<<2>>, <<>>>>)
Opt(o)  == Word(o, TRUE, "", <<<<>>>>)
Stray   == {<<Name>>, <<NumberOf("spare", 0)>>, <<Opt("-Z")>>, <<Opt("-h")>>}

\* The words tried after an option.
Words(p, o) ==
  CASE o.kind = "text"   -> {Name, Dashed} \cup
         (IF p = "dig" /\ o.opt = "-t" THEN {Type("AAAA"), Type("MX")} ELSE {})
    [] o.kind = "number" -> {Two, Four, Name} \cup
         (IF p = "imap" /\ o.opt = "-p" THEN {NumberOf("143", 143)} ELSE {}) \cup
         (IF p = "sensors" THEN {NumberOf("80", 80)} ELSE {})
    [] o.kind = "list"   -> {Two, Pair, Triple, Broken}
    [] o.kind = "range"  -> {Four, MinMax, Name}
    [] o.kind = "pair"   -> {Two, Pair, Broken}
    [] o.kind = "share"  -> {Two, Fifth, Name}

GroupsOf(p) ==
  Stray \cup UNION {IF o.kind = "flag" THEN {<<Opt(o.opt)>>}
                    ELSE {<<Opt(o.opt), w>> : w \in Words(p, o)} : o \in Parsers[p].opts}

\* An option without its word, which can only be the last.
Cut(p) == {<<Opt(o.opt)>> : o \in {x \in Parsers[p].opts : x.kind # "flag"}}

Host == <<Opt("-H"), Name>>

MCLines ==
  [p \in DOMAIN Parsers |->
     LET g1 == {<<a>> : a \in GroupsOf(p)}
         g2 == {<<a, b>> : a \in GroupsOf(p), b \in GroupsOf(p) \cup Cut(p)}
     IN  {[groups |-> g, words |-> FlattenSeq(g),
           starts |-> [k \in 1..(Len(g) + 1) |-> 1 + Len(FlattenSeq(SubSeq(g, 1, k - 1)))]] :
            g \in {<<>>} \cup g1 \cup g2 \cup
                  (IF p \in Remote THEN {<<Host>> \o h : h \in g2} ELSE {})}]

DiskInfo(total, free, available, readable) ==
  [total |-> total, free |-> free, available |-> available, readable |-> readable]

MCReadings ==
  "load"    :> [{"1", "5", "15"} -> {1, 4}] @@
  "users"   :> [{"users"} -> 0..4] @@
  "uptime"  :> [{"days"} -> {0, 1, 2, 3, 4}] @@
  "procs"   :> [{"procs"} -> 0..5] @@
  "overcr"  :> [committed : {0, 1, 3, 5}, limit : {0, 70, 100}] @@
  "nwstat"  :> [{"Rx", "Tx"} -> {2, 3, 5}] @@
  "swap"    :> {[total |-> 10, free |-> f] : f \in {0, 1, 2, 4}} \cup {[total |-> 0, free |-> 0]} @@
  "sensors" :> [raw : {{}, {-5}, {3}, {2, 75000}, {90}, {1000}}] @@
  "dns"     :> [addresses : {{}, {"name"}, {"-p"}, {"name", "-p"}}] @@
  "dig"     :> [A : {{}, {{"name"}}, {{}, {"-p"}}}, AAAA : {{}, {{"name", "-p"}}, {{}}}] @@
  "rpc"     :> [answers : BOOLEAN] @@
  "mrtg"    :> [opens : BOOLEAN] @@
  "ssl_validity" :>
    [answers : {TRUE}, openssl : {TRUE}, trusted : BOOLEAN,
     left : {-30, 3, 50, 74, 99, 121, 200, 800}, zone : {-9, 0, 5}] \cup
    [answers : BOOLEAN, openssl : {FALSE}, trusted : {FALSE}, left : {-30, 800}, zone : {0}] @@
  "disk"    :> {DiskInfo(100, 40, 40, TRUE), DiskInfo(100, 8, 3, TRUE), DiskInfo(100, 5, 0, TRUE),
                DiskInfo(100, 1, 1, TRUE), DiskInfo(0, 0, 0, TRUE), DiskInfo(100, 40, 40, FALSE)}

-----------------------------------------------------------------------------
\* The options that take a number, by the usage texts: PORT, SECONDS, COUNT, ...
Numeric(p, o) ==
  \/ o \in {"-T", "-j", "-v", "-w", "--critical"}
  \/ o = "-p" /\ p # "file_count"
  \/ o = "-P" /\ p \in {"kafka", "mongodb"}
  \/ o = "-i" /\ p = "fping"
  \/ o = "-c" /\ \E w \in Parsers[p].opts : w.opt = "-w"
  \/ o = "-t" /\ p \notin {"cluster", "dig", "game", "consul", "kubernetes", "nomad",
                            "vault", "mrtg", "sip"}

MCNumbers == [p \in DOMAIN Parsers |-> {o \in {x.opt : x \in Parsers[p].opts} : Numeric(p, o)}]

=============================================================================
