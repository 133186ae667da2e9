---------------------------- MODULE MCFileChecks ----------------------------
(***************************************************************************)
(* FileChecks for TLC: command lines and file systems.                     *)
(***************************************************************************)
EXTENDS FileMeaning, TLC

\* "/" stands for the one path of the checks of a single file.
Parents == "log" :> "none" @@ "dir" :> "none" @@ "dir/a" :> "dir" @@ "dir/d" :> "dir" @@
           "dir/d/b" :> "dir/d" @@ "/proc" :> "none" @@ "self" :> "/proc" @@ "p" :> "/proc" @@
           "q" :> "/proc"
Paths == DOMAIN Parents
Names == [p \in Paths |-> CASE p = "dir/a" -> <<"a">> [] p = "dir/d" -> <<"a", "d">>
                            [] p = "dir/d/b" -> <<"a", "b", "a", "b">> [] OTHER -> <<>>]
Stay == {"/proc", "self", "dir"}

Job(tool, path) ==
  [tool |-> tool, path |-> path, pattern |-> <<>>, recursive |-> FALSE, dirs |-> FALSE,
   invert |-> FALSE, okMissing |-> FALSE, query |-> "none", warning |-> -1, critical |-> 2]

SingleJobs ==
  {[Job("age", "log") EXCEPT !.warning = 1, !.okMissing = o] : o \in BOOLEAN} \cup
  {[Job("size", "log") EXCEPT !.warning = w] : w \in {-1, 1}} \cup
  {[Job("log", "log") EXCEPT !.warning = 1, !.query = q, !.invert = v] :
     q \in {"none", "text", "bad"}, v \in BOOLEAN}

Patterns == {<<>>, <<"a", "*">>, <<"*", "b">>, <<"?">>, <<"*", "*", "d">>}

CountJobs ==
  {[Job("count", "dir") EXCEPT !.pattern = pat, !.recursive = r, !.dirs = d, !.warning = 1] :
     pat \in Patterns, r \in BOOLEAN, d \in BOOLEAN}

ProcsJobs ==
  {[Job("procs", "/proc") EXCEPT !.query = q] : q \in {"none", "text"}}

AllJobs == SingleJobs \cup CountJobs \cup ProcsJobs

-----------------------------------------------------------------------------
File(lines, mtime) == [kind |-> "file", lines |-> lines, mtime |-> mtime]
Other(kind) == [kind |-> kind, lines |-> <<>>, mtime |-> 1]

\* A file system: "there" names its paths, with the files they are.
FileSystem(there) ==
  LET ino == CHOOSE f \in [DOMAIN there -> 1..Cardinality(DOMAIN there)] :
               \A p, q \in DOMAIN there : f[p] = f[q] => p = q
  IN [at   |-> [p \in Paths |-> IF p \in DOMAIN there THEN ino[p] ELSE None],
      node |-> [n \in 1..Cardinality(DOMAIN there) |->
                  there[CHOOSE p \in DOMAIN there : ino[p] = n]],
      now  |-> 3]

Logs == {File(<<>>, 4), File(<<"hit", "miss">>, 2), File(<<"miss", "hit", "hi">>, 1),
         Other("locked")}

MCTrees ==
  [j \in AllJobs |->
     CASE j.tool \in {"age", "size", "log"} ->
            {FileSystem(<<>>)} \cup {FileSystem("log" :> f) : f \in Logs}
       [] j.tool = "count" ->
            {FileSystem(<<>>), FileSystem("dir" :> File(<<>>, 1))} \cup
            {FileSystem("dir" :> Other("dir") @@ "dir/d" :> Other(k) @@ t) :
               k \in {"dir", "locked dir"},
               t \in {"dir/a" :> File(<<>>, 1), "dir/d/b" :> File(<<>>, 1)}}
       [] j.tool = "procs" ->
            {FileSystem("/proc" :> Other("dir") @@ "self" :> File(<<"hit">>, 1) @@
                        "p" :> File(<<t>>, 1)) : t \in {"hit", "miss"}}]

New ==
  [j \in AllJobs |->
     CASE j.tool = "count" -> {File(<<>>, 1), Other("dir")}
       [] j.tool = "procs" -> {File(<<"hit">>, 1), File(<<"miss">>, 1)}
       [] OTHER            -> {File(<<"hit">>, 1)}]
=============================================================================
