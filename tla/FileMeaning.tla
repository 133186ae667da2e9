---------------------------- MODULE FileMeaning ----------------------------
(***************************************************************************)
(* What the checks of FileChecks ought to count and report, whatever the   *)
(* others do meanwhile, and what command lines and file systems are.       *)
(***************************************************************************)
EXTENDS FileChecks

Single == {"age", "size", "log"}

\* The options have these types, only the checks of a single file take a missing
\* one for OK, and nothing above the path of the command line matters.
ASSUME JobAssumption ==
  /\ IsFiniteSet(Path) /\ "none" \notin Path
  /\ \A p \in Path : Parent[p] \in Path \cup {"none"}
  /\ \A p \in Path : Name[p] \in Seq(STRING)
  /\ \A j \in Jobs :
       /\ j.tool \in Single \cup {"count", "procs"}
       /\ j.path \in Path /\ Parent[j.path] = "none"
       /\ j.pattern \in Seq(STRING)
       /\ j.recursive \in BOOLEAN /\ j.dirs \in BOOLEAN
       /\ j.invert \in BOOLEAN /\ j.okMissing \in BOOLEAN
       /\ j.okMissing => j.tool \in Single
       /\ j.query \in {"none", "text", "bad"}
       /\ j.warning \in Int /\ j.critical \in Int

\* The lines of a file; "hi" is the first part of a line, and can only be last.
Lines == {l \in Seq({"hit", "miss", "hi"}) : \A k \in 1..(Len(l) - 1) : l[k] # "hi"}

Inodes == [kind : {"file", "locked", "dir", "locked dir"}, lines : Lines, mtime : Int]

\* A file system: what there is has a file, and is in a directory.
ASSUME TreeAssumption ==
  \A j \in Jobs :
    /\ Fresh[j] \subseteq Inodes
    /\ \A t \in Trees[j] :
         /\ t.node \in Seq(Inodes)
         /\ t.at \in [Path -> 0..Len(t.node)] /\ t.now \in Int
         /\ \A p \in Path : t.at[p] # None /\ Parent[p] # "none" =>
              t.at[Parent[p]] # None /\ t.node[t.at[Parent[p]]].kind \in {"dir", "locked dir"}
         /\ j.tool = "procs" => t.at[j.path] # None

-----------------------------------------------------------------------------
\* A wildcard as the usage text has it: the name is read along the pattern.
Glob(name, pat) ==
  \/ pat = <<>>
  \/ \E run \in [1..(Len(pat) + 1) -> 1..(Len(name) + 1)] :
       /\ run[1] = 1 /\ run[Len(pat) + 1] = Len(name) + 1
       /\ \A p \in 1..Len(pat) :
            IF pat[p] = "*" THEN run[p] <= run[p + 1]
            ELSE run[p] <= Len(name) /\ pat[p] \in {"?", name[run[p]]} /\ run[p + 1] = run[p] + 1

\* Was there from the start, and is.
Steady(p) == at[p] # None /\ at[p] = before.at[p]

\* All that is in a directory or in one of those inside it: the least set that
\* holds its entries and, with a path, the entries of that.
Inside ==
  [d \in Path |-> {p \in Path : \A S \in SUBSET Path :
                     Children(d) \subseteq S /\ (\A q \in S : Children(q) \subseteq S) => p \in S}]

Below == IF job.recursive THEN Inside[job.path] ELSE Children(job.path)

\* The directories on the way to p were there, and open, all the time.
Reached(p) == \A d \in Below : p \in Inside[d] => Steady(d) /\ CanOpen(d)

Plain(p) == ~IsDir(p) \/ job.dirs

\* The process runs the command that is looked for.
Runs(p) == job.query = "none" \/ node[at[p]].lines = <<"hit">>

Listed ==
  IF job.tool = "procs"
  THEN {p \in Children(job.path) : Steady(p) /\ Runs(p)}
  ELSE {p \in Below : Reached(p) /\ Steady(p) /\ Plain(p) /\ Matches(Name[p], job.pattern)}

\* A process that is gone may have matched.
Listable ==
  IF job.tool = "procs"
  THEN {p \in Children(job.path) \cap ever : Steady(p) => Runs(p)}
  ELSE {p \in Below \cap ever : (Steady(p) => Plain(p)) /\ Glob(Name[p], job.pattern)}

Wanted(lines) == {k \in DOMAIN lines : (lines[k] = "hit") # job.invert}
Whole(lines)  == {k \in Wanted(lines) : lines[k] # "hi"}
Unfinished    == IF job.invert THEN 1 ELSE 0

Least ==
  CASE job.tool = "age"  -> before.now - node[at[job.path]].mtime
    [] job.tool = "size" -> Len(before.node[before.at[job.path]].lines)
    [] job.tool = "log"  -> IF job.query = "none" THEN 0
                            ELSE Cardinality(Whole(before.node[before.at[job.path]].lines))
    [] OTHER             -> Cardinality(Listed)

Most ==
  CASE job.tool = "age"  -> now - before.node[before.at[job.path]].mtime
    [] job.tool = "size" -> Len(node[at[job.path]].lines)
    [] job.tool = "log"  -> IF job.query = "none" THEN 0
                            ELSE Cardinality(Whole(node[at[job.path]].lines)) + Unfinished
    [] OTHER             -> Cardinality(Listable)

\* The path was there all the time, can be read, and has only grown.
Sound ==
  /\ Steady(job.path)
  /\ at[job.path] \notin rewritten
  /\ CASE job.tool = "age"  -> before.node[at[job.path]].mtime <= before.now
       [] job.tool = "size" -> TRUE
       [] job.tool = "log"  -> job.query # "bad" /\ node[at[job.path]].kind = "file"
       [] OTHER             -> node[at[job.path]].kind = "dir"

-----------------------------------------------------------------------------
\* Whatever comes and goes meanwhile: the count holds every file, process or
\* whole line that was there from start to end, and nothing that never was; an
\* age or a size is that of some moment of the run.
CountBetween == pc \in ExitCode /\ Sound => count \in Least..Most

\* The status is that of such a count, and a path that is never there is
\* reported missing; UNKNOWN only comes of a path that changed or is closed.
VerdictFits ==
  pc \in ExitCode =>
    /\ Sound => pc \in {Grade(n) : n \in Least..Most}
    /\ job.path \notin ever => pc = IF job.okMissing THEN "OK" ELSE "CRITICAL"
=============================================================================
