----------------------------- MODULE FileChecks -----------------------------
(***************************************************************************)
(* The checks that look at files while others work on them: check_file_age,*)
(* check_file_size and check_log take several looks at one path,           *)
(* check_file_count and check_procs walk over directories.  Every system   *)
(* call is a step, and files come, grow, are truncated and go between      *)
(* them.                                                                   *)
(***************************************************************************)
EXTENDS Integers, Sequences, FiniteSets

CONSTANTS
  Jobs,       \* the command lines: records, see Job in the MC module
  Path,       \* the paths there may be
  Parent,     \* [Path -> Path \cup {"none"}]
  Name,       \* [Path -> sequence of characters]
  Trees,      \* [Jobs -> set of file systems at the start]
  Fresh,      \* [Jobs -> set of files that may be created]
  Kept,       \* the paths nobody removes
  MaxChanges  \* bound: how often the file system changes, or time passes

None == 0     \* no inode
ExitCode == {"OK", "WARNING", "CRITICAL", "UNKNOWN"}

VARIABLES
  job,        \* the command line
  at,         \* [Path -> inode or None]
  node,       \* the inodes, a sequence of [kind, lines, mtime]
  now,        \* the clock
  pc,         \* what the process does next, or how it ended
  held,       \* the inode of the open log
  pos,        \* the lines read from it
  stack,      \* the open directories, the innermost last
  entry,      \* what readdir() returned last in each of them
  count,      \* the matches or the files so far; then the age, the size
  before,     \* history: at, node and now at the start
  ever,       \* history: the paths that were there at some time
  rewritten,  \* history: the inodes that were truncated
  changes     \* how often something changed

files   == <<at, node, now>>
process == <<pc, held, pos, stack, entry, count>>
history == <<before, ever, rewritten, changes>>
vars == <<job, files, process, history>>

Children(d) == {p \in Path : Parent[p] = d}
IsDir(p)    == at[p] # None /\ node[at[p]].kind \in {"dir", "locked dir"}
CanOpen(p)  == at[p] # None /\ node[at[p]].kind \in {"file", "dir"}

-----------------------------------------------------------------------------
(* Thresholds and patterns. *)

\* check_procs with a minimum, the others with a maximum.
Breaks(bound, n) ==
  IF job.tool = "procs" THEN bound > 0 /\ n < bound ELSE bound >= 0 /\ n >= bound

Grade(n) == IF Breaks(job.critical, n) THEN "CRITICAL"
            ELSE IF Breaks(job.warning, n) THEN "WARNING" ELSE "OK"

\* matchesPattern(): both are read to their ends, run[p] being where the name is
\* when the pattern is at p.  A star goes to the first character that fits what
\* follows it, and never on from there; as the last it takes the rest.
Matches(name, pat) ==
  LET Star(from, to, next) == from <= to /\ to <= Len(name) /\ name[to] = next
                              /\ \A h \in from..(to - 1) : name[h] # next
  IN \/ pat = <<>>
     \/ \E run \in [1..(Len(pat) + 1) -> 1..(Len(name) + 1)] :
          /\ run[1] = 1 /\ run[Len(pat) + 1] = Len(name) + 1
          /\ \A p \in 1..Len(pat) :
               /\ run[p] <= Len(name)
               /\ IF pat[p] = "*"
                  THEN p < Len(pat) => Star(run[p], run[p + 1], pat[p + 1])
                  ELSE pat[p] \in {"?", name[run[p]]} /\ run[p + 1] = run[p] + 1

\* Does getline()'s line count?  What there is of an unfinished line ("hi", of
\* a "hit") does not match yet.
Counts(text) == (text = "hit") # job.invert

-----------------------------------------------------------------------------
Init ==
  /\ job \in Jobs
  /\ \E t \in Trees[job] : at = t.at /\ node = t.node /\ now = t.now
  /\ pc = CASE job.tool = "count" -> "isdir" [] job.tool = "procs" -> "opendir"
            [] OTHER -> "access"
  /\ held = None /\ pos = 0 /\ stack = <<>> /\ entry = <<>> /\ count = 0
  /\ before = [at |-> at, node |-> node, now |-> now]
  /\ ever = {p \in Path : at[p] # None}
  /\ rewritten = {}
  /\ changes = 0

Step(from, to) == pc = from /\ pc' = to /\ UNCHANGED <<job, files, history>>

\* fileExists().  mutant: a missing file is left to the next look
AccessLater ==
  /\ Step("access", IF job.tool = "log" THEN "open" ELSE "stat")
  /\ UNCHANGED <<held, pos, stack, entry, count>>

\* fileExists()
Access ==
  /\ Step("access", IF at[job.path] = None THEN IF job.okMissing THEN "OK" ELSE "CRITICAL"
                    ELSE IF job.tool # "log" THEN "stat"
                    ELSE IF job.query = "none" THEN "size" ELSE "open")
  /\ UNCHANGED <<held, pos, stack, entry, count>>

\* getFileAge() and getFileSize(): stat(), by path.  The time is read after it.
Stat ==
  LET missing == at[job.path] = None IN
  /\ Step("stat", IF missing THEN "UNKNOWN" ELSE IF job.tool = "age" THEN "clock"
                  ELSE Grade(Len(node[at[job.path]].lines)))
  /\ count' = IF missing THEN count ELSE IF job.tool = "age" THEN node[at[job.path]].mtime
              ELSE Len(node[at[job.path]].lines)
  /\ UNCHANGED <<held, pos, stack, entry>>

ReadClock ==
  /\ pc = "clock"
  /\ count' = now - count
  /\ Step("clock", IF count' < 0 THEN "UNKNOWN" ELSE Grade(count'))
  /\ UNCHANGED <<held, pos, stack, entry>>

\* countMatches(): the file is opened, then the pattern compiled.
OpenLog ==
  /\ Step("open", IF CanOpen(job.path) /\ job.query # "bad" THEN "read" ELSE "UNKNOWN")
  /\ held' = at[job.path]
  /\ UNCHANGED <<pos, stack, entry, count>>

\* getline(): an unfinished line is returned too, and is then the last.
ReadLine ==
  /\ pc = "read"
  /\ pos < Len(node[held].lines)
  /\ LET text == node[held].lines[pos + 1] IN
       /\ Step("read", IF text = "hi" THEN "size" ELSE "read")
       /\ count' = IF Counts(text) THEN count + 1 ELSE count
  /\ pos' = pos + 1
  /\ UNCHANGED <<held, stack, entry>>

EndOfLog ==
  /\ pc = "read"
  /\ pos >= Len(node[held].lines)
  /\ Step("read", "size")
  /\ UNCHANGED <<held, pos, stack, entry, count>>

\* The size of the log is reported only, and may be missing.
SizeOfLog ==
  /\ Step("size", Grade(count))
  /\ UNCHANGED <<held, pos, stack, entry, count>>

-----------------------------------------------------------------------------
Frame(p) == [dir |-> p, ino |-> at[p], there |-> {at[c] : c \in Children(p)} \ {None},
             listed |-> {}]
Top == stack[Len(stack)]
Entry == entry[Len(entry)]

\* check_file_count: isDirectory() of the directory itself
IsDirectory ==
  /\ Step("isdir", IF IsDir(job.path) THEN "opendir" ELSE "CRITICAL")
  /\ UNCHANGED <<held, pos, stack, entry, count>>

OpenDirectory ==
  /\ Step("opendir", IF CanOpen(job.path) /\ IsDir(job.path) THEN "scan" ELSE "UNKNOWN")
  /\ stack' = <<Frame(job.path)>>
  /\ UNCHANGED <<held, pos, entry, count>>

\* readdir(): entries that come or go while the directory is open may be returned.
ReadDirectory ==
  /\ pc = "scan"
  /\ \E p \in Children(Top.dir) \ Top.listed :
       /\ at[p] # None /\ at[Top.dir] = Top.ino
       /\ entry' = Append(entry, p)
       /\ stack' = [stack EXCEPT ![Len(stack)].listed = @ \cup {p}]
  /\ Step("scan", IF job.tool = "procs" THEN "cmdline" ELSE "entry")
  /\ UNCHANGED <<held, pos, count>>

\* mutant: directories are counted like files
StatEntryCounted ==
  /\ Step("entry", IF IsDir(Entry) /\ job.recursive THEN "descend" ELSE "count")
  /\ UNCHANGED <<held, pos, stack, entry, count>>

\* isDirectory() of an entry: one that is gone by now passes for a file.
StatEntry ==
  /\ Step("entry", IF ~IsDir(Entry) THEN "count" ELSE IF job.recursive THEN "descend"
                   ELSE "skip")
  /\ UNCHANGED <<held, pos, stack, entry, count>>

\* countFiles() of a subdirectory; -1 adds nothing.
Descend ==
  /\ Step("descend", IF CanOpen(Entry) /\ IsDir(Entry) THEN "scan" ELSE "skip")
  /\ stack' = IF CanOpen(Entry) /\ IsDir(Entry) THEN Append(stack, Frame(Entry)) ELSE stack
  /\ UNCHANGED <<held, pos, entry, count>>

\* "count": not a directory.  "skip": a directory, counted with -D.
CountEntry ==
  /\ pc \in {"count", "skip"}
  /\ Step(pc, "scan")
  /\ count' = IF (pc = "count" \/ job.dirs) /\ Matches(Name[Entry], job.pattern)
              THEN count + 1 ELSE count
  /\ entry' = SubSeq(entry, 1, Len(entry) - 1)
  /\ UNCHANGED <<held, pos, stack>>

\* check_procs: /proc/PID/cmdline, if the process is still there
ReadCmdline ==
  /\ Step("cmdline", "scan")
  /\ count' = IF job.query = "none" \/ (at[Entry] # None /\ node[at[Entry]].lines = <<"hit">>)
              THEN count + 1 ELSE count
  /\ entry' = SubSeq(entry, 1, Len(entry) - 1)
  /\ UNCHANGED <<held, pos, stack>>

\* The end of a directory: what was there when it was opened, and still is,
\* has been returned.
CloseDirectory ==
  /\ pc = "scan"
  /\ at[Top.dir] = Top.ino => \A p \in Children(Top.dir) : at[p] \in Top.there => p \in Top.listed
  /\ Step("scan", IF Len(stack) > 1 THEN "skip" ELSE Grade(count))
  /\ stack' = SubSeq(stack, 1, Len(stack) - 1)
  /\ UNCHANGED <<held, pos, entry, count>>

Process ==
  \/ Access \/ Stat \/ ReadClock \/ OpenLog \/ ReadLine \/ EndOfLog \/ SizeOfLog
  \/ IsDirectory \/ OpenDirectory \/ ReadDirectory \/ StatEntry \/ Descend \/ CountEntry
  \/ ReadCmdline \/ CloseDirectory

-----------------------------------------------------------------------------
(* The others. *)

Change ==
  /\ pc \notin ExitCode
  /\ changes < MaxChanges
  /\ changes' = changes + 1
  /\ UNCHANGED <<job, process, before>>

\* A new file; moving one away and creating it again is how logs are rotated.
Create(p) ==
  /\ Change
  /\ at[p] = None
  /\ Parent[p] # "none" => IsDir(Parent[p])
  /\ \E f \in Fresh[job] : node' = Append(node, [f EXCEPT !.mtime = now])
  /\ at' = [at EXCEPT ![p] = Len(node) + 1]
  /\ ever' = ever \cup {p}
  /\ UNCHANGED <<now, rewritten>>

Remove(p) ==
  /\ Change
  /\ p \notin Kept
  /\ at[p] # None
  /\ \A c \in Children(p) : at[c] = None
  /\ at' = [at EXCEPT ![p] = None]
  /\ UNCHANGED <<node, now, ever, rewritten>>

\* Lines are written, sometimes in two parts.
Write(n) ==
  /\ Change
  /\ job.tool \in {"age", "size", "log"}
  /\ node[n].kind = "file"
  /\ \E l \in {"hit", "miss", "hi"} :
       LET old == node[n].lines
           open == old # <<>> /\ old[Len(old)] = "hi"
       IN /\ open => l = "hit"
          /\ node' = [node EXCEPT ![n].mtime = now,
                        ![n].lines = IF open THEN [old EXCEPT ![Len(old)] = l]
                                     ELSE Append(old, l)]
  /\ UNCHANGED <<at, now, ever, rewritten>>

Truncate(n) ==
  /\ Change
  /\ job.tool \in {"age", "size", "log"}
  /\ node[n].kind = "file"
  /\ node' = [node EXCEPT ![n].lines = <<>>, ![n].mtime = now]
  /\ rewritten' = rewritten \cup {n}
  /\ UNCHANGED <<at, now, ever>>

Tick ==
  /\ Change
  /\ job.tool = "age"
  /\ now' = now + 1
  /\ UNCHANGED <<at, node, ever, rewritten>>

Others ==
  \/ \E p \in Path : Create(p) \/ Remove(p)
  \/ \E n \in DOMAIN node : Write(n) \/ Truncate(n)
  \/ Tick

Ended == pc \in ExitCode /\ UNCHANGED vars

Next == Process \/ Others \/ Ended

Spec == Init /\ [][Next]_vars
=============================================================================
