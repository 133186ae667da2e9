-------------------------- MODULE FileChecks_proofs --------------------------
(***************************************************************************)
(* Proofs about FileChecks: whatever the others create, write, truncate    *)
(* and remove between two system calls, however often, a count lies        *)
(* between what was there throughout and what was ever there, and the      *)
(* status is that of such a count.                                         *)
(***************************************************************************)
EXTENDS FileMeaning, FiniteSetTheorems, SequenceTheorems, TLAPS

-----------------------------------------------------------------------------
(* Names and directories, which do not change. *)

\* What the loop of matchesPattern() accepts, a glob does: the run along the
\* name is the same.
LEMMA MatchIsGlob ==
  ASSUME NEW name \in Seq(STRING), NEW pat \in Seq(STRING), Matches(name, pat)
  PROVE  Glob(name, pat)
<1>1. CASE pat = <<>>
  BY <1>1 DEF Glob
<1>2. CASE pat # <<>>
  <2>1. PICK run \in [1..(Len(pat) + 1) -> 1..(Len(name) + 1)] :
          /\ run[1] = 1 /\ run[Len(pat) + 1] = Len(name) + 1
          /\ \A p \in 1..Len(pat) :
               /\ run[p] <= Len(name)
               /\ IF pat[p] = "*"
                  THEN p < Len(pat) => run[p] <= run[p + 1]
                  ELSE pat[p] \in {"?", name[run[p]]} /\ run[p + 1] = run[p] + 1
    BY <1>2 DEF Matches
  <2>2. ASSUME NEW p \in 1..Len(pat), pat[p] = "*" PROVE run[p] <= run[p + 1]
    BY <2>1, <2>2
  <2> QED
    BY <2>1, <2>2 DEF Glob
<1> QED
  BY <1>1, <1>2

\* Inside[d] holds the entries of d and of all its paths, and is the least such
\* set: what does, holds Inside[d].
LEMMA InsideIsLeast ==
  ASSUME NEW d \in Path
  PROVE  /\ Inside[d] \subseteq Path
         /\ Children(d) \subseteq Inside[d]
         /\ \A q \in Inside[d] : Children(q) \subseteq Inside[d]
         /\ \A S \in SUBSET Path :
              Children(d) \subseteq S /\ (\A q \in S : Children(q) \subseteq S)
                => Inside[d] \subseteq S
<1> DEFINE Closed(S) == Children(d) \subseteq S /\ (\A q \in S : Children(q) \subseteq S)
<1>1. Inside[d] = {p \in Path : \A S \in SUBSET Path : Closed(S) => p \in S}
  BY DEF Inside
<1>2. \A q : Children(q) \subseteq Path
  BY DEF Children
<1> HIDE DEF Closed
<1>3. \A S \in SUBSET Path : Closed(S) => Inside[d] \subseteq S
  BY <1>1
<1>4. Children(d) \subseteq Inside[d]
  BY <1>1, <1>2 DEF Closed
<1>5. ASSUME NEW q \in Inside[d] PROVE Children(q) \subseteq Inside[d]
  <2> SUFFICES ASSUME NEW p \in Children(q), NEW S \in SUBSET Path, Closed(S) PROVE p \in S
    BY <1>1, <1>2
  <2>1. q \in S
    BY <1>3
  <2> QED
    BY <2>1 DEF Closed
<1> QED
  BY <1>1, <1>3, <1>4, <1>5 DEF Closed

-----------------------------------------------------------------------------
(* The inductive invariant. *)

Stages ==
  CASE job.tool = "age"   -> {"access", "stat", "clock"}
    [] job.tool = "size"  -> {"access", "stat"}
    [] job.tool = "log"   -> {"access", "open", "read", "size"}
    [] job.tool = "count" -> {"isdir", "opendir", "scan", "entry", "descend", "count", "skip"}
    [] job.tool = "procs" -> {"opendir", "scan", "cmdline"}

Frames == [dir : Path, ino : Nat, there : SUBSET Nat, listed : SUBSET Path]

TypeOK ==
  /\ job \in Jobs
  /\ node \in Seq(Inodes) /\ at \in [Path -> 0..Len(node)] /\ now \in Int
  /\ before.node \in Seq(Inodes) /\ before.at \in [Path -> 0..Len(before.node)] /\ before.now \in Int
  /\ ever \subseteq Path /\ rewritten \subseteq Nat
  /\ pc \in Stages \cup ExitCode
  /\ held \in Nat /\ pos \in Nat /\ count \in Int
  /\ stack \in Seq(Frames) /\ entry \in Seq(Path)

\* Lines are appended, or the last is finished.
Extends(a, b) == Len(a) <= Len(b) /\ \A k \in 1..Len(a) : a[k] # "hi" => b[k] = a[k]

\* What the others make of the files that were there at the start; a file is in
\* a directory.
History ==
  /\ Len(before.node) <= Len(node) /\ before.now <= now
  /\ \A n \in 1..Len(before.node) :
       /\ n \notin rewritten => Extends(before.node[n].lines, node[n].lines)
       /\ before.node[n].mtime <= before.now =>
            before.node[n].mtime <= node[n].mtime /\ node[n].mtime <= now
  /\ \A p \in Path : at[p] # None \/ before.at[p] # None => p \in ever
  /\ \A p \in Path : at[p] # None /\ Parent[p] # "none" => IsDir(Parent[p])

\* A path that was never there is only looked for once.
Missing == pc \notin ExitCode /\ job.path \notin ever => pc \in {"access", "isdir"}

\* check_file_age between stat() and the clock: the time of some moment so far.
AgeInv ==
  pc = "clock" /\ Steady(job.path) /\ before.node[at[job.path]].mtime <= before.now =>
    /\ before.node[at[job.path]].mtime <= count /\ count <= node[at[job.path]].mtime
    /\ count <= now

\* check_log has read the first lines, and none that was unfinished.
Fits(text) == (text = "hit") # job.invert

ReadSoFar(lines) ==
  /\ pos <= Len(lines) /\ \A k \in 1..pos : lines[k] # "hi"
  /\ count = Cardinality({k \in 1..pos : Fits(lines[k])})

LogInv ==
  /\ pc = "open" => pos = 0 /\ count = 0
  /\ pc = "access" => pos = 0 /\ count = 0
  /\ pc \in {"open", "read"} => job.query # "none"
  /\ pc = "read" =>
       /\ held \in 1..Len(node) /\ (Steady(job.path) => held = at[job.path])
       /\ held \notin rewritten => ReadSoFar(node[held].lines)
  /\ pc = "size" /\ Sound => count \in Least..Most

\* The process has ended.
Done ==
  pc \in ExitCode =>
    /\ Sound => count \in Least..Most /\ pc = Grade(count)
    /\ job.path \notin ever => pc = IF job.okMissing THEN "OK" ELSE "CRITICAL"

\* The walk of check_file_count and check_procs.  O holds the directories that
\* were opened, V the paths that were returned, and C those that were counted.
Pending  == {entry[i] : i \in 1..Len(entry)}
OpenDirs == {stack[i].dir : i \in 1..Len(stack)}

\* The open directories are inside each other, along the entries.
Shape ==
  /\ Len(stack) >= 1 /\ stack[1].dir = job.path
  /\ Len(entry) = IF pc = "scan" THEN Len(stack) - 1 ELSE Len(stack)
  /\ \A i, j \in 1..Len(stack) : stack[i].dir = stack[j].dir => i = j
  /\ \A i \in 1..Len(entry) :
       Parent[entry[i]] = stack[i].dir /\ entry[i] \in stack[i].listed
  /\ \A i \in 1..Len(stack) : i > 1 => stack[i].dir = entry[i - 1]

\* Each path is returned once, by the directory it is in.
Seen(V, O) ==
  /\ V \subseteq ever /\ OpenDirs \subseteq O /\ O \subseteq V \cup {job.path}
  /\ O = {job.path} \/ (job.tool = "count" /\ job.recursive)
  /\ \A v \in V : Parent[v] \in O
  /\ job.tool = "count" => V \subseteq Below
  /\ \A i \in 1..Len(stack) : stack[i].listed = {v \in V : Parent[v] = stack[i].dir}

\* What was in a directory when it was opened and still is has been returned
\* when it is closed.
Scanned(V, O) ==
  /\ \A o \in O : Steady(o) => IsDir(o)
  /\ \A i \in 1..Len(stack) : Steady(stack[i].dir) => stack[i].ino = at[stack[i].dir]
  /\ \A i \in 1..Len(stack) : \A c \in Children(stack[i].dir) : Steady(c) => at[c] \in stack[i].there
  /\ \A o \in O \ OpenDirs : Steady(o) => \A c \in Children(o) : Steady(c) => c \in V

\* The entry at hand.
AtEntry(O) ==
  /\ pc \in {"entry", "descend"} => Entry \notin O
  /\ pc = "descend" => job.recursive
  /\ pc \in {"descend", "skip"} /\ Steady(Entry) => IsDir(Entry)
  /\ pc = "count" /\ Steady(Entry) => ~IsDir(Entry)
  /\ pc = "skip" /\ job.recursive /\ Steady(Entry) /\ CanOpen(Entry) => Entry \in O

\* What is counted once it has been dealt with, whatever became of it; and what
\* must be, if it was there throughout.
May(p) ==
  IF job.tool = "procs" THEN Steady(p) => Runs(p)
  ELSE (Steady(p) => Plain(p)) /\ Matches(Name[p], job.pattern)

Must(p) == Steady(p) /\ May(p)

Counted(C, V, O) ==
  /\ C \subseteq V \ Pending /\ count = Cardinality(C)
  /\ \A c \in C : May(c)
  /\ \A v \in V \ Pending : Must(v) => v \in C
  /\ \A v \in V \ Pending :
       job.tool = "count" /\ job.recursive /\ Steady(v) /\ IsDir(v) /\ CanOpen(v) => v \in O

Walk(C, V, O) == Shape /\ Seen(V, O) /\ Scanned(V, O) /\ AtEntry(O) /\ Counted(C, V, O)

Walking ==
  /\ pc \in {"isdir", "opendir"} => count = 0 /\ entry = <<>>
  /\ pc \in {"scan", "entry", "descend", "count", "skip", "cmdline"} =>
       \E C, V, O \in SUBSET Path : Walk(C, V, O)

IInv == TypeOK /\ History /\ Missing /\ AgeInv /\ LogInv /\ Walking /\ Done

-----------------------------------------------------------------------------
(* The others. *)

\* What a step of the others may do.
Meanwhile ==
  /\ UNCHANGED <<job, process, before>> /\ pc \notin ExitCode
  /\ node' \in Seq(Inodes) /\ at' \in [Path -> 0..Len(node')] /\ now' \in Int
  /\ ever \subseteq ever' /\ ever' \subseteq Path /\ rewritten \subseteq rewritten'
  /\ rewritten' \subseteq Nat
  /\ Len(node) <= Len(node') /\ now <= now'
  /\ \A n \in 1..Len(node) :
       /\ node'[n].kind = node[n].kind
       /\ job.tool \notin Single => node'[n] = node[n]
       /\ n \notin rewritten' => Extends(node[n].lines, node'[n].lines)
       /\ node[n].mtime <= now => node[n].mtime <= node'[n].mtime /\ node'[n].mtime <= now'
  /\ \A p \in Path : at'[p] = at[p] \/ at'[p] = None \/ at'[p] > Len(node)
  /\ \A p \in Path : at'[p] # None => p \in ever'
  /\ \A p \in Path : at'[p] # None /\ Parent[p] # "none" => IsDir(Parent[p])'

LEMMA ExtendsSelf == ASSUME NEW a \in Lines PROVE Extends(a, a)
BY DEF Extends, Lines

LEMMA ExtendsTransitive ==
  ASSUME NEW a \in Lines, NEW b \in Lines, NEW c \in Lines, Extends(a, b), Extends(b, c)
  PROVE  Extends(a, c)
<1>1. Len(a) \in Nat /\ Len(b) \in Nat /\ Len(c) \in Nat
  BY DEF Lines
<1> QED
  BY <1>1 DEF Extends

\* An inode of a sequence of inodes.
LEMMA InodeType ==
  ASSUME NEW s \in Seq(Inodes), NEW n \in 1..Len(s)
  PROVE  /\ s[n] \in Inodes /\ s[n].lines \in Lines /\ s[n].mtime \in Int
         /\ s[n].lines \in Seq({"hit", "miss", "hi"}) /\ Len(s[n].lines) \in Nat
<1>1. s[n] \in Inodes
  BY ElementOfSeq
<1>2. s[n].lines \in Lines /\ s[n].mtime \in Int
  BY <1>1 DEF Inodes
<1> QED
  BY <1>1, <1>2 DEF Lines

LEMMA CreateIsMeanwhile == ASSUME IInv, NEW p \in Path, Create(p) PROVE Meanwhile
<1>1. PICK f \in Fresh[job] : node' = Append(node, [f EXCEPT !.mtime = now])
  BY DEF Create
<1> DEFINE g == [f EXCEPT !.mtime = now]
<1>2. g \in Inodes
  <2>1. f \in Inodes
    BY TreeAssumption DEF IInv, TypeOK
  <2>2. now \in Int
    BY DEF IInv, TypeOK
  <2> QED
    BY <2>1, <2>2 DEF Inodes
<1>3. node \in Seq(Inodes) /\ at \in [Path -> 0..Len(node)] /\ now \in Int /\ Len(node) \in Nat
  BY DEF IInv, TypeOK
<1> HIDE DEF g
<1>4. /\ node' \in Seq(Inodes) /\ Len(node') = Len(node) + 1
      /\ \A n \in 1..Len(node) : node'[n] = node[n]
  BY <1>1, <1>2, <1>3 DEF g
<1>5. at' = [at EXCEPT ![p] = Len(node) + 1] /\ at[p] = None
  BY DEF Create
<1>6. at' \in [Path -> 0..Len(node')] /\ \A q \in Path : q # p => at'[q] = at[q]
  BY <1>3, <1>4, <1>5
<1>7. \A n \in 1..Len(node) : Extends(node[n].lines, node[n].lines)
  BY <1>3, InodeType, ExtendsSelf
<1>8. ever' = ever \cup {p} /\ now' = now /\ rewritten' = rewritten /\ pc \notin ExitCode
      /\ UNCHANGED <<job, process, before>>
  BY DEF Create, Change
<1>9. \A q \in Path : at'[q] # None /\ Parent[q] # "none" => IsDir(Parent[q])'
  <2> SUFFICES ASSUME NEW q \in Path, at'[q] # None, Parent[q] # "none"
               PROVE  IsDir(Parent[q])'
    OBVIOUS
  <2>1. IsDir(Parent[q])
    BY <1>6 DEF Create, IInv, History
  <2>2. Parent[q] \in Path /\ at[Parent[q]] # None /\ at[Parent[q]] \in 1..Len(node)
    <3>1. Parent[q] \in Path
      BY JobAssumption
    <3>2. at[Parent[q]] \in 0..Len(node) /\ at[Parent[q]] # None
      BY <2>1, <3>1, <1>3 DEF IsDir
    <3> QED
      BY <3>1, <3>2, <1>3 DEF None
  <2>3. Parent[q] # p
    BY <2>2, <1>5
  <2> QED
    BY <2>1, <2>2, <2>3, <1>4, <1>6 DEF IsDir
<1>10. \A q \in Path : at'[q] # None => q \in ever'
  BY <1>6, <1>8 DEF IInv, History
<1>11. \A q \in Path : at'[q] = at[q] \/ at'[q] = None \/ at'[q] > Len(node)
  BY <1>3, <1>5, <1>6
<1>12. ever \subseteq ever' /\ ever' \subseteq Path /\ rewritten' \subseteq Nat
  BY <1>8 DEF IInv, TypeOK
<1>13. \A n \in 1..Len(node) : node[n].mtime \in Int
  BY <1>3, InodeType
<1> QED
  BY <1>3, <1>4, <1>6, <1>7, <1>8, <1>9, <1>10, <1>11, <1>12, <1>13 DEF Meanwhile

LEMMA RemoveIsMeanwhile == ASSUME IInv, NEW p \in Path, Remove(p) PROVE Meanwhile
<1>1. node' = node /\ now' = now /\ rewritten' = rewritten /\ ever' = ever /\ pc \notin ExitCode
      /\ UNCHANGED <<job, process, before>> /\ at' = [at EXCEPT ![p] = None]
  BY DEF Remove, Change
<1>2. node \in Seq(Inodes) /\ at \in [Path -> 0..Len(node)] /\ now \in Int /\ Len(node) \in Nat
      /\ ever \subseteq Path /\ rewritten \subseteq Nat
  BY DEF IInv, TypeOK
<1>3. /\ at' \in [Path -> 0..Len(node)] /\ \A q \in Path : q # p => at'[q] = at[q]
      /\ at'[p] = None
  BY <1>1, <1>2 DEF None
<1>4. \A n \in 1..Len(node) : Extends(node[n].lines, node[n].lines) /\ node[n].mtime \in Int
  BY <1>2, InodeType, ExtendsSelf
<1>5. ASSUME NEW q \in Path, at'[q] # None, Parent[q] # "none" PROVE IsDir(Parent[q])'
  <2>1. at[q] # None /\ q # p
    BY <1>3, <1>5
  <2>2. IsDir(Parent[q]) /\ Parent[q] \in Path
    BY <1>5, <2>1, JobAssumption DEF IInv, History
  <2>3. Parent[q] # p
    BY <2>1 DEF Remove, Children
  <2> QED
    BY <2>2, <2>3, <1>1, <1>3 DEF IsDir
<1>6. \A q \in Path : at'[q] # None => q \in ever'
  BY <1>1, <1>3 DEF IInv, History
<1> QED
  BY <1>1, <1>2, <1>3, <1>4, <1>5, <1>6 DEF Meanwhile

\* A file is written over.
LEMMA RewriteIsMeanwhile ==
  ASSUME IInv, Change, NEW n \in 1..Len(node), NEW g \in Inodes,
         job.tool \in Single,
         g.kind = node[n].kind, g.mtime = now,
         node' = [node EXCEPT ![n] = g], UNCHANGED <<at, now, ever>>,
         rewritten' = rewritten \/ rewritten' = rewritten \cup {n},
         n \in rewritten' \/ Extends(node[n].lines, g.lines)
  PROVE  Meanwhile
<1>1. node \in Seq(Inodes) /\ at \in [Path -> 0..Len(node)] /\ now \in Int /\ Len(node) \in Nat
      /\ ever \subseteq Path /\ rewritten \subseteq Nat
  BY DEF IInv, TypeOK
<1>2. /\ node' \in Seq(Inodes) /\ Len(node') = Len(node)
      /\ \A m \in 1..Len(node) : node'[m] = IF m = n THEN g ELSE node[m]
  <2>1. DOMAIN node = 1..Len(node)
    BY <1>1
  <2> QED
    BY <1>1, <2>1
<1>3. \A m \in 1..Len(node) : Extends(node[m].lines, node[m].lines) /\ node[m].mtime \in Int
  BY <1>1, InodeType, ExtendsSelf
<1>4. \A m \in 1..Len(node) : node'[m].kind = node[m].kind
  BY <1>2
<1>5. \A m \in 1..Len(node) : m \notin rewritten' => Extends(node[m].lines, node'[m].lines)
  BY <1>2, <1>3
<1>6. \A m \in 1..Len(node) : node[m].mtime <= now =>
        node[m].mtime <= node'[m].mtime /\ node'[m].mtime <= now
  BY <1>1, <1>2, <1>3
<1>7. ASSUME NEW q \in Path, at'[q] # None, Parent[q] # "none" PROVE IsDir(Parent[q])'
  <2>1. IsDir(Parent[q]) /\ Parent[q] \in Path
    BY <1>7, JobAssumption DEF IInv, History
  <2>2. at[Parent[q]] \in 0..Len(node) /\ at[Parent[q]] # None
    BY <2>1, <1>1 DEF IsDir
  <2>3. at[Parent[q]] \in 1..Len(node)
    BY <2>2, <1>1 DEF None
  <2> QED
    BY <2>1, <2>3, <1>4 DEF IsDir
<1>8. \A q \in Path : at'[q] # None => q \in ever'
  BY DEF IInv, History
<1>9. UNCHANGED <<job, process, before>> /\ pc \notin ExitCode /\ rewritten' \subseteq Nat
      /\ rewritten \subseteq rewritten'
  <2>1. n \in Nat
    BY <1>1
  <2>2. rewritten' \subseteq Nat /\ rewritten \subseteq rewritten'
    BY <1>1, <2>1
  <2> QED
    BY <2>2 DEF Change
<1>10. node' \in Seq(Inodes) /\ at' \in [Path -> 0..Len(node')] /\ now' \in Int
       /\ Len(node) <= Len(node') /\ now <= now' /\ ever \subseteq ever' /\ ever' \subseteq Path
       /\ \A p \in Path : at'[p] = at[p]
  <2>1. node' \in Seq(Inodes) /\ Len(node') = Len(node)
    BY <1>2
  <2>2. at' = at /\ now' = now /\ ever' = ever
    OBVIOUS
  <2> QED
    BY <1>1, <2>1, <2>2
<1> QED
  BY <1>4, <1>5, <1>6, <1>7, <1>8, <1>9, <1>10 DEF Meanwhile

LEMMA WriteIsMeanwhile == ASSUME IInv, NEW n \in DOMAIN node, Write(n) PROVE Meanwhile
<1> DEFINE old == node[n].lines
           open == old # <<>> /\ old[Len(old)] = "hi"
           new(l) == IF open THEN [old EXCEPT ![Len(old)] = l] ELSE Append(old, l)
<1>1. PICK l \in {"hit", "miss", "hi"} :
        /\ open => l = "hit"
        /\ node' = [node EXCEPT ![n].mtime = now, ![n].lines = new(l)]
  BY DEF Write
<1>2. node \in Seq(Inodes) /\ now \in Int /\ n \in 1..Len(node)
  BY DEF IInv, TypeOK
<1>3. node[n] \in Inodes /\ old \in Lines /\ old \in Seq({"hit", "miss", "hi"}) /\ Len(old) \in Nat
  BY <1>2, InodeType
<1>4. new(l) \in Lines /\ Extends(old, new(l))
  <2>1. CASE open
    <3>1. Len(old) \in 1..Len(old) /\ DOMAIN old = 1..Len(old)
      BY <1>3, <2>1
    <3>2. /\ new(l) \in Seq({"hit", "miss", "hi"}) /\ Len(new(l)) = Len(old)
          /\ \A k \in 1..Len(old) : k # Len(old) => new(l)[k] = old[k]
      BY <1>3, <2>1, <3>1
    <3> QED
      BY <1>3, <2>1, <3>1, <3>2 DEF Lines, Extends
  <2>2. CASE ~open
    <3>1. /\ new(l) \in Seq({"hit", "miss", "hi"}) /\ Len(new(l)) = Len(old) + 1
          /\ \A k \in 1..Len(old) : new(l)[k] = old[k]
      BY <1>3, <2>2
    <3>2. \A k \in 1..Len(old) : old[k] # "hi"
      <4>1. \A k \in 1..(Len(old) - 1) : old[k] # "hi"
        BY <1>3 DEF Lines
      <4>2. Len(old) # 0 => old[Len(old)] # "hi"
        BY <1>3, <2>2
      <4> QED
        BY <1>3, <4>1, <4>2
    <3> HIDE DEF new, old
    <3>3. \A k \in 1..(Len(new(l)) - 1) : new(l)[k] # "hi"
      BY <1>3, <3>1, <3>2
    <3> QED
      BY <1>3, <3>1, <3>3 DEF Lines, Extends
  <2> QED
    BY <2>1, <2>2
<1> DEFINE g == [node[n] EXCEPT !.mtime = now, !.lines = new(l)]
<1> HIDE DEF new
<1>5. g \in Inodes /\ g.kind = node[n].kind /\ g.mtime = now /\ g.lines = new(l)
  BY <1>2, <1>3, <1>4 DEF Inodes
<1>6. node' = [node EXCEPT ![n] = g]
  BY <1>1, <1>2
<1> HIDE DEF g
<1>7. job.tool \in Single /\ Change /\ UNCHANGED <<at, now, ever>> /\ rewritten' = rewritten
  BY DEF Write, Single
<1> QED
  BY <1>2, <1>4, <1>5, <1>6, <1>7, RewriteIsMeanwhile

LEMMA TruncateIsMeanwhile == ASSUME IInv, NEW n \in DOMAIN node, Truncate(n) PROVE Meanwhile
<1>1. node \in Seq(Inodes) /\ now \in Int /\ n \in 1..Len(node)
  BY DEF IInv, TypeOK
<1>2. node[n] \in Inodes /\ <<>> \in Lines
  BY <1>1, InodeType DEF Lines
<1> DEFINE g == [node[n] EXCEPT !.lines = <<>>, !.mtime = now]
<1>3. g \in Inodes /\ g.kind = node[n].kind /\ g.mtime = now
  BY <1>1, <1>2 DEF Inodes
<1>4. node' = [node EXCEPT ![n] = g]
  BY <1>1 DEF Truncate
<1> HIDE DEF g
<1>5. job.tool \in Single /\ Change /\ UNCHANGED <<at, now, ever>>
      /\ rewritten' = rewritten \cup {n}
  BY DEF Truncate, Single
<1> QED
  BY <1>1, <1>3, <1>4, <1>5, RewriteIsMeanwhile

LEMMA TickIsMeanwhile == ASSUME IInv, Tick PROVE Meanwhile
<1>1. node \in Seq(Inodes) /\ at \in [Path -> 0..Len(node)] /\ now \in Int /\ Len(node) \in Nat
      /\ ever \subseteq Path /\ rewritten \subseteq Nat
  BY DEF IInv, TypeOK
<1>2. \A m \in 1..Len(node) : Extends(node[m].lines, node[m].lines) /\ node[m].mtime \in Int
  BY <1>1, InodeType, ExtendsSelf
<1>3. /\ UNCHANGED <<at, node, ever, rewritten>> /\ now' = now + 1
      /\ UNCHANGED <<job, process, before>> /\ pc \notin ExitCode
  BY DEF Tick, Change
<1>4. \A q \in Path : at'[q] # None /\ Parent[q] # "none" => IsDir(Parent[q])'
  BY <1>3 DEF IInv, History, IsDir
<1>5. \A q \in Path : at'[q] # None => q \in ever'
  BY <1>3 DEF IInv, History
<1> QED
  BY <1>1, <1>2, <1>3, <1>4, <1>5 DEF Meanwhile

LEMMA OthersAreMeanwhile == ASSUME IInv, Others PROVE Meanwhile
BY CreateIsMeanwhile, RemoveIsMeanwhile, WriteIsMeanwhile, TruncateIsMeanwhile, TickIsMeanwhile
   DEF Others

-----------------------------------------------------------------------------
(* What the others do leaves the invariant true. *)

\* A path that was there throughout has an inode, from the start on.
LEMMA SteadyInode ==
  ASSUME TypeOK, History, NEW p \in Path, Steady(p)
  PROVE  at[p] \in 1..Len(node) /\ at[p] \in 1..Len(before.node)
         /\ Len(node) \in Nat /\ Len(before.node) \in Nat
<1>1. Len(node) \in Nat /\ Len(before.node) \in Nat
  BY DEF TypeOK
<1>2. at[p] \in 0..Len(node) /\ before.at[p] \in 0..Len(before.node)
  BY DEF TypeOK
<1> QED
  BY <1>1, <1>2 DEF Steady, None

\* The options of the command line.
LEMMA JobType ==
  ASSUME TypeOK
  PROVE  /\ job \in Jobs /\ job.path \in Path /\ Parent[job.path] = "none"
         /\ job.tool \in Single \cup {"count", "procs"}
BY JobAssumption DEF TypeOK

\* Who is there throughout after the step was so before it, and is the same.
LEMMA SteadyKept ==
  ASSUME TypeOK, History, Meanwhile, NEW p \in Path, Steady(p)'
  PROVE  /\ Steady(p) /\ at'[p] = at[p] /\ at[p] \in 1..Len(node)
         /\ node'[at[p]].kind = node[at[p]].kind
         /\ IsDir(p)' = IsDir(p) /\ CanOpen(p)' = CanOpen(p)
         /\ job.tool \notin Single => node'[at[p]] = node[at[p]]
<1>1. Len(node) \in Nat /\ Len(before.node) \in Nat /\ Len(before.node) <= Len(node)
      /\ at'[p] # None /\ at'[p] = before.at[p] /\ at[p] \in 0..Len(node)
      /\ before.at[p] \in 0..Len(before.node)
  BY DEF TypeOK, History, Steady, Meanwhile
<1>2. at'[p] = at[p]
  BY <1>1 DEF Meanwhile
<1>3. Steady(p)
  BY <1>1, <1>2 DEF Steady
<1>4. at[p] \in 1..Len(node)
  BY <1>3, SteadyInode
<1>5. /\ node'[at[p]].kind = node[at[p]].kind
      /\ job.tool \notin Single => node'[at[p]] = node[at[p]]
  BY <1>4 DEF Meanwhile
<1> QED
  BY <1>2, <1>3, <1>4, <1>5 DEF IsDir, CanOpen

LEMMA MeanwhileType == ASSUME IInv, Meanwhile PROVE TypeOK' /\ Missing'
<1>1. TypeOK' 
  <2>1. /\ job' = job /\ before' = before /\ pc' = pc /\ held' = held /\ pos' = pos
        /\ stack' = stack /\ entry' = entry /\ count' = count
    BY DEF Meanwhile, process
  <2>2. Stages' = Stages
    BY <2>1 DEF Stages
  <2> QED
    BY <2>1, <2>2 DEF IInv, TypeOK, Meanwhile
<1>2. Missing'
  BY DEF IInv, Missing, Meanwhile, process
<1> QED
  BY <1>1, <1>2

LEMMA MeanwhileHistory == ASSUME IInv, Meanwhile PROVE History'
<1>1. TypeOK /\ History /\ before' = before /\ job' = job
  BY DEF IInv, Meanwhile
<1>2. /\ Len(before.node) \in Nat /\ Len(node) \in Nat /\ Len(node') \in Nat
      /\ now \in Int /\ now' \in Int /\ before.now \in Int
      /\ Len(before.node) <= Len(node) /\ Len(node) <= Len(node') /\ before.now <= now /\ now <= now'
  BY <1>1 DEF TypeOK, History, Meanwhile
<1>3. ASSUME NEW n \in 1..Len(before.node)
      PROVE  /\ n \notin rewritten' => Extends(before.node[n].lines, node'[n].lines)
             /\ before.node[n].mtime <= before.now =>
                  before.node[n].mtime <= node'[n].mtime /\ node'[n].mtime <= now'
  <2>1. n \in 1..Len(node) /\ n \in 1..Len(node')
    BY <1>2
  <2>2. before.node \in Seq(Inodes) /\ node \in Seq(Inodes) /\ node' \in Seq(Inodes)
    BY <1>1 DEF TypeOK, Meanwhile
  <2>3. /\ before.node[n].lines \in Lines /\ node[n].lines \in Lines /\ node'[n].lines \in Lines
        /\ before.node[n].mtime \in Int /\ node[n].mtime \in Int /\ node'[n].mtime \in Int
    BY <2>1, <2>2, InodeType
  <2>4. /\ n \notin rewritten => Extends(before.node[n].lines, node[n].lines)
        /\ before.node[n].mtime <= before.now =>
             before.node[n].mtime <= node[n].mtime /\ node[n].mtime <= now
    BY <1>1 DEF History
  <2>5. /\ n \notin rewritten' => n \notin rewritten /\ Extends(node[n].lines, node'[n].lines)
        /\ node[n].mtime <= now => node[n].mtime <= node'[n].mtime /\ node'[n].mtime <= now'
    BY <2>1 DEF Meanwhile
  <2>6. n \notin rewritten' => Extends(before.node[n].lines, node'[n].lines)
    BY <2>3, <2>4, <2>5, ExtendsTransitive
  <2> QED
    BY <1>2, <2>3, <2>4, <2>5, <2>6
<1>4. \A p \in Path : at'[p] # None \/ before.at[p] # None => p \in ever'
  BY <1>1 DEF History, Meanwhile
<1>5. \A p \in Path : at'[p] # None /\ Parent[p] # "none" => IsDir(Parent[p])'
  BY DEF Meanwhile
<1>6. Len(before.node) <= Len(node') /\ before.now <= now'
  BY <1>2
<1> QED
  BY <1>1, <1>3, <1>4, <1>5, <1>6 DEF History

LEMMA MeanwhileAge == ASSUME IInv, Meanwhile PROVE AgeInv'
<1>1. TypeOK /\ History /\ before' = before /\ job' = job /\ pc' = pc /\ count' = count
  BY DEF IInv, Meanwhile, process
<1> DEFINE p == job.path
<1> SUFFICES ASSUME pc = "clock", Steady(p)', before.node[at'[p]].mtime <= before.now
             PROVE  /\ before.node[at'[p]].mtime <= count /\ count <= node'[at'[p]].mtime
                    /\ count <= now'
  BY <1>1 DEF AgeInv
<1>2. p \in Path
  BY <1>1, JobType
<1>3. Steady(p) /\ at'[p] = at[p] /\ at[p] \in 1..Len(node)
  BY <1>1, <1>2, SteadyKept
<1>4. at[p] \in 1..Len(before.node) /\ at[p] \in 1..Len(node')
  <2>1. Len(node) \in Nat /\ Len(node') \in Nat /\ Len(node) <= Len(node')
    BY <1>1 DEF TypeOK, Meanwhile
  <2> QED
    BY <1>1, <1>2, <1>3, <2>1, SteadyInode
<1>5. /\ before.node[at[p]].mtime \in Int /\ node[at[p]].mtime \in Int
      /\ node'[at[p]].mtime \in Int /\ now \in Int /\ now' \in Int /\ now <= now' /\ count \in Int
  <2>1. before.node \in Seq(Inodes) /\ node \in Seq(Inodes) /\ node' \in Seq(Inodes)
    BY <1>1 DEF TypeOK, Meanwhile
  <2>2. now \in Int /\ now' \in Int /\ now <= now' /\ count \in Int
    BY <1>1 DEF TypeOK, Meanwhile
  <2> QED
    BY <1>3, <1>4, <2>1, <2>2, InodeType
<1>6. before.node[at[p]].mtime <= count /\ count <= node[at[p]].mtime /\ count <= now
  BY <1>3 DEF IInv, AgeInv
<1>7. node[at[p]].mtime <= now
  BY <1>1, <1>3, <1>4 DEF History
<1>8. node[at[p]].mtime <= node'[at[p]].mtime
  BY <1>3, <1>7 DEF Meanwhile
<1> QED
  BY <1>3, <1>5, <1>6, <1>8

\* The whole lines that are wanted, of a file that has grown.
LEMMA WholeGrows ==
  ASSUME NEW a \in Lines, NEW b \in Lines, Extends(a, b)
  PROVE  /\ IsFiniteSet(Whole(a)) /\ IsFiniteSet(Whole(b)) /\ Whole(a) \subseteq Whole(b)
         /\ Cardinality(Whole(a)) \in Nat /\ Cardinality(Whole(b)) \in Nat
         /\ Cardinality(Whole(a)) <= Cardinality(Whole(b))
<1>1. /\ Len(a) \in Nat /\ DOMAIN a = 1..Len(a)
      /\ Len(b) \in Nat /\ DOMAIN b = 1..Len(b)
  BY DEF Lines
<1>2. Whole(a) \subseteq Whole(b)
  BY <1>1 DEF Whole, Wanted, Extends
<1>3. Whole(b) \subseteq 1..Len(b)
  BY <1>1 DEF Whole, Wanted
<1>4. IsFiniteSet(Whole(b))
  <2>1. IsFiniteSet(1..Len(b))
    BY <1>1, FS_Interval
  <2> QED
    BY <1>3, <2>1, FS_Subset
<1> QED
  BY <1>2, <1>4, FS_Subset, FS_CardinalityType

\* The bounds of a log, in terms of its lines.
LEMMA LogBounds ==
  ASSUME job.tool = "log"
  PROVE  /\ Least = IF job.query = "none" THEN 0
                    ELSE Cardinality(Whole(before.node[before.at[job.path]].lines))
         /\ Most = IF job.query = "none" THEN 0
                   ELSE Cardinality(Whole(node[at[job.path]].lines)) + Unfinished
         /\ Sound <=> /\ Steady(job.path) /\ at[job.path] \notin rewritten
                      /\ job.query # "bad" /\ node[at[job.path]].kind = "file"
BY DEF Least, Most, Sound

LEMMA MeanwhileLog == ASSUME IInv, Meanwhile PROVE LogInv'
<1> DEFINE p == job.path
<1>1. /\ TypeOK /\ History /\ before' = before /\ job' = job /\ pc' = pc /\ count' = count
      /\ pos' = pos /\ held' = held
  BY DEF IInv, Meanwhile, process
<1>2. p \in Path
  BY <1>1, JobType
<1>3. /\ Len(node) \in Nat /\ Len(node') \in Nat /\ Len(node) <= Len(node')
      /\ node \in Seq(Inodes) /\ node' \in Seq(Inodes) /\ before.node \in Seq(Inodes)
  BY <1>1 DEF TypeOK, Meanwhile
<1>4. ASSUME pc = "read"
      PROVE  /\ held \in 1..Len(node') /\ (Steady(p)' => held = at'[p])
             /\ held \notin rewritten' => ReadSoFar(node[held].lines)'
  <2>1. held \in 1..Len(node) /\ held \in 1..Len(node')
    BY <1>3, <1>4 DEF IInv, LogInv
  <2>2. ASSUME Steady(p)' PROVE held = at'[p]
    BY <1>1, <1>2, <1>4, <2>2, SteadyKept DEF IInv, LogInv
  <2>3. ASSUME held \notin rewritten' PROVE ReadSoFar(node[held].lines)'
    <3> DEFINE a == node[held].lines
               b == node'[held].lines
    <3>1. ReadSoFar(a) /\ Extends(a, b)
      BY <1>4, <2>1, <2>3 DEF IInv, LogInv, Meanwhile
    <3>2. Len(a) \in Nat /\ Len(b) \in Nat /\ pos \in Nat
      BY <1>1, <1>3, <2>1, InodeType DEF TypeOK
    <3>3. \A k \in 1..pos : b[k] = a[k]
      BY <3>1, <3>2 DEF ReadSoFar, Extends
    <3> HIDE DEF a, b
    <3>4. {k \in 1..pos : Fits(a[k])} = {k \in 1..pos : Fits(b[k])}
      BY <3>3
    <3>5. /\ pos <= Len(b) /\ \A k \in 1..pos : b[k] # "hi"
          /\ count = Cardinality({k \in 1..pos : Fits(b[k])})
      <4>1. pos <= Len(a) /\ Len(a) <= Len(b) /\ \A k \in 1..pos : a[k] # "hi"
        BY <3>1 DEF ReadSoFar, Extends
      <4>2. count = Cardinality({k \in 1..pos : Fits(b[k])})
        BY <3>1, <3>4 DEF ReadSoFar
      <4> QED
        BY <3>2, <3>3, <4>1, <4>2
    <3> QED
      BY <1>1, <3>5 DEF ReadSoFar, b, Fits
  <2> QED
    BY <2>1, <2>2, <2>3
<1>5. ASSUME pc = "size", Sound' PROVE (count \in Least..Most)'
  <2>1. job.tool = "log"
    BY <1>1, <1>5, JobType DEF TypeOK, Stages, ExitCode, Single
  <2>2. Steady(p)' /\ at'[p] \notin rewritten' /\ job.query # "bad" /\ node'[at'[p]].kind = "file"
    BY <1>1, <1>5, <2>1 DEF Sound
  <2>3. Steady(p) /\ at'[p] = at[p] /\ at[p] \in 1..Len(node) /\ node'[at[p]].kind = node[at[p]].kind
    BY <1>1, <1>2, <2>2, SteadyKept
  <2>4. Sound
    BY <2>1, <2>2, <2>3, LogBounds DEF Meanwhile
  <2>5. count \in Least..Most
    BY <1>5, <2>4 DEF IInv, LogInv
  <2> DEFINE a == node[at[p]].lines
             b == node'[at[p]].lines
             c == before.node[before.at[p]].lines
  <2>6. Extends(a, b)
    BY <2>2, <2>3 DEF Meanwhile
  <2>7. a \in Lines /\ b \in Lines
    BY <1>3, <2>3, InodeType
  <2> HIDE DEF a, b, c
  <2>8. Cardinality(Whole(a)) \in Nat /\ Cardinality(Whole(b)) \in Nat
        /\ Cardinality(Whole(a)) <= Cardinality(Whole(b))
    BY <2>6, <2>7, WholeGrows
  <2>9. /\ Least = IF job.query = "none" THEN 0 ELSE Cardinality(Whole(c))
        /\ Most = IF job.query = "none" THEN 0 ELSE Cardinality(Whole(a)) + Unfinished
    BY <2>1, LogBounds DEF a, c
  <2>10. /\ Least' = IF job.query = "none" THEN 0 ELSE Cardinality(Whole(c))
         /\ Most' = IF job.query = "none" THEN 0 ELSE Cardinality(Whole(b)) + Unfinished
    <3>1. Unfinished' = Unfinished
      BY <1>1 DEF Unfinished
    <3>2. Whole(before.node[before.at[job.path]].lines)' = Whole(c)
      BY <1>1 DEF Whole, Wanted, c
    <3>3. Whole(node[at[job.path]].lines)' = Whole(b)
      BY <1>1, <2>3 DEF Whole, Wanted, b
    <3> QED
      BY <1>1, <2>1, <3>1, <3>2, <3>3 DEF Least, Most
  <2>11. Unfinished \in Nat
    BY DEF Unfinished
  <2>12. Least = Least' /\ Most <= Most' /\ Most \in Int /\ Most' \in Int
    BY <2>8, <2>9, <2>10, <2>11
  <2>13. count \in Int
    BY <1>1 DEF TypeOK
  <2>14. count >= Least' /\ count <= Most'
    BY <2>5, <2>12, <2>13
  <2> QED
    BY <1>1, <2>5, <2>12, <2>13, <2>14
<1>6. /\ pc = "open" => pos = 0 /\ count = 0
      /\ pc = "access" => pos = 0 /\ count = 0
      /\ pc \in {"open", "read"} => job.query # "none"
  BY DEF IInv, LogInv
<1> QED
  BY <1>1, <1>4, <1>5, <1>6 DEF LogInv

\* The walk is where it was, and what it has seen may only have gone.
LEMMA MeanwhileWalk ==
  ASSUME IInv, Meanwhile, job.tool \notin Single,
         NEW C \in SUBSET Path, NEW V \in SUBSET Path, NEW O \in SUBSET Path, Walk(C, V, O)
  PROVE  Walk(C, V, O)'
<1>1. /\ TypeOK /\ History /\ job' = job /\ pc' = pc /\ count' = count
      /\ stack' = stack /\ entry' = entry /\ ever \subseteq ever'
  BY DEF IInv, Meanwhile, process
<1>2. Pending' = Pending /\ OpenDirs' = OpenDirs /\ Below' = Below /\ Entry' = Entry
  BY <1>1 DEF Pending, OpenDirs, Below, Entry
<1>3. ASSUME NEW p \in Path, Steady(p)'
      PROVE  /\ Steady(p) /\ at'[p] = at[p] /\ IsDir(p)' = IsDir(p) /\ CanOpen(p)' = CanOpen(p)
             /\ Runs(p)' = Runs(p) /\ Plain(p)' = Plain(p)
  <2>1. /\ Steady(p) /\ at'[p] = at[p] /\ IsDir(p)' = IsDir(p) /\ CanOpen(p)' = CanOpen(p)
        /\ node'[at[p]] = node[at[p]]
    BY <1>1, <1>3, SteadyKept
  <2> QED
    BY <1>1, <2>1 DEF Runs, Plain
<1>4. /\ job.path \in Path
      /\ \A i \in 1..Len(stack) : stack[i].dir \in Path
      /\ \A i \in 1..Len(entry) : entry[i] \in Path
  <2>1. stack \in Seq(Frames) /\ entry \in Seq(Path)
    BY <1>1 DEF TypeOK
  <2>2. \A i \in 1..Len(stack) : stack[i] \in Frames
    BY <2>1, ElementOfSeq
  <2>3. \A i \in 1..Len(entry) : entry[i] \in Path
    BY <2>1, ElementOfSeq
  <2> QED
    BY <1>1, <2>2, <2>3, JobType DEF Frames
<1>5. Shape'
  BY <1>1 DEF Walk, Shape
<1>6. Seen(V, O)'
  BY <1>1, <1>2 DEF Walk, Seen
<1>7. Scanned(V, O)'
  <2>1. \A o \in O : Steady(o)' => IsDir(o)'
    BY <1>3 DEF Walk, Scanned
  <2>2. ASSUME NEW i \in 1..Len(stack), NEW d \in Path, d = stack[i].dir, Steady(d)'
        PROVE  stack[i].ino = at'[d]
    BY <1>3, <2>2 DEF Walk, Scanned
  <2>3. \A i \in 1..Len(stack) : \A c \in Children(stack[i].dir) :
          Steady(c)' => at'[c] \in stack[i].there
    <3>1. \A d : Children(d) \subseteq Path
      BY DEF Children
    <3> QED
      BY <1>3, <3>1 DEF Walk, Scanned
  <2>4. \A o \in O \ OpenDirs : Steady(o)' => \A c \in Children(o) : Steady(c)' => c \in V
    <3>1. \A d : Children(d) \subseteq Path
      BY DEF Children
    <3> QED
      BY <1>3, <3>1 DEF Walk, Scanned
  <2> QED
    BY <1>1, <1>2, <1>4, <2>1, <2>2, <2>3, <2>4 DEF Scanned, Steady
<1>8. AtEntry(O)'
  <2>1. pc \in {"descend", "skip", "count", "entry"} => Entry \in Path
    <3> SUFFICES ASSUME pc \in {"descend", "skip", "count", "entry"} PROVE Entry \in Path
      OBVIOUS
    <3>1. Len(entry) = Len(stack) /\ Len(stack) >= 1 /\ Len(stack) \in Nat
      BY <1>1 DEF Walk, Shape, TypeOK
    <3> QED
      BY <1>4, <3>1 DEF Entry
  <2> QED
    BY <1>1, <1>2, <1>3, <2>1 DEF Walk, AtEntry
<1>9. Counted(C, V, O)'
  <2>1. ASSUME NEW c \in Path, May(c) PROVE May(c)'
    <3>1. Steady(c)' => Steady(c) /\ Runs(c)' = Runs(c) /\ Plain(c)' = Plain(c)
      BY <1>3
    <3>2. Matches(Name[c], job.pattern)' <=> Matches(Name[c], job.pattern)
      BY <1>1
    <3>3. CASE job.tool = "procs"
      <4>1. Steady(c)' => Runs(c)'
        BY <2>1, <3>1, <3>3 DEF May
      <4> QED
        BY <1>1, <3>3, <4>1 DEF May
    <3>4. CASE job.tool # "procs"
      <4>1. (Steady(c)' => Plain(c)') /\ Matches(Name[c], job.pattern)'
        BY <2>1, <3>1, <3>2, <3>4 DEF May
      <4> QED
        BY <1>1, <3>4, <4>1 DEF May
    <3> QED
      BY <3>3, <3>4
  <2>2. \A v \in Path : Must(v)' => Must(v)
    BY <1>1, <1>3 DEF Must, May
  <2>3. \A v \in V \ Pending :
          job.tool = "count" /\ job.recursive /\ Steady(v)' /\ IsDir(v)' /\ CanOpen(v)' => v \in O
    BY <1>3 DEF Walk, Counted
  <2> QED
    BY <1>1, <1>2, <2>1, <2>2, <2>3 DEF Walk, Counted
<1> QED
  BY <1>5, <1>6, <1>7, <1>8, <1>9 DEF Walk

LEMMA MeanwhilePreserves == ASSUME IInv, Meanwhile PROVE IInv'
<1>1. TypeOK /\ job' = job /\ pc' = pc /\ count' = count /\ entry' = entry
  BY DEF IInv, Meanwhile, process
<1>2. Walking'
  <2>1. ASSUME pc \in {"scan", "entry", "descend", "count", "skip", "cmdline"}
        PROVE  \E C, V, O \in SUBSET Path : Walk(C, V, O)'
    <3>1. job.tool \notin Single
      BY <1>1, <2>1, JobType DEF TypeOK, Stages, ExitCode, Single
    <3>2. PICK C, V, O \in SUBSET Path : Walk(C, V, O)
      BY <2>1 DEF IInv, Walking
    <3> QED
      BY <3>1, <3>2, MeanwhileWalk
  <2> QED
    BY <1>1, <2>1 DEF IInv, Walking
<1>3. Done'
  BY <1>1 DEF Done, Meanwhile
<1> QED
  BY <1>2, <1>3, MeanwhileType, MeanwhileHistory, MeanwhileAge, MeanwhileLog DEF IInv

-----------------------------------------------------------------------------
(* The first look. *)

LEMMA FilesInit == Init => IInv
<1> SUFFICES ASSUME Init PROVE IInv
  OBVIOUS
<1>1. PICK t \in Trees[job] : at = t.at /\ node = t.node /\ now = t.now
  BY DEF Init
<1>2. /\ job \in Jobs /\ before = [at |-> at, node |-> node, now |-> now]
      /\ ever = {p \in Path : at[p] # None} /\ rewritten = {}
      /\ held = None /\ pos = 0 /\ stack = <<>> /\ entry = <<>> /\ count = 0
  BY DEF Init
<1>3. before.at = at /\ before.node = node /\ before.now = now
  BY <1>2
<1>4. node \in Seq(Inodes) /\ at \in [Path -> 0..Len(node)] /\ now \in Int
  BY <1>1, <1>2, TreeAssumption
<1>5. job.tool \in Single \cup {"count", "procs"}
  BY <1>2, JobAssumption
<1>6. /\ pc \in {"access", "isdir", "opendir"} /\ pc \in Stages
      /\ job.tool \in Single => pc = "access"
      /\ job.tool = "count" => pc = "isdir"
      /\ job.tool = "procs" => pc = "opendir"
  BY <1>5 DEF Init, Stages, Single
<1>7. TypeOK
  BY <1>2, <1>3, <1>4, <1>6 DEF TypeOK, None
<1>8. History
  <2>1. \A n \in 1..Len(node) : Extends(node[n].lines, node[n].lines) /\ node[n].mtime \in Int
    BY <1>4, InodeType, ExtendsSelf
  <2>2. ASSUME NEW p \in Path, at[p] # None, Parent[p] # "none" PROVE IsDir(Parent[p])
    BY <1>1, <1>2, <2>2, TreeAssumption DEF IsDir
  <2>3. Len(node) \in Nat
    BY <1>4
  <2> QED
    BY <1>2, <1>3, <1>4, <2>1, <2>2, <2>3 DEF History
<1>9. Missing
  <2>1. CASE job.tool = "procs"
    <3>1. job.path \in ever
      BY <1>1, <1>2, <2>1, JobAssumption, TreeAssumption
    <3> QED
      BY <3>1 DEF Missing
  <2> QED
    BY <1>5, <1>6, <2>1 DEF Missing
<1> QED
  BY <1>2, <1>6, <1>7, <1>8, <1>9 DEF IInv, AgeInv, LogInv, Walking, Done, ExitCode

-----------------------------------------------------------------------------
(* The process.  Its steps leave the files alone. *)

Quiet == UNCHANGED <<job, files, history>>

LEMMA QuietKeeps ==
  ASSUME IInv, Quiet
  PROVE  /\ job' = job /\ at' = at /\ node' = node /\ now' = now /\ before' = before
         /\ ever' = ever /\ rewritten' = rewritten
         /\ History'
         /\ Sound' <=> Sound
<1>1. /\ job' = job /\ at' = at /\ node' = node /\ now' = now /\ before' = before
      /\ ever' = ever /\ rewritten' = rewritten
  BY DEF Quiet, files, history
<1>2. History'
  BY <1>1 DEF IInv, History, IsDir
<1>3. Sound' <=> Sound
  BY <1>1 DEF Sound, Steady
<1> QED
  BY <1>1, <1>2, <1>3

LEMMA QuietType ==
  ASSUME IInv, Quiet, pc' \in Stages \cup ExitCode, held' \in Nat, pos' \in Nat, count' \in Int,
         stack' \in Seq(Frames), entry' \in Seq(Path)
  PROVE  TypeOK'
<1>1. Stages' = Stages
  BY QuietKeeps DEF Stages
<1> QED
  BY <1>1, QuietKeeps DEF IInv, TypeOK

\* While a check of a single file runs, nothing is walked over.
LEMMA SingleStep ==
  ASSUME IInv, Quiet, job.tool \in Single,
         pc' \in Stages \cup ExitCode, held' \in Nat, pos' \in Nat, count' \in Int,
         UNCHANGED <<stack, entry>>,
         Missing', AgeInv', LogInv', Done'
  PROVE  IInv'
<1>1. stack' \in Seq(Frames) /\ entry' \in Seq(Path)
  BY DEF IInv, TypeOK
<1>2. TypeOK'
  BY <1>1, QuietType
<1>3. Walking'
  <2>1. Stages \subseteq {"access", "stat", "clock", "open", "read", "size"}
    BY DEF Stages, Single
  <2> QED
    BY <2>1 DEF Walking, ExitCode
<1> QED
  BY <1>2, <1>3, QuietKeeps DEF IInv

\* The step of a check of a single file, the path being there.
LEMMA SoundPath ==
  ASSUME IInv, Sound
  PROVE  at[job.path] # None /\ at[job.path] = before.at[job.path]
         /\ at[job.path] \notin rewritten /\ job.path \in Path
         /\ at[job.path] \in 1..Len(node) /\ at[job.path] \in 1..Len(before.node)
<1>1. TypeOK /\ History /\ job.path \in Path /\ Steady(job.path)
  BY JobType DEF IInv, Sound
<1> QED
  BY <1>1, SteadyInode DEF Sound, Steady

LEMMA AccessPreserves == ASSUME IInv, Access PROVE IInv'
<1>1. Quiet /\ pc = "access" /\ UNCHANGED <<held, pos, stack, entry, count>>
  BY DEF Access, Step, Quiet
<1>2. TypeOK /\ held \in Nat /\ pos \in Nat /\ count \in Int
  BY DEF IInv, TypeOK
<1>3. job.tool \in Single /\ job.path \in Path
  BY <1>1, <1>2, JobType DEF TypeOK, Stages, ExitCode, Single
<1>4. CASE at[job.path] = None
  <2>1. pc' = IF job.okMissing THEN "OK" ELSE "CRITICAL"
    BY <1>4 DEF Access, Step
  <2>2. ~Sound'
    BY <1>1, <1>4, QuietKeeps, SoundPath
  <2>3. pc' \in ExitCode /\ pc' \notin {"clock", "open", "access", "read", "size"}
    BY <2>1 DEF ExitCode
  <2>4. Done' /\ Missing' /\ AgeInv' /\ LogInv'
    BY <1>1, <2>1, <2>2, <2>3, QuietKeeps DEF Done, Missing, AgeInv, LogInv
  <2> QED
    BY <1>1, <1>2, <1>3, <2>3, <2>4, SingleStep
<1>5. CASE at[job.path] # None
  <2>1. pc' = IF job.tool # "log" THEN "stat" ELSE IF job.query = "none" THEN "size" ELSE "open"
    BY <1>5 DEF Access, Step
  <2>2. pc' \in Stages /\ pc' \notin ExitCode /\ pc' \notin {"clock", "access", "read"}
    BY <1>3, <2>1 DEF Stages, Single, ExitCode
  <2>3. job.path \in ever
    BY <1>3, <1>5 DEF IInv, History
  <2>4. Done' /\ Missing' /\ AgeInv'
    BY <1>1, <2>2, <2>3, QuietKeeps DEF Done, Missing, AgeInv
  <2>5. LogInv'
    <3>1. pos = 0 /\ count = 0
      BY <1>1 DEF IInv, LogInv
    <3>2. ASSUME pc' = "size" PROVE (count \in Least..Most)'
      <4>1. job.tool = "log" /\ job.query = "none" /\ job' = job /\ count' = 0
        BY <1>1, <2>1, <3>1, <3>2, QuietKeeps
      <4>2. Least' = 0 /\ Most' = 0
        BY <4>1 DEF Least, Most
      <4> QED
        BY <4>1, <4>2
    <3>3. pc' = "open" => job'.query # "none"
      BY <1>1, <2>1, QuietKeeps
    <3> QED
      BY <1>1, <2>2, <3>1, <3>2, <3>3 DEF LogInv
  <2> QED
    BY <1>1, <1>2, <1>3, <2>2, <2>4, <2>5, SingleStep
<1> QED
  BY <1>4, <1>5

\* The status of a count is one of the four.
LEMMA GradeIs ==
  ASSUME NEW n, job' = job, count' = n
  PROVE  Grade(n) \in ExitCode /\ Grade(count)' = Grade(n)
BY DEF Grade, Breaks, ExitCode

\* The last step of a check of a single file that was there.
LEMMA SingleEnd ==
  ASSUME IInv, Quiet, job.tool \in Single, pc' \in ExitCode, job.path \in ever,
         held' \in Nat, pos' \in Nat, count' \in Int, UNCHANGED <<stack, entry>>,
         Sound => count' \in Least..Most /\ pc' = Grade(count'),
         Least' = Least, Most' = Most
  PROVE  IInv'
<1>1. pc' \notin {"clock", "open", "access", "read", "size"}
  BY DEF ExitCode
<1>2. job' = job /\ ever' = ever /\ (Sound' <=> Sound)
  BY QuietKeeps
<1>3. Grade(count)' = Grade(count')
  BY <1>2, GradeIs
<1>4. Done' /\ Missing' /\ AgeInv' /\ LogInv'
  BY <1>1, <1>2, <1>3 DEF Done, Missing, AgeInv, LogInv
<1> QED
  BY <1>4, SingleStep

LEMMA StatPreserves == ASSUME IInv, Stat PROVE IInv'
<1> DEFINE p == job.path
           missing == at[p] = None
<1>1. /\ Quiet /\ pc = "stat" /\ UNCHANGED <<held, pos, stack, entry>>
      /\ pc' = IF missing THEN "UNKNOWN" ELSE IF job.tool = "age" THEN "clock"
               ELSE Grade(Len(node[at[p]].lines))
      /\ count' = IF missing THEN count ELSE IF job.tool = "age" THEN node[at[p]].mtime
                  ELSE Len(node[at[p]].lines)
  BY DEF Stat, Step, Quiet
<1>2. TypeOK /\ History /\ held \in Nat /\ pos \in Nat /\ count \in Int /\ now \in Int
      /\ node \in Seq(Inodes) /\ before.node \in Seq(Inodes)
  BY DEF IInv, TypeOK
<1>3. job.tool \in {"age", "size"} /\ job.tool \in Single /\ p \in Path
  BY <1>1, <1>2, JobType DEF TypeOK, Stages, ExitCode, Single
<1>4. p \in ever
  BY <1>1 DEF IInv, Missing, ExitCode
<1>5. /\ job' = job /\ at' = at /\ node' = node /\ now' = now /\ before' = before
      /\ ever' = ever /\ rewritten' = rewritten /\ (Sound' <=> Sound)
  BY <1>1, QuietKeeps
<1>6. Least' = Least /\ Most' = Most
  BY <1>3, <1>5 DEF Least, Most
<1>7. CASE missing
  <2>1. ~Sound
    BY <1>7, SoundPath
  <2>2. pc' \in ExitCode /\ count' \in Int
    <3>1. pc' = "UNKNOWN"
      BY <1>1, <1>7
    <3>2. count' = count
      BY <1>1, <1>7
    <3> QED
      BY <1>2, <3>1, <3>2 DEF ExitCode
  <2> QED
    BY <1>1, <1>2, <1>3, <1>4, <1>6, <2>1, <2>2, SingleEnd
<1>8. ~missing => node[at[p]].mtime \in Int /\ Len(node[at[p]].lines) \in Nat
  <2>1. at \in [Path -> 0..Len(node)] /\ Len(node) \in Nat
    BY <1>2 DEF TypeOK
  <2>2. ~missing => at[p] \in 1..Len(node)
    BY <1>3, <2>1 DEF None
  <2> QED
    BY <1>2, <2>2, InodeType
<1>9. CASE ~missing /\ job.tool = "size"
  <2>1. count' = Len(node[at[p]].lines) /\ pc' = Grade(count') /\ count' \in Nat
    BY <1>1, <1>8, <1>9
  <2>2. pc' \in ExitCode
    BY <1>5, <2>1, GradeIs
  <2>3. Sound => count' \in Least..Most
    <3> SUFFICES ASSUME Sound PROVE count' \in Least..Most
      OBVIOUS
    <3>1. /\ at[p] = before.at[p] /\ at[p] \in 1..Len(before.node) /\ at[p] \notin rewritten
      BY SoundPath
    <3>2. Extends(before.node[at[p]].lines, node[at[p]].lines)
      BY <1>2, <3>1 DEF History
    <3>3. Len(before.node[at[p]].lines) \in Nat
      BY <1>2, <3>1, InodeType
    <3>4. Least = Len(before.node[at[p]].lines) /\ Most = Len(node[at[p]].lines)
      BY <1>9, <3>1 DEF Least, Most
    <3> QED
      BY <1>8, <1>9, <2>1, <3>2, <3>3, <3>4 DEF Extends
  <2> QED
    BY <1>1, <1>2, <1>3, <1>4, <1>6, <2>1, <2>2, <2>3, SingleEnd
<1>10. CASE ~missing /\ job.tool = "age"
  <2>1. pc' = "clock" /\ count' = node[at[p]].mtime /\ count' \in Int
    BY <1>1, <1>8, <1>10
  <2>2. pc' \in Stages /\ pc' \notin ExitCode
    BY <2>1, <1>10 DEF Stages, ExitCode
  <2>3. AgeInv'
    <3> SUFFICES ASSUME Steady(p), before.node[at[p]].mtime <= before.now
                 PROVE  /\ before.node[at[p]].mtime <= node[at[p]].mtime
                        /\ node[at[p]].mtime <= node[at[p]].mtime
                        /\ node[at[p]].mtime <= now
      BY <1>5, <2>1 DEF AgeInv, Steady
    <3>1. at[p] \in 1..Len(before.node)
      BY <1>2, <1>3, SteadyInode
    <3> QED
      BY <1>2, <1>8, <1>10, <3>1 DEF History
  <2>4. Missing' /\ Done' /\ LogInv'
    BY <1>4, <1>5, <2>1, <2>2 DEF Missing, Done, LogInv
  <2> QED
    BY <1>1, <1>2, <1>3, <2>1, <2>2, <2>3, <2>4, SingleStep
<1> QED
  BY <1>3, <1>7, <1>9, <1>10

LEMMA ReadClockPreserves == ASSUME IInv, ReadClock PROVE IInv'
<1> DEFINE p == job.path
<1>1. /\ Quiet /\ pc = "clock" /\ UNCHANGED <<held, pos, stack, entry>>
      /\ count' = now - count
      /\ pc' = IF count' < 0 THEN "UNKNOWN" ELSE Grade(count')
  BY DEF ReadClock, Step, Quiet
<1>2. TypeOK /\ History /\ held \in Nat /\ pos \in Nat /\ count \in Int /\ now \in Int
      /\ before.now \in Int
  BY DEF IInv, TypeOK
<1>3. job.tool = "age" /\ job.tool \in Single /\ p \in Path
  BY <1>1, <1>2, JobType DEF TypeOK, Stages, ExitCode, Single
<1>4. p \in ever
  BY <1>1 DEF IInv, Missing, ExitCode
<1>5. job' = job /\ at' = at /\ node' = node /\ now' = now /\ before' = before
  BY <1>1, QuietKeeps
<1>6. Least' = Least /\ Most' = Most
  BY <1>3, <1>5 DEF Least, Most
<1>7. pc' \in ExitCode /\ count' \in Int
  BY <1>1, <1>2, <1>5, GradeIs DEF ExitCode
<1>8. ASSUME Sound PROVE count' \in Least..Most /\ pc' = Grade(count')
  <2>1. /\ at[p] = before.at[p] /\ at[p] \in 1..Len(before.node) /\ at[p] \in 1..Len(node)
    BY <1>8, SoundPath
  <2>2. Steady(p) /\ before.node[at[p]].mtime <= before.now
    BY <1>3, <1>8 DEF Sound
  <2>3. /\ before.node[at[p]].mtime <= count /\ count <= node[at[p]].mtime /\ count <= now
    BY <1>1, <2>2 DEF IInv, AgeInv
  <2>4. before.now <= now
    BY <1>2 DEF History
  <2>5. before.node[at[p]].mtime \in Int /\ node[at[p]].mtime \in Int
    <3>1. before.node \in Seq(Inodes) /\ node \in Seq(Inodes)
      BY <1>2 DEF TypeOK
    <3> QED
      BY <2>1, <3>1, InodeType
  <2>6. Least = before.now - node[at[p]].mtime /\ Most = now - before.node[at[p]].mtime
    BY <1>3, <2>1 DEF Least, Most
  <2>7. count' \in Least..Most /\ count' >= 0
    <3>1. /\ now - count \in Int /\ before.now - node[at[p]].mtime \in Int
          /\ now - before.node[at[p]].mtime \in Int
          /\ before.now - node[at[p]].mtime <= now - count
          /\ now - count <= now - before.node[at[p]].mtime /\ now - count >= 0
      BY <1>2, <2>3, <2>4, <2>5
    <3> QED
      BY <1>1, <2>6, <3>1
  <2> QED
    BY <1>1, <1>7, <2>7
<1> QED
  BY <1>1, <1>2, <1>3, <1>4, <1>6, <1>7, <1>8, SingleEnd

\* check_log at the end of what is whole: the lines that it counted are whole
\* now, and those that were whole at the start are among them.
LEMMA WholeLinesCounted ==
  ASSUME IInv, Sound, job.tool = "log", pc = "read",
         NEW b, b = node[held].lines, pos >= Len(b) \/ (pos < Len(b) /\ b[pos + 1] = "hi")
  PROVE  /\ held = at[job.path] /\ Least \in Nat /\ Least <= count
         /\ Most \in Nat /\ count + Unfinished <= Most
<1> DEFINE p == job.path
           a == before.node[at[p]].lines
           S == {k \in 1..pos : Fits(b[k])}
<1>1. /\ TypeOK /\ History /\ job.query # "none"
      /\ at[p] = before.at[p] /\ at[p] \notin rewritten
      /\ at[p] \in 1..Len(node) /\ at[p] \in 1..Len(before.node)
  BY SoundPath DEF IInv, LogInv
<1>2. Steady(p)
  BY DEF Sound
<1>3. held = at[p] /\ ReadSoFar(b)
  BY <1>1, <1>2 DEF IInv, LogInv
<1>4. a \in Lines /\ b \in Lines /\ Len(a) \in Nat /\ Len(b) \in Nat /\ pos \in Nat
      /\ DOMAIN a = 1..Len(a) /\ DOMAIN b = 1..Len(b)
  <2>1. before.node \in Seq(Inodes) /\ node \in Seq(Inodes) /\ pos \in Nat
    BY <1>1 DEF TypeOK
  <2>2. a \in Lines /\ b \in Lines
    BY <1>1, <1>3, <2>1, InodeType
  <2>3. \A l \in Lines : Len(l) \in Nat /\ DOMAIN l = 1..Len(l)
    BY DEF Lines
  <2> HIDE DEF a
  <2> QED
    BY <2>1, <2>2, <2>3
<1>5. Extends(a, b)
  BY <1>1, <1>3 DEF History
<1> HIDE DEF a
<1>6. pos <= Len(b) /\ \A k \in 1..pos : b[k] # "hi"
  BY <1>3 DEF ReadSoFar
<1>7. S \subseteq Whole(b)
  <2> SUFFICES ASSUME NEW k \in S PROVE k \in Whole(b)
    OBVIOUS
  <2>1. k \in 1..pos /\ k \in 1..Len(b) /\ b[k] # "hi"
    BY <1>4, <1>6
  <2> QED
    BY <1>4, <2>1 DEF Fits, Whole, Wanted
<1>8. \A k \in 1..Len(b) : b[k] # "hi" => k \in 1..pos
  <2>1. CASE pos >= Len(b)
    BY <1>4, <1>6, <2>1
  <2>2. CASE pos < Len(b) /\ b[pos + 1] = "hi"
    <3>1. \A k \in 1..(Len(b) - 1) : b[k] # "hi"
      BY <1>4 DEF Lines
    <3>2. ~(pos + 1 < Len(b))
      <4> SUFFICES ASSUME pos + 1 < Len(b) PROVE FALSE
        OBVIOUS
      <4>1. pos + 1 \in 1..(Len(b) - 1)
        BY <1>4
      <4> QED
        BY <2>2, <3>1, <4>1
    <3>3. Len(b) = pos + 1
      BY <1>4, <2>2, <3>2
    <3>4. ASSUME NEW k \in 1..Len(b), b[k] # "hi" PROVE k \in 1..pos
      <4>1. k # pos + 1
        BY <2>2, <3>4
      <4> QED
        BY <1>4, <3>3, <4>1
    <3> QED
      BY <3>4
  <2> QED
    BY <2>1, <2>2
<1>9. Whole(a) \subseteq S
  <2> SUFFICES ASSUME NEW k \in Whole(a) PROVE k \in S
    OBVIOUS
  <2>1. k \in 1..Len(a) /\ a[k] # "hi" /\ Fits(a[k])
    BY <1>4 DEF Whole, Wanted, Fits
  <2>2. b[k] = a[k] /\ k \in 1..Len(b)
    BY <1>4, <1>5, <2>1 DEF Extends
  <2> QED
    BY <1>8, <2>1, <2>2
<1>10. IsFiniteSet(Whole(a)) /\ IsFiniteSet(Whole(b))
  BY <1>4, <1>5, WholeGrows
<1>11. IsFiniteSet(S) /\ Cardinality(S) <= Cardinality(Whole(b))
  BY <1>7, <1>10, FS_Subset
<1>12. Cardinality(Whole(a)) <= Cardinality(S)
  BY <1>9, <1>11, FS_Subset
<1>13. Cardinality(Whole(a)) \in Nat /\ Cardinality(S) \in Nat /\ Cardinality(Whole(b)) \in Nat
  BY <1>10, <1>11, FS_CardinalityType
<1>14. count = Cardinality(S)
  BY <1>3 DEF ReadSoFar
<1>15. Least = Cardinality(Whole(a)) /\ Most = Cardinality(Whole(b)) + Unfinished
  BY <1>1, <1>3, LogBounds DEF a
<1>16. Unfinished \in Nat
  BY DEF Unfinished
<1> HIDE DEF S
<1> QED
  BY <1>3, <1>11, <1>12, <1>13, <1>14, <1>15, <1>16

\* What a step of check_log leaves as it is.
LEMMA LogStep ==
  ASSUME IInv, Quiet, job.tool = "log"
  PROVE  /\ job.tool \in Single /\ job.path \in Path
         /\ Least' = Least /\ Most' = Most
         /\ (pc # "access" /\ pc \notin ExitCode => job.path \in ever)
<1>1. /\ job' = job /\ at' = at /\ node' = node /\ before' = before
  BY QuietKeeps
<1>2. Unfinished' = Unfinished
  BY <1>1 DEF Unfinished
<1>4. Whole(before.node[before.at[job.path]].lines)' = Whole(before.node[before.at[job.path]].lines)
      /\ Whole(node[at[job.path]].lines)' = Whole(node[at[job.path]].lines)
  BY <1>1 DEF Whole, Wanted
<1>5. Least' = Least /\ Most' = Most
  BY <1>1, <1>2, <1>4 DEF Least, Most
<1>6. pc # "access" /\ pc \notin ExitCode => job.path \in ever
  <2>1. pc # "isdir"
    BY DEF IInv, TypeOK, Stages, ExitCode
  <2> QED
    BY <2>1 DEF IInv, Missing
<1> QED
  BY <1>5, <1>6, JobType DEF IInv, Single

\* check_log goes on to the next line, or to the size.
LEMMA LogGoesOn ==
  ASSUME IInv, Quiet, job.tool = "log", pc \in {"open", "read"}, pc' \in {"read", "size"},
         held' \in Nat, pos' \in Nat, count' \in Int, UNCHANGED <<stack, entry>>, LogInv'
  PROVE  IInv'
<1>1. job.tool \in Single /\ job.path \in ever
  BY LogStep DEF ExitCode
<1>2. pc' \in Stages \cup ExitCode
  BY DEF Stages
<1>3. Missing' /\ AgeInv' /\ Done'
  BY <1>1, QuietKeeps DEF Missing, AgeInv, Done, ExitCode
<1> QED
  BY <1>1, <1>2, <1>3, SingleStep

LEMMA OpenLogPreserves == ASSUME IInv, OpenLog PROVE IInv'
<1> DEFINE p == job.path
<1>1. /\ Quiet /\ pc = "open" /\ UNCHANGED <<pos, stack, entry, count>> /\ held' = at[p]
      /\ pc' = IF CanOpen(p) /\ job.query # "bad" THEN "read" ELSE "UNKNOWN"
  BY DEF OpenLog, Step, Quiet
<1>2. /\ TypeOK /\ pos = 0 /\ count = 0 /\ job.query # "none"
      /\ at \in [Path -> 0..Len(node)] /\ Len(node) \in Nat
  BY <1>1 DEF IInv, TypeOK, LogInv
<1>3. job.tool = "log"
  BY <1>1, <1>2, JobType DEF TypeOK, Stages, ExitCode, Single
<1>4. /\ job.tool \in Single /\ p \in Path /\ Least' = Least /\ Most' = Most /\ p \in ever
  BY <1>1, <1>3, LogStep DEF ExitCode
<1>5. job' = job /\ at' = at /\ node' = node /\ before' = before /\ rewritten' = rewritten
  BY <1>1, QuietKeeps
<1>6. at[p] \in 0..Len(node) /\ held' \in Nat /\ pos' \in Nat /\ count' \in Int
  BY <1>1, <1>2, <1>4
<1>7. CASE CanOpen(p) /\ job.query # "bad"
  <2>1. pc' = "read" /\ held' \in 1..Len(node)
    BY <1>1, <1>2, <1>6, <1>7 DEF CanOpen, None
  <2>2. ReadSoFar(node[held].lines)'
    <3> DEFINE b == node[at[p]].lines
    <3>1. Len(b) \in Nat
      <4>1. node \in Seq(Inodes)
        BY <1>2 DEF TypeOK
      <4> QED
        BY <1>1, <2>1, <4>1, InodeType
    <3>2. {k \in 1..0 : (b[k] = "hit") # job.invert} = {} /\ Cardinality({}) = 0
      BY FS_EmptySet
    <3> HIDE DEF b
    <3>3. pos' <= Len(b) /\ (\A k \in 1..pos' : b[k] # "hi")
          /\ count' = Cardinality({k \in 1..pos' : (b[k] = "hit") # job.invert})
      <4>1. pos' = 0 /\ count' = 0
        BY <1>1, <1>2
      <4>2. \A k \in 1..0 : b[k] # "hi"
        OBVIOUS
      <4> QED
        BY <3>1, <3>2, <4>1, <4>2
    <3> QED
      BY <1>1, <1>5, <3>3 DEF ReadSoFar, Fits, b
  <2>3. LogInv'
    BY <1>1, <1>2, <1>5, <2>1, <2>2 DEF LogInv
  <2> QED
    BY <1>1, <1>3, <1>6, <2>1, <2>3, LogGoesOn
<1>8. CASE ~(CanOpen(p) /\ job.query # "bad")
  <2>1. pc' \in ExitCode
    BY <1>1, <1>8 DEF ExitCode
  <2>2. ~Sound
    <3> SUFFICES ASSUME Sound PROVE FALSE
      OBVIOUS
    <3>1. job.query # "bad" /\ node[at[p]].kind = "file" /\ at[p] # None
      BY <1>3, LogBounds, SoundPath
    <3> QED
      BY <1>8, <3>1 DEF CanOpen
  <2> QED
    BY <1>1, <1>4, <1>6, <2>1, <2>2, SingleEnd
<1> QED
  BY <1>7, <1>8

LEMMA ReadLinePreserves == ASSUME IInv, ReadLine PROVE IInv'
<1> DEFINE p == job.path
           b == node[held].lines
           text == b[pos + 1]
<1>1. /\ Quiet /\ pc = "read" /\ pos < Len(b) /\ UNCHANGED <<held, stack, entry>>
      /\ pc' = IF text = "hi" THEN "size" ELSE "read"
      /\ count' = IF Counts(text) THEN count + 1 ELSE count
      /\ pos' = pos + 1
  BY DEF ReadLine, Step, Quiet
<1>2. /\ TypeOK /\ pos \in Nat /\ count \in Int /\ held \in Nat /\ job.query # "none"
      /\ held \in 1..Len(node) /\ (Steady(p) => held = at[p])
      /\ (held \notin rewritten => ReadSoFar(b))
  BY <1>1 DEF IInv, TypeOK, LogInv
<1>3. job.tool = "log"
  BY <1>1, <1>2, JobType DEF TypeOK, Stages, ExitCode, Single
<1>4. p \in Path /\ Least' = Least /\ Most' = Most
  BY <1>1, <1>3, LogStep
<1>5. job' = job /\ at' = at /\ node' = node /\ before' = before /\ rewritten' = rewritten
      /\ (Sound' <=> Sound)
  BY <1>1, QuietKeeps
<1>6. Len(b) \in Nat
  <2>1. node \in Seq(Inodes)
    BY <1>2 DEF TypeOK
  <2> QED
    BY <1>2, <2>1, InodeType
<1>7. \A t : Counts(t) <=> Fits(t)
  BY DEF Counts, Fits
<1>8. pos' \in Nat /\ count' \in Int /\ held' \in Nat
  BY <1>1, <1>2
<1>9. CASE text = "hi"
  <2>1. pc' = "size"
    BY <1>1, <1>9
  <2>2. ASSUME Sound PROVE count' \in Least..Most
    <3>1. Least \in Nat /\ Least <= count /\ Most \in Nat /\ count + Unfinished <= Most
      BY <1>1, <1>3, <1>9, <2>2, WholeLinesCounted
    <3>2. count' = count + Unfinished /\ Unfinished \in Nat
      <4>1. Counts("hi") <=> job.invert
        <5>1. "hi" # "hit" /\ job.invert \in BOOLEAN
          BY <1>2, JobAssumption DEF TypeOK
        <5> QED
          BY <5>1 DEF Counts
      <4> QED
        BY <1>1, <1>2, <1>9, <4>1 DEF Unfinished
    <3> QED
      BY <1>2, <3>1, <3>2
  <2>3. LogInv'
    BY <1>4, <1>5, <2>1, <2>2 DEF LogInv
  <2> QED
    BY <1>1, <1>3, <1>8, <2>1, <2>3, LogGoesOn
<1>10. CASE text # "hi"
  <2>1. pc' = "read"
    BY <1>1, <1>10
  <2>2. ASSUME held \notin rewritten PROVE ReadSoFar(node[held].lines)'
    <3> DEFINE S == {k \in 1..pos : Fits(b[k])}
               T == {k \in 1..(pos + 1) : Fits(b[k])}
    <3>1. count = Cardinality(S) /\ \A k \in 1..pos : b[k] # "hi"
      BY <1>2, <2>2 DEF ReadSoFar
    <3>2. IsFiniteSet(S) /\ pos + 1 \notin S
      <4>1. IsFiniteSet(1..pos) /\ S \subseteq 1..pos
        BY <1>2, FS_Interval
      <4>2. pos + 1 \notin 1..pos
        BY <1>2
      <4> QED
        BY <4>1, <4>2, FS_Subset
    <3>3. T = IF Fits(text) THEN S \cup {pos + 1} ELSE S
      <4>1. \A k : k \in 1..(pos + 1) <=> k \in 1..pos \/ k = pos + 1
        BY <1>2
      <4> QED
        BY <4>1
    <3>4. count' = Cardinality(T)
      <4> HIDE DEF S, T
      <4>1. Cardinality(S \cup {pos + 1}) = Cardinality(S) + 1
        BY <3>2, FS_AddElement
      <4> QED
        BY <1>1, <1>7, <3>1, <3>3, <4>1
    <3>5. \A k \in 1..(pos + 1) : b[k] # "hi"
      <4>1. \A k \in 1..(pos + 1) : k \in 1..pos \/ k = pos + 1
        BY <1>2
      <4> QED
        BY <1>10, <3>1, <4>1
    <3>6. pos + 1 <= Len(b)
      BY <1>1, <1>2, <1>6
    <3> HIDE DEF b
    <3> QED
      BY <1>1, <1>5, <3>4, <3>5, <3>6 DEF ReadSoFar, Fits, b
  <2>3. LogInv'
    <3>1. Steady(p)' => Steady(p)
      BY <1>5 DEF Steady
    <3> QED
      BY <1>1, <1>2, <1>5, <2>1, <2>2, <3>1 DEF LogInv, Steady
  <2> QED
    BY <1>1, <1>3, <1>8, <2>1, <2>3, LogGoesOn
<1> QED
  BY <1>9, <1>10

LEMMA EndOfLogPreserves == ASSUME IInv, EndOfLog PROVE IInv'
<1> DEFINE b == node[held].lines
<1>1. /\ Quiet /\ pc = "read" /\ pos >= Len(b) /\ UNCHANGED <<held, pos, stack, entry, count>>
      /\ pc' = "size"
  BY DEF EndOfLog, Step, Quiet
<1>2. TypeOK /\ pos \in Nat /\ count \in Int /\ held \in Nat
  BY <1>1 DEF IInv, TypeOK
<1>3. job.tool = "log"
  BY <1>1, <1>2, JobType DEF TypeOK, Stages, ExitCode, Single
<1>4. Least' = Least /\ Most' = Most /\ (Sound' <=> Sound)
  BY <1>1, <1>3, LogStep, QuietKeeps
<1>5. ASSUME Sound PROVE count' \in Least..Most
  <2>1. Least \in Nat /\ Least <= count /\ Most \in Nat /\ count + Unfinished <= Most
    BY <1>1, <1>3, <1>5, WholeLinesCounted
  <2>2. Unfinished \in Nat
    BY DEF Unfinished
  <2> QED
    BY <1>1, <1>2, <2>1, <2>2
<1>6. LogInv'
  BY <1>1, <1>4, <1>5 DEF LogInv
<1> QED
  BY <1>1, <1>2, <1>3, <1>6, LogGoesOn

LEMMA SizeOfLogPreserves == ASSUME IInv, SizeOfLog PROVE IInv'
<1>1. /\ Quiet /\ pc = "size" /\ UNCHANGED <<held, pos, stack, entry, count>>
      /\ pc' = Grade(count)
  BY DEF SizeOfLog, Step, Quiet
<1>2. TypeOK /\ held \in Nat /\ pos \in Nat /\ count \in Int
  BY DEF IInv, TypeOK
<1>3. job.tool = "log"
  BY <1>1, <1>2, JobType DEF TypeOK, Stages, ExitCode, Single
<1>4. job.tool \in Single /\ Least' = Least /\ Most' = Most /\ job.path \in ever
  BY <1>1, <1>3, LogStep DEF ExitCode
<1>5. pc' \in ExitCode
  BY <1>1, QuietKeeps, GradeIs
<1>6. Sound => count \in Least..Most
  BY <1>1 DEF IInv, LogInv
<1> QED
  BY <1>1, <1>2, <1>4, <1>5, <1>6, SingleEnd

-----------------------------------------------------------------------------
(* The walk, step by step. *)

\* A walk that goes on.
LEMMA WalkStep ==
  ASSUME IInv, Quiet, pc' \in Stages,
         pc' \in {"opendir", "scan", "entry", "descend", "count", "skip", "cmdline"},
         UNCHANGED <<held, pos>>, count' \in Int, stack' \in Seq(Frames), entry' \in Seq(Path),
         job.path \in ever, Walking'
  PROVE  IInv'
<1>1. held' \in Nat /\ pos' \in Nat
  BY DEF IInv, TypeOK
<1>2. TypeOK'
  BY <1>1, QuietType
<1>3. job' = job /\ ever' = ever
  BY QuietKeeps
<1>4. pc' \notin {"access", "clock", "open", "read", "size"} /\ pc' \notin ExitCode
  BY DEF ExitCode
<1>5. Missing' /\ AgeInv' /\ LogInv' /\ Done'
  BY <1>3, <1>4 DEF Missing, AgeInv, LogInv, Done
<1> QED
  BY <1>2, <1>5, QuietKeeps DEF IInv

\* A walk that ends.
LEMMA WalkEnd ==
  ASSUME IInv, Quiet, pc' \in ExitCode, UNCHANGED <<held, pos>>, count' \in Int,
         stack' \in Seq(Frames), entry' \in Seq(Path),
         job.path \notin ever => pc' = "CRITICAL" /\ job.okMissing = FALSE,
         Sound => (count \in Least..Most)' /\ pc' = Grade(count)'
  PROVE  IInv'
<1>1. held' \in Nat /\ pos' \in Nat
  BY DEF IInv, TypeOK
<1>2. TypeOK'
  BY <1>1, QuietType
<1>3. job' = job /\ ever' = ever /\ (Sound' <=> Sound)
  BY QuietKeeps
<1>4. pc' \notin {"access", "clock", "open", "read", "size"}
      /\ pc' \notin {"isdir", "opendir", "scan", "entry", "descend", "count", "skip", "cmdline"}
  BY DEF ExitCode
<1>5. Missing' /\ AgeInv' /\ LogInv' /\ Walking'
  BY <1>4 DEF Missing, AgeInv, LogInv, Walking
<1>6. Done'
  BY <1>3 DEF Done
<1> QED
  BY <1>2, <1>5, <1>6, QuietKeeps DEF IInv

\* The files have not changed, so neither has what is asked about a path.
LEMMA QuietPaths ==
  ASSUME IInv, Quiet
  PROVE  \A p : /\ Steady(p)' <=> Steady(p)
                /\ IsDir(p)' <=> IsDir(p)
                /\ CanOpen(p)' <=> CanOpen(p)
                /\ Runs(p)' <=> Runs(p)
                /\ Plain(p)' <=> Plain(p)
                /\ May(p)' <=> May(p)
                /\ Must(p)' <=> Must(p)
<1>1. job' = job /\ at' = at /\ node' = node /\ before' = before
  BY QuietKeeps
<1> TAKE p
<1>2. (Steady(p)' <=> Steady(p)) /\ (IsDir(p)' <=> IsDir(p)) /\ (CanOpen(p)' <=> CanOpen(p))
  BY <1>1 DEF Steady, IsDir, CanOpen
<1>3. (Runs(p)' <=> Runs(p)) /\ (Plain(p)' <=> Plain(p))
  BY <1>1, <1>2 DEF Runs, Plain
<1>4. Matches(Name[p], job.pattern)' <=> Matches(Name[p], job.pattern)
  BY <1>1
<1>5. May(p)' <=> May(p)
  BY <1>1, <1>2, <1>3, <1>4 DEF May
<1> QED
  BY <1>2, <1>3, <1>5 DEF Must

\* The parts of the walk after a step, in terms of the files before it.
LEMMA SeenNext ==
  ASSUME IInv, Quiet, NEW V, NEW O,
         V \subseteq ever, O \subseteq V \cup {job.path},
         \A i \in 1..Len(stack') : stack'[i].dir \in O,
         O = {job.path} \/ (job.tool = "count" /\ job.recursive),
         \A v \in V : Parent[v] \in O,
         job.tool = "count" => V \subseteq Below,
         \A i \in 1..Len(stack') : stack'[i].listed = {v \in V : Parent[v] = stack'[i].dir}
  PROVE  Seen(V, O)'
<1>1. job' = job /\ ever' = ever
  BY QuietKeeps
<1>2. Below' = Below
  BY <1>1 DEF Below
<1>3. OpenDirs' \subseteq O
  BY DEF OpenDirs
<1> QED
  BY <1>1, <1>2, <1>3 DEF Seen

LEMMA ScannedNext ==
  ASSUME IInv, Quiet, NEW V, NEW O,
         \A o \in O : Steady(o) => IsDir(o),
         \A i \in 1..Len(stack') :
           /\ Steady(stack'[i].dir) => stack'[i].ino = at[stack'[i].dir]
           /\ \A c \in Children(stack'[i].dir) : Steady(c) => at[c] \in stack'[i].there,
         \A o \in O : (\A i \in 1..Len(stack') : stack'[i].dir # o) /\ Steady(o) =>
           \A c \in Children(o) : Steady(c) => c \in V
  PROVE  Scanned(V, O)'
<1>1. at' = at /\ before' = before
  BY QuietKeeps
<1>2. \A p : (Steady(p)' <=> Steady(p)) /\ (IsDir(p)' <=> IsDir(p))
  BY QuietPaths
<1>3. \A o \in O : Steady(o)' => IsDir(o)'
  BY <1>2
<1>4. \A i \in 1..Len(stack') : Steady(stack[i].dir)' => stack'[i].ino = at'[stack'[i].dir]
  BY <1>1 DEF Steady
<1>5. \A i \in 1..Len(stack') : \A c \in Children(stack'[i].dir) :
        Steady(c)' => at'[c] \in stack'[i].there
  BY <1>1, <1>2
<1>6. \A o \in O \ OpenDirs' : Steady(o)' => \A c \in Children(o) : Steady(c)' => c \in V
  BY <1>2 DEF OpenDirs
<1> QED
  BY <1>3, <1>4, <1>5, <1>6 DEF Scanned

LEMMA CountedNext ==
  ASSUME IInv, Quiet, NEW C, NEW V, NEW O, NEW P, P = Pending',
         C \subseteq V \ P, count' = Cardinality(C),
         \A c \in C : May(c),
         \A v \in V \ P : Must(v) => v \in C,
         \A v \in V \ P :
           job.tool = "count" /\ job.recursive /\ Steady(v) /\ IsDir(v) /\ CanOpen(v) => v \in O
  PROVE  Counted(C, V, O)'
<1>1. job' = job
  BY QuietKeeps
<1>2. \A p : (Steady(p)' <=> Steady(p)) /\ (IsDir(p)' <=> IsDir(p)) /\ (CanOpen(p)' <=> CanOpen(p))
             /\ (May(p)' <=> May(p)) /\ (Must(p)' <=> Must(p))
  BY QuietPaths
<1> QED
  BY <1>1, <1>2 DEF Counted

\* Nothing is asked about the entry between two of them.
LEMMA AtEntryNext ==
  ASSUME pc' \in {"scan", "cmdline"}, NEW O
  PROVE  AtEntry(O)'
BY DEF AtEntry

\* The types on the way.
LEMMA WalkType ==
  ASSUME IInv, pc \in {"scan", "entry", "descend", "count", "skip", "cmdline"}
  PROVE  /\ job.tool \in {"count", "procs"} /\ job.path \in Path /\ job.path \in ever
         /\ Parent[job.path] = "none" /\ "none" \notin Path /\ IsFiniteSet(Path)
         /\ stack \in Seq(Frames) /\ Len(stack) \in Nat \ {0} /\ DOMAIN stack = 1..Len(stack)
         /\ entry \in Seq(Path) /\ Len(entry) \in Nat /\ count \in Int
         /\ Len(entry) = IF pc = "scan" THEN Len(stack) - 1 ELSE Len(stack)
         /\ \A i \in 1..Len(stack) : stack[i] \in Frames
         /\ \A i \in 1..Len(entry) : entry[i] \in Path
<1>1. TypeOK /\ stack \in Seq(Frames) /\ entry \in Seq(Path) /\ count \in Int
  BY DEF IInv, TypeOK
<1>2. Shape
  BY DEF IInv, Walking, Walk
<1>3. Len(stack) \in Nat \ {0} /\ DOMAIN stack = 1..Len(stack) /\ Len(entry) \in Nat
      /\ Len(entry) = IF pc = "scan" THEN Len(stack) - 1 ELSE Len(stack)
  BY <1>1, <1>2 DEF Shape
<1>4. \A i \in 1..Len(stack) : stack[i] \in Frames
  BY <1>1, ElementOfSeq
<1>5. \A i \in 1..Len(entry) : entry[i] \in Path
  BY <1>1, ElementOfSeq
<1>6. job.tool \in {"count", "procs"}
  BY <1>1, JobType DEF TypeOK, Stages, ExitCode, Single
<1>7. job.path \in ever
  BY DEF IInv, Missing, ExitCode
<1> QED
  BY <1>1, <1>3, <1>4, <1>5, <1>6, <1>7, JobType, JobAssumption

\* A directory as it is when it is opened.
LEMMA FrameIs ==
  ASSUME IInv, NEW p \in Path
  PROVE  /\ Frame(p) \in Frames
         /\ Frame(p).dir = p /\ Frame(p).ino = at[p] /\ Frame(p).listed = {}
         /\ \A c \in Children(p) : Steady(c) => at[c] \in Frame(p).there
<1>1. at \in [Path -> Nat]
  BY DEF IInv, TypeOK
<1>2. Children(p) \subseteq Path
  BY DEF Children
<1> QED
  BY <1>1, <1>2 DEF Frame, Frames, Steady

\* A directory at the path of the command line can be opened if it was there
\* throughout.
LEMMA SoundDirectory ==
  ASSUME IInv, Sound, job.tool \in {"count", "procs"}
  PROVE  IsDir(job.path) /\ CanOpen(job.path)
<1>1. at[job.path] # None
  BY SoundPath
<1>2. node[at[job.path]].kind = "dir"
  BY DEF Sound
<1> QED
  BY <1>1, <1>2 DEF IsDir, CanOpen

LEMMA IsDirectoryPreserves == ASSUME IInv, IsDirectory PROVE IInv'
<1>1. /\ Quiet /\ pc = "isdir" /\ UNCHANGED <<held, pos, stack, entry, count>>
      /\ pc' = IF IsDir(job.path) THEN "opendir" ELSE "CRITICAL"
  BY DEF IsDirectory, Step, Quiet
<1>2. /\ TypeOK /\ count = 0 /\ entry = <<>> /\ count' \in Int
      /\ stack' \in Seq(Frames) /\ entry' \in Seq(Path)
  BY <1>1 DEF IInv, TypeOK, Walking
<1>3. job.tool = "count" /\ job.path \in Path
  BY <1>1, <1>2, JobType DEF TypeOK, Stages, ExitCode, Single
<1>4. CASE IsDir(job.path)
  <2>1. pc' = "opendir" /\ pc' \in Stages
    BY <1>1, <1>3, <1>4 DEF Stages
  <2>2. job.path \in ever
    BY <1>3, <1>4 DEF IInv, History, IsDir
  <2>3. Walking'
    BY <1>1, <1>2, <2>1 DEF Walking
  <2> QED
    BY <1>1, <1>2, <2>1, <2>2, <2>3, WalkStep
<1>5. CASE ~IsDir(job.path)
  <2>1. pc' = "CRITICAL" /\ pc' \in ExitCode
    BY <1>1, <1>5 DEF ExitCode
  <2>2. ~Sound
    BY <1>3, <1>5, SoundDirectory
  <2>3. job.okMissing = FALSE
    BY <1>2, <1>3, JobAssumption DEF TypeOK, Single
  <2> QED
    BY <1>1, <1>2, <2>1, <2>2, <2>3, WalkEnd
<1> QED
  BY <1>4, <1>5

LEMMA OpenDirectoryPreserves == ASSUME IInv, OpenDirectory PROVE IInv'
<1> DEFINE p == job.path
<1>1. /\ Quiet /\ pc = "opendir" /\ UNCHANGED <<held, pos, entry, count>>
      /\ pc' = IF CanOpen(p) /\ IsDir(p) THEN "scan" ELSE "UNKNOWN"
      /\ stack' = <<Frame(p)>>
  BY DEF OpenDirectory, Step, Quiet
<1>2. TypeOK /\ count = 0 /\ entry = <<>>
  BY <1>1 DEF IInv, TypeOK, Walking
<1>3. job.tool \in {"count", "procs"} /\ p \in Path
  BY <1>1, <1>2, JobType DEF TypeOK, Stages, ExitCode, Single
<1>4. p \in ever
  BY <1>1 DEF IInv, Missing, ExitCode
<1>5. /\ stack' \in Seq(Frames) /\ Len(stack') = 1 /\ stack'[1] = Frame(p)
      /\ entry' \in Seq(Path) /\ Len(entry') = 0 /\ count' = 0 /\ job' = job
  BY <1>1, <1>2, <1>3, FrameIs, QuietKeeps
<1>6. CASE CanOpen(p) /\ IsDir(p)
  <2>1. pc' = "scan" /\ pc' \in Stages
    BY <1>1, <1>3, <1>6 DEF Stages
  <2>2. PICK O \in SUBSET Path : O = {p}
    BY <1>3
  <2>3. Shape'
    BY <1>3, <1>5, <2>1, FrameIs DEF Shape
  <2>4. Seen({}, O)'
    BY <1>1, <1>3, <1>5, <2>2, FrameIs, SeenNext
  <2>5. Scanned({}, O)'
    <3>1. \A i \in 1..Len(stack') : stack'[i] = Frame(p)
      BY <1>5
    <3>2. \E i \in 1..Len(stack') : stack'[i].dir = p
      BY <1>3, <1>5, FrameIs
    <3>3. \A o \in O : Steady(o) => IsDir(o)
      BY <1>6, <2>2
    <3>4. \A i \in 1..Len(stack') :
            /\ Steady(stack'[i].dir) => stack'[i].ino = at[stack'[i].dir]
            /\ \A c \in Children(stack'[i].dir) : Steady(c) => at[c] \in stack'[i].there
      BY <1>3, <3>1, FrameIs
    <3>5. \A o \in O : ~(\A i \in 1..Len(stack') : stack'[i].dir # o)
      BY <2>2, <3>2
    <3> QED
      BY <1>1, <3>3, <3>4, <3>5, ScannedNext
  <2>6. Counted({}, {}, O)'
    BY <1>1, <1>5, FS_EmptySet, CountedNext
  <2>7. AtEntry(O)'
    BY <2>1, AtEntryNext
  <2>8. Walk({}, {}, O)'
    BY <2>3, <2>4, <2>5, <2>6, <2>7 DEF Walk
  <2>9. Walking'
    BY <2>1, <2>8 DEF Walking
  <2> QED
    BY <1>1, <1>4, <1>5, <2>1, <2>9, WalkStep
<1>7. CASE ~(CanOpen(p) /\ IsDir(p))
  <2>1. pc' \in ExitCode
    BY <1>1, <1>7 DEF ExitCode
  <2>2. ~Sound
    BY <1>3, <1>7, SoundDirectory
  <2> QED
    BY <1>1, <1>4, <1>5, <2>1, <2>2, QuietKeeps, WalkEnd
<1> QED
  BY <1>6, <1>7

\* What the innermost directory holds is below the path of the command line.
LEMMA TopIsBelow ==
  ASSUME IInv, pc \in {"scan", "entry", "descend", "count", "skip", "cmdline"},
         NEW V \in SUBSET Path, NEW O \in SUBSET Path, Shape, Seen(V, O), job.tool = "count"
  PROVE  Children(Top.dir) \subseteq Below
<1>1. Len(stack) \in 1..Len(stack) /\ job.path \in Path
  BY WalkType
<1>2. Top.dir \in V \cup {job.path}
  BY <1>1 DEF Seen, OpenDirs, Top
<1>3. Inside[job.path] \subseteq Path /\ Children(job.path) \subseteq Inside[job.path]
      /\ \A q \in Inside[job.path] : Children(q) \subseteq Inside[job.path]
  BY <1>1, InsideIsLeast
<1>4. CASE Top.dir = job.path
  BY <1>3, <1>4 DEF Below
<1>5. CASE Top.dir # job.path
  <2>1. Top.dir \in V /\ Top.dir \in O
    BY <1>1, <1>2, <1>5 DEF Seen, OpenDirs, Top
  <2>2. job.recursive
    BY <1>5, <2>1 DEF Seen
  <2>3. Top.dir \in Below
    BY <2>1 DEF Seen
  <2> QED
    BY <1>3, <2>2, <2>3 DEF Below
<1> QED
  BY <1>4, <1>5

LEMMA ReadDirectoryPreserves == ASSUME IInv, ReadDirectory PROVE IInv'
<1> DEFINE n == Len(stack)
<1>1. /\ Quiet /\ pc = "scan" /\ UNCHANGED <<held, pos, count>>
      /\ pc' = IF job.tool = "procs" THEN "cmdline" ELSE "entry"
  BY DEF ReadDirectory, Step, Quiet
<1>2. PICK p \in Children(Top.dir) \ Top.listed :
        /\ at[p] # None /\ entry' = Append(entry, p)
        /\ stack' = [stack EXCEPT ![n].listed = @ \cup {p}]
  BY DEF ReadDirectory
<1>3. PICK C, V, O \in SUBSET Path : Walk(C, V, O)
  BY <1>1 DEF IInv, Walking
<1>4. /\ job.tool \in {"count", "procs"} /\ job.path \in Path /\ job.path \in ever
      /\ Parent[job.path] = "none" /\ "none" \notin Path
      /\ stack \in Seq(Frames) /\ n \in Nat \ {0} /\ DOMAIN stack = 1..n /\ count \in Int
      /\ entry \in Seq(Path) /\ Len(entry) = n - 1
      /\ \A i \in 1..n : stack[i] \in Frames
  BY <1>1, WalkType
<1>5. Shape /\ Seen(V, O) /\ Scanned(V, O) /\ Counted(C, V, O)
  BY <1>3 DEF Walk
<1>6. n \in 1..n /\ Top = stack[n] /\ Top \in Frames /\ Top.dir \in Path
  BY <1>4 DEF Top, Frames
<1>7. p \in Path /\ Parent[p] = Top.dir /\ p \in ever
  BY <1>2 DEF Children, IInv, History
<1>8. p \notin V /\ p \notin O
  <2>1. p \notin V
    BY <1>2, <1>5, <1>6, <1>7 DEF Seen
  <2> QED
    BY <1>4, <1>5, <1>6, <1>7, <2>1 DEF Seen
<1>9. /\ Len(stack') = n /\ stack' \in Seq(Frames)
      /\ \A i \in 1..n : /\ stack'[i].dir = stack[i].dir /\ stack'[i].ino = stack[i].ino
                         /\ stack'[i].there = stack[i].there
                         /\ i # n => stack'[i].listed = stack[i].listed
      /\ stack'[n].listed = stack[n].listed \cup {p}
  <2> DEFINE f == [stack[n] EXCEPT !.listed = @ \cup {p}]
  <2>1. f \in Frames /\ f.dir = stack[n].dir /\ f.ino = stack[n].ino /\ f.there = stack[n].there
        /\ f.listed = stack[n].listed \cup {p}
    BY <1>6, <1>7 DEF Frames
  <2>2. stack' = [stack EXCEPT ![n] = f]
    BY <1>2
  <2> HIDE DEF f
  <2>3. Len(stack') = n /\ stack' \in Seq(Frames)
    BY <1>4, <2>1, <2>2
  <2>4. \A i \in 1..n : stack'[i] = IF i = n THEN f ELSE stack[i]
    BY <1>4, <2>2
  <2> QED
    BY <1>6, <2>1, <2>3, <2>4
<1>10. /\ entry' \in Seq(Path) /\ Len(entry') = n /\ entry'[n] = p
       /\ \A i \in 1..(n - 1) : entry'[i] = entry[i]
  <2>1. /\ entry' \in Seq(Path) /\ Len(entry') = Len(entry) + 1 /\ entry'[Len(entry) + 1] = p
        /\ \A i \in 1..Len(entry) : entry'[i] = entry[i]
    <3>1. entry \in Seq(Path) /\ p \in Path /\ entry' = Append(entry, p)
      BY <1>2, <1>4, <1>7
    <3> QED
      BY <3>1, AppendProperties
  <2>2. Len(entry) + 1 = n /\ Len(entry) = n - 1
    BY <1>4
  <2> QED
    BY <2>1, <2>2
<1>11. pc' \in Stages /\ pc' \in {"cmdline", "entry"}
  BY <1>1, <1>4 DEF Stages
<1>12. PICK W \in SUBSET Path : W = V \cup {p}
  BY <1>7
<1>13. Shape'
  <2>1. job' = job
    BY <1>1, QuietKeeps
  <2>2. stack'[1].dir = job.path
    <3>1. 1 \in 1..n
      BY <1>4
    <3> QED
      BY <1>5, <1>9, <3>1 DEF Shape
  <2>3. \A i, j \in 1..n : stack'[i].dir = stack'[j].dir => i = j
    BY <1>5, <1>9 DEF Shape
  <2>4. \A i \in 1..n : Parent[entry'[i]] = stack'[i].dir /\ entry'[i] \in stack'[i].listed
    <3>1. \A i \in 1..(n - 1) : Parent[entry[i]] = stack[i].dir /\ entry[i] \in stack[i].listed
      BY <1>4, <1>5 DEF Shape
    <3>2. \A m \in Nat \ {0} : \A i \in 1..m : i = m \/ (i \in 1..(m - 1) /\ i # m)
      OBVIOUS
    <3>3. \A i \in 1..n : i = n \/ (i \in 1..(n - 1) /\ i # n)
      BY <1>4, <3>2
    <3> QED
      BY <1>6, <1>7, <1>9, <1>10, <3>1, <3>3
  <2>5. \A i \in 1..n : i > 1 => stack'[i].dir = entry'[i - 1]
    <3>1. \A i \in 1..n : i > 1 => i - 1 \in 1..(n - 1)
      BY <1>4
    <3> QED
      BY <1>5, <1>9, <1>10, <3>1 DEF Shape
  <2> HIDE DEF n
  <2> QED
    BY <1>4, <1>9, <1>10, <1>11, <2>1, <2>2, <2>3, <2>4, <2>5 DEF Shape
<1>14. Seen(W, O)'
  <2>1. W \subseteq ever /\ O \subseteq W \cup {job.path} /\ \A v \in W : Parent[v] \in O
    BY <1>5, <1>6, <1>7, <1>12 DEF Seen, OpenDirs
  <2>2. \A i \in 1..Len(stack') : stack'[i].dir \in O
    BY <1>5, <1>9 DEF Seen, OpenDirs
  <2>3. job.tool = "count" => W \subseteq Below
    BY <1>1, <1>2, <1>5, <1>12, TopIsBelow DEF Seen
  <2>4. ASSUME NEW i \in 1..n
        PROVE  stack'[i].listed = {v \in W : Parent[v] = stack'[i].dir}
    <3>1. stack[i].listed = {v \in V : Parent[v] = stack[i].dir}
      BY <1>5 DEF Seen
    <3>2. i # n => Parent[p] # stack[i].dir
      BY <1>5, <1>6, <1>7 DEF Shape
    <3> QED
      BY <1>6, <1>7, <1>9, <1>12, <3>1, <3>2
  <2>5. O = {job.path} \/ (job.tool = "count" /\ job.recursive)
    BY <1>5 DEF Seen
  <2> QED
    BY <1>1, <1>9, <2>1, <2>2, <2>3, <2>4, <2>5, SeenNext
<1>15. Scanned(W, O)'
  <2>1. \A o \in O : Steady(o) => IsDir(o)
    BY <1>5 DEF Scanned
  <2>2. \A i \in 1..Len(stack') :
          /\ Steady(stack'[i].dir) => stack'[i].ino = at[stack'[i].dir]
          /\ \A c \in Children(stack'[i].dir) : Steady(c) => at[c] \in stack'[i].there
    BY <1>5, <1>9 DEF Scanned
  <2>3. \A o \in O : (\A i \in 1..Len(stack') : stack'[i].dir # o) /\ Steady(o) =>
          \A c \in Children(o) : Steady(c) => c \in W
    BY <1>5, <1>9, <1>12 DEF Scanned, OpenDirs
  <2> QED
    BY <1>1, <2>1, <2>2, <2>3, ScannedNext
<1>16. Counted(C, W, O)'
  <2>1. Pending' = Pending \cup {p}
    <3>1. \A i : i \in 1..n <=> i \in 1..(n - 1) \/ i = n
      BY <1>4
    <3> QED
      BY <1>4, <1>10, <3>1 DEF Pending
  <2>2. W \ (Pending \cup {p}) \subseteq V \ Pending
    BY <1>12
  <2>3. C \subseteq W \ (Pending \cup {p})
    BY <1>5, <1>8, <1>12 DEF Counted
  <2>4. PICK P : P = Pending'
    OBVIOUS
  <2>5. W \ P \subseteq V \ Pending /\ C \subseteq W \ P
    BY <2>1, <2>2, <2>3, <2>4
  <2>6. /\ count' = Cardinality(C) /\ \A c \in C : May(c)
        /\ \A v \in W \ P : Must(v) => v \in C
        /\ \A v \in W \ P :
             job.tool = "count" /\ job.recursive /\ Steady(v) /\ IsDir(v) /\ CanOpen(v) => v \in O
    BY <1>1, <1>5, <2>5 DEF Counted
  <2> QED
    BY <1>1, <2>4, <2>5, <2>6, CountedNext
<1>17. AtEntry(O)'
  <2>1. CASE pc' = "cmdline"
    BY <2>1, AtEntryNext
  <2>2. CASE pc' = "entry"
    BY <1>8, <1>10, <2>2 DEF AtEntry, Entry
  <2> QED
    BY <1>11, <2>1, <2>2
<1>18. Walking'
  <2>1. Walk(C, W, O)'
    BY <1>13, <1>14, <1>15, <1>16, <1>17 DEF Walk
  <2> QED
    BY <1>11, <2>1 DEF Walking
<1> QED
  BY <1>1, <1>4, <1>9, <1>10, <1>11, <1>18, WalkStep

\* A step that opens and closes no directory, and reads none.
LEMMA StackStays ==
  ASSUME IInv, Quiet, UNCHANGED stack, NEW V, NEW O, Seen(V, O), Scanned(V, O)
  PROVE  Seen(V, O)' /\ Scanned(V, O)'
<1>1. Seen(V, O)'
  <2>1. /\ V \subseteq ever /\ O \subseteq V \cup {job.path}
        /\ O = {job.path} \/ (job.tool = "count" /\ job.recursive)
        /\ \A v \in V : Parent[v] \in O
        /\ job.tool = "count" => V \subseteq Below
    BY DEF Seen
  <2>2. /\ \A i \in 1..Len(stack') : stack'[i].dir \in O
        /\ \A i \in 1..Len(stack') : stack'[i].listed = {v \in V : Parent[v] = stack'[i].dir}
    BY DEF Seen, OpenDirs
  <2> QED
    BY <2>1, <2>2, SeenNext
<1>2. Scanned(V, O)'
  <2>1. \A o \in O : Steady(o) => IsDir(o)
    BY DEF Scanned
  <2>2. \A i \in 1..Len(stack') :
          /\ Steady(stack'[i].dir) => stack'[i].ino = at[stack'[i].dir]
          /\ \A c \in Children(stack'[i].dir) : Steady(c) => at[c] \in stack'[i].there
    BY DEF Scanned
  <2>3. \A o \in O : (\A i \in 1..Len(stack') : stack'[i].dir # o) /\ Steady(o) =>
          \A c \in Children(o) : Steady(c) => c \in V
    BY DEF Scanned, OpenDirs
  <2> QED
    BY <2>1, <2>2, <2>3, ScannedNext
<1> QED
  BY <1>1, <1>2

\* A step that asks about the entry, and leaves the rest of the walk alone.
LEMMA EntryStep ==
  ASSUME IInv, Quiet, UNCHANGED <<held, pos, stack, entry, count>>,
         pc \in {"entry", "descend"}, pc' \in {"descend", "count", "skip"}, pc' \in Stages,
         NEW C \in SUBSET Path, NEW V \in SUBSET Path, NEW O \in SUBSET Path,
         Walk(C, V, O), AtEntry(O)'
  PROVE  IInv'
<1>1. job' = job
  BY QuietKeeps
<1>2. Shape /\ Seen(V, O) /\ Scanned(V, O) /\ Counted(C, V, O)
  BY DEF Walk
<1>3. Shape'
  BY <1>1, <1>2 DEF Shape
<1>4. Seen(V, O)' /\ Scanned(V, O)'
  BY <1>2, StackStays
<1>6. Counted(C, V, O)'
  <2>1. PICK P : P = Pending'
    OBVIOUS
  <2>2. P = Pending
    BY <2>1 DEF Pending
  <2>3. /\ C \subseteq V \ P /\ count' = Cardinality(C) /\ \A c \in C : May(c)
        /\ \A v \in V \ P : Must(v) => v \in C
        /\ \A v \in V \ P :
             job.tool = "count" /\ job.recursive /\ Steady(v) /\ IsDir(v) /\ CanOpen(v) => v \in O
    BY <1>2, <2>2 DEF Counted
  <2> QED
    BY <2>1, <2>3, CountedNext
<1>7. Walking'
  <2>1. Walk(C, V, O)'
    BY <1>3, <1>4, <1>6 DEF Walk
  <2> QED
    BY <2>1 DEF Walking
<1>8. job.path \in ever /\ count' \in Int /\ stack' \in Seq(Frames) /\ entry' \in Seq(Path)
  BY WalkType
<1> QED
  BY <1>7, <1>8, WalkStep

LEMMA StatEntryPreserves == ASSUME IInv, StatEntry PROVE IInv'
<1>1. /\ Quiet /\ pc = "entry" /\ UNCHANGED <<held, pos, stack, entry, count>>
      /\ pc' = IF ~IsDir(Entry) THEN "count" ELSE IF job.recursive THEN "descend" ELSE "skip"
  BY DEF StatEntry, Step, Quiet
<1>2. PICK C, V, O \in SUBSET Path : Walk(C, V, O)
  BY <1>1 DEF IInv, Walking
<1>3. job.tool = "count" /\ job' = job
  BY <1>1, JobType, QuietKeeps DEF IInv, TypeOK, Stages, ExitCode, Single
<1>4. pc' \in {"descend", "count", "skip"} /\ pc' \in Stages
  BY <1>1, <1>3 DEF Stages
<1>5. AtEntry(O)'
  <2>1. Entry \notin O
    BY <1>1, <1>2 DEF Walk, AtEntry
  <2>2. Entry' = Entry
    BY <1>1 DEF Entry
  <2>3. IsDir(Entry)' <=> IsDir(Entry)
    BY <1>1, <2>2, QuietKeeps DEF IsDir
  <2> QED
    BY <1>1, <1>3, <2>1, <2>2, <2>3 DEF AtEntry
<1> QED
  BY <1>1, <1>2, <1>4, <1>5, EntryStep

LEMMA DescendPreserves == ASSUME IInv, Descend PROVE IInv'
<1> DEFINE n == Len(stack)
<1>1. /\ Quiet /\ pc = "descend" /\ UNCHANGED <<held, pos, entry, count>>
      /\ pc' = IF CanOpen(Entry) /\ IsDir(Entry) THEN "scan" ELSE "skip"
      /\ stack' = IF CanOpen(Entry) /\ IsDir(Entry) THEN Append(stack, Frame(Entry)) ELSE stack
  BY DEF Descend, Step, Quiet
<1>2. PICK C, V, O \in SUBSET Path : Walk(C, V, O)
  BY <1>1 DEF IInv, Walking
<1>3. job.tool = "count" /\ job' = job
  BY <1>1, JobType, QuietKeeps DEF IInv, TypeOK, Stages, ExitCode, Single
<1>4. Shape /\ Seen(V, O) /\ Scanned(V, O) /\ Counted(C, V, O) /\ AtEntry(O)
  BY <1>2 DEF Walk
<1>5. Entry \notin O /\ job.recursive /\ (Steady(Entry) => IsDir(Entry))
  BY <1>1, <1>4 DEF AtEntry
<1>6. CASE ~(CanOpen(Entry) /\ IsDir(Entry))
  <2>1. pc' = "skip" /\ stack' = stack /\ pc' \in Stages
    BY <1>1, <1>3, <1>6 DEF Stages
  <2>2. AtEntry(O)'
    <3>1. Entry' = Entry
      BY <1>1 DEF Entry
    <3>2. (IsDir(Entry)' <=> IsDir(Entry)) /\ (CanOpen(Entry)' <=> CanOpen(Entry))
          /\ (Steady(Entry)' <=> Steady(Entry))
      BY <1>1, <3>1, QuietKeeps DEF IsDir, CanOpen, Steady
    <3> QED
      BY <1>5, <1>6, <2>1, <3>1, <3>2 DEF AtEntry
  <2> QED
    BY <1>1, <1>2, <2>1, <2>2, EntryStep
<1>7. CASE CanOpen(Entry) /\ IsDir(Entry)
  <2>1. pc' = "scan" /\ pc' \in Stages /\ stack' = Append(stack, Frame(Entry))
    BY <1>1, <1>3, <1>7 DEF Stages
  <2>2. /\ job.path \in Path /\ job.path \in ever /\ count \in Int
        /\ stack \in Seq(Frames) /\ n \in Nat \ {0}
        /\ entry \in Seq(Path) /\ Len(entry) = n
        /\ \A i \in 1..n : entry[i] \in Path
    BY <1>1, WalkType
  <2>3. PICK e \in Path : e = Entry
    <3>1. n \in 1..n
      BY <2>2
    <3> QED
      BY <2>2, <3>1 DEF Entry
  <2>4. n \in 1..n /\ e = entry[n] /\ e \in V /\ e \notin O
    <3>1. n \in 1..n /\ e = entry[n]
      BY <2>2, <2>3 DEF Entry
    <3>2. e \in stack[n].listed
      BY <1>4, <2>2, <3>1 DEF Shape
    <3>3. e \in V
      BY <1>4, <3>1, <3>2 DEF Seen
    <3> QED
      BY <1>5, <2>3, <3>1, <3>3
  <2>5. /\ Frame(e) \in Frames /\ Frame(e).dir = e /\ Frame(e).ino = at[e] /\ Frame(e).listed = {}
        /\ \A c \in Children(e) : Steady(c) => at[c] \in Frame(e).there
    BY FrameIs
  <2>6. /\ stack' \in Seq(Frames) /\ Len(stack') = n + 1 /\ stack'[n + 1] = Frame(e)
        /\ \A i \in 1..n : stack'[i] = stack[i]
    <3>1. stack' = Append(stack, Frame(e))
      BY <2>1, <2>3
    <3> QED
      BY <2>2, <2>5, <3>1, AppendProperties
  <2>7. \A i : i \in 1..(n + 1) <=> i \in 1..n \/ i = n + 1
    BY <2>2
  <2>8. PICK Q \in SUBSET Path : Q = O \cup {e}
    OBVIOUS
  <2>9. Shape'
    <3>1. stack'[1].dir = job.path
      <4>1. 1 \in 1..n
        BY <2>2
      <4> QED
        BY <1>4, <2>6, <4>1 DEF Shape
    <3>2. \A i, j \in 1..(n + 1) : stack'[i].dir = stack'[j].dir => i = j
      <4>1. \A i \in 1..n : stack'[i].dir # e
        BY <1>4, <2>4, <2>6 DEF Seen, OpenDirs
      <4>2. \A i, j \in 1..n : stack'[i].dir = stack'[j].dir => i = j
        BY <1>4, <2>6 DEF Shape
      <4> QED
        BY <2>5, <2>6, <2>7, <4>1, <4>2
    <3>3. \A i \in 1..n : Parent[entry'[i]] = stack'[i].dir /\ entry'[i] \in stack'[i].listed
      BY <1>1, <1>4, <2>2, <2>6 DEF Shape
    <3>4. \A i \in 1..(n + 1) : i > 1 => stack'[i].dir = entry'[i - 1]
      <4>1. (n + 1) - 1 = n
        BY <2>2
      <4>2. \A i \in 1..n : i > 1 => stack'[i].dir = entry'[i - 1]
        BY <1>1, <1>4, <2>6 DEF Shape
      <4> QED
        BY <1>1, <2>4, <2>5, <2>6, <2>7, <4>1, <4>2
    <3>5. Len(entry') = (n + 1) - 1 /\ n + 1 >= 1
      BY <1>1, <2>2
    <3> HIDE DEF n
    <3> QED
      BY <1>1, <1>3, <2>1, <2>2, <2>6, <3>1, <3>2, <3>3, <3>4, <3>5 DEF Shape
  <2>10. Seen(V, Q)'
    <3>1. V \subseteq ever /\ Q \subseteq V \cup {job.path} /\ \A v \in V : Parent[v] \in Q
      BY <1>4, <2>4, <2>8 DEF Seen
    <3>2. \A i \in 1..Len(stack') : stack'[i].dir \in Q
      BY <1>4, <2>5, <2>6, <2>7, <2>8 DEF Seen, OpenDirs
    <3>3. ASSUME NEW i \in 1..(n + 1)
          PROVE  stack'[i].listed = {v \in V : Parent[v] = stack'[i].dir}
      <4>1. \A v \in V : Parent[v] # e
        BY <1>4, <2>4 DEF Seen
      <4>2. CASE i \in 1..n
        BY <1>4, <2>6, <4>2 DEF Seen
      <4>3. CASE i = n + 1
        BY <2>5, <2>6, <4>1, <4>3
      <4> QED
        BY <2>7, <4>2, <4>3
    <3>4. job.tool = "count" => V \subseteq Below
      BY <1>4 DEF Seen
    <3> QED
      BY <1>1, <1>3, <1>5, <2>6, <3>1, <3>2, <3>3, <3>4, SeenNext
  <2>11. Scanned(V, Q)'
    <3>1. \A o \in Q : Steady(o) => IsDir(o)
      BY <1>4, <1>7, <2>3, <2>8 DEF Scanned
    <3>2. ASSUME NEW i \in 1..(n + 1)
          PROVE  /\ Steady(stack'[i].dir) => stack'[i].ino = at[stack'[i].dir]
                 /\ \A c \in Children(stack'[i].dir) : Steady(c) => at[c] \in stack'[i].there
      <4>1. CASE i \in 1..n
        BY <1>4, <2>6, <4>1 DEF Scanned
      <4>2. CASE i = n + 1
        BY <2>5, <2>6, <4>2
      <4> QED
        BY <2>7, <4>1, <4>2
    <3>3. \A o \in Q : (\A i \in 1..Len(stack') : stack'[i].dir # o) /\ Steady(o) =>
            \A c \in Children(o) : Steady(c) => c \in V
      <4> SUFFICES ASSUME NEW o \in Q, \A i \in 1..(n + 1) : stack'[i].dir # o, Steady(o),
                          NEW c \in Children(o), Steady(c)
                   PROVE  c \in V
        BY <2>6
      <4>1. o # e /\ \A i \in 1..n : stack[i].dir # o
        BY <2>5, <2>6, <2>7
      <4> QED
        BY <1>4, <2>8, <4>1 DEF Scanned, OpenDirs
    <3> QED
      BY <1>1, <2>6, <3>1, <3>2, <3>3, ScannedNext
  <2>12. Counted(C, V, Q)'
    <3>1. PICK P : P = Pending'
      OBVIOUS
    <3>2. P = Pending
      BY <1>1, <3>1 DEF Pending
    <3>3. /\ C \subseteq V \ P /\ count' = Cardinality(C) /\ \A c \in C : May(c)
          /\ \A v \in V \ P : Must(v) => v \in C
          /\ \A v \in V \ P :
               job.tool = "count" /\ job.recursive /\ Steady(v) /\ IsDir(v) /\ CanOpen(v) => v \in Q
      BY <1>1, <1>4, <2>8, <3>2 DEF Counted
    <3> QED
      BY <1>1, <3>1, <3>3, CountedNext
  <2>13. Walking'
    <3>1. Walk(C, V, Q)'
      BY <2>1, <2>9, <2>10, <2>11, <2>12, AtEntryNext DEF Walk
    <3> QED
      BY <2>1, <3>1 DEF Walking
  <2> QED
    BY <1>1, <2>1, <2>2, <2>6, <2>13, WalkStep
<1> QED
  BY <1>6, <1>7

\* The entry is done with, counted or not.
LEMMA EntryDone ==
  ASSUME IInv, Quiet, UNCHANGED <<held, pos, stack>>,
         pc \in {"count", "skip", "cmdline"}, pc' = "scan",
         entry' = SubSeq(entry, 1, Len(entry) - 1),
         NEW C \in SUBSET Path, NEW V \in SUBSET Path, NEW O \in SUBSET Path, Walk(C, V, O),
         NEW e, e = Entry, NEW counted \in BOOLEAN,
         count' = IF counted THEN count + 1 ELSE count,
         counted => May(e), Must(e) => counted,
         job.tool = "count" /\ job.recursive /\ Steady(e) /\ IsDir(e) /\ CanOpen(e) => e \in O
  PROVE  IInv'
<1> DEFINE n == Len(stack)
<1>1. job' = job
  BY QuietKeeps
<1>2. Shape /\ Seen(V, O) /\ Scanned(V, O) /\ Counted(C, V, O)
  BY DEF Walk
<1>3. /\ job.tool \in {"count", "procs"} /\ job.path \in ever /\ count \in Int /\ IsFiniteSet(Path)
      /\ stack \in Seq(Frames) /\ n \in Nat \ {0} /\ entry \in Seq(Path) /\ Len(entry) = n
  BY WalkType
<1>4. /\ entry' \in Seq(Path) /\ Len(entry') = n - 1
      /\ \A i \in 1..(n - 1) : entry'[i] = entry[i]
  <2>1. /\ 1 \in 1..(Len(entry) + 1) /\ Len(entry) - 1 \in 0..Len(entry)
    BY <1>3
  <2>2. /\ SubSeq(entry, 1, Len(entry) - 1) \in Seq(Path)
        /\ Len(SubSeq(entry, 1, Len(entry) - 1)) = Len(entry) - 1
        /\ \A i \in 1..(Len(entry) - 1) : SubSeq(entry, 1, Len(entry) - 1)[i] = entry[i]
    BY <1>3, <2>1
  <2> QED
    BY <1>3, <2>2
<1>5. n \in 1..n /\ e = entry[n]
  BY <1>3 DEF Entry
<1>6. e \in V /\ Parent[e] = stack[n].dir
  <2>1. e \in stack[n].listed /\ Parent[e] = stack[n].dir
    BY <1>2, <1>3, <1>5 DEF Shape
  <2> QED
    BY <1>2, <1>5, <2>1 DEF Seen
<1>7. \A i : i \in 1..n <=> i \in 1..(n - 1) \/ i = n
  BY <1>3
<1>8. n \notin 1..(n - 1)
  BY <1>3
<1>9. e \in Pending /\ Pending' = Pending \ {e}
  <2>1. Pending = {entry[i] : i \in 1..(n - 1)} \cup {e}
    BY <1>3, <1>5, <1>7 DEF Pending
  <2>2. Pending' = {entry[i] : i \in 1..(n - 1)}
    BY <1>4 DEF Pending
  <2>3. \A i \in 1..(n - 1) : entry[i] # e
    <3>1. \A i \in 1..(n - 1) : Parent[entry[i]] = stack[i].dir /\ stack[i].dir # stack[n].dir
      BY <1>2, <1>3, <1>5, <1>7, <1>8 DEF Shape
    <3> QED
      BY <1>6, <3>1
  <2> QED
    BY <2>1, <2>2, <2>3
<1>10. Shape'
  <2>1. \A i \in 1..(n - 1) : Parent[entry'[i]] = stack'[i].dir /\ entry'[i] \in stack'[i].listed
    BY <1>2, <1>3, <1>4, <1>7 DEF Shape
  <2>2. \A i \in 1..n : i > 1 => stack'[i].dir = entry'[i - 1]
    <3>1. \A i \in 1..n : i > 1 => i - 1 \in 1..(n - 1)
      BY <1>3
    <3> QED
      BY <1>2, <1>4, <3>1 DEF Shape
  <2>3. /\ n >= 1 /\ stack'[1].dir = job.path
        /\ \A i, j \in 1..n : stack'[i].dir = stack'[j].dir => i = j
    BY <1>2 DEF Shape
  <2> QED
    BY <1>1, <1>3, <1>4, <2>1, <2>2, <2>3 DEF Shape
<1>11. Seen(V, O)' /\ Scanned(V, O)'
  BY <1>2, StackStays
<1>12. PICK D \in SUBSET Path : D = IF counted THEN C \cup {e} ELSE C
  BY <1>6
<1>13. Counted(D, V, O)'
  <2>1. PICK P : P = Pending'
    OBVIOUS
  <2>2. /\ C \subseteq V \ Pending /\ count = Cardinality(C) /\ \A c \in C : May(c)
        /\ \A v \in V \ Pending : Must(v) => v \in C
        /\ \A v \in V \ Pending :
             job.tool = "count" /\ job.recursive /\ Steady(v) /\ IsDir(v) /\ CanOpen(v) => v \in O
    BY <1>2 DEF Counted
  <2>3. e \notin C /\ IsFiniteSet(C)
    BY <1>3, <1>9, <2>2, FS_Subset
  <2>4. count' = Cardinality(D)
    BY <1>12, <2>2, <2>3, FS_AddElement
  <2>5. D \subseteq V \ P /\ \A v \in V \ P : v \in V \ Pending \/ v = e
    BY <1>6, <1>9, <1>12, <2>1, <2>2
  <2>6. \A c \in D : May(c)
    BY <1>12, <2>2
  <2>7. \A v \in V \ P : Must(v) => v \in D
    BY <1>12, <2>2, <2>5
  <2>8. \A v \in V \ P :
          job.tool = "count" /\ job.recursive /\ Steady(v) /\ IsDir(v) /\ CanOpen(v) => v \in O
    BY <2>2, <2>5
  <2> QED
    BY <2>1, <2>4, <2>5, <2>6, <2>7, <2>8, CountedNext
<1>14. Walking'
  <2>1. Walk(D, V, O)'
    BY <1>10, <1>11, <1>13, AtEntryNext DEF Walk
  <2> QED
    BY <2>1 DEF Walking
<1>15. pc' \in Stages
  BY <1>3 DEF Stages
<1>16. count' \in Int /\ stack' \in Seq(Frames)
  BY <1>3
<1> QED
  BY <1>3, <1>4, <1>14, <1>15, <1>16, WalkStep

LEMMA CountEntryPreserves == ASSUME IInv, CountEntry PROVE IInv'
<1> DEFINE counted == (pc = "count" \/ job.dirs) /\ Matches(Name[Entry], job.pattern)
<1>1. /\ Quiet /\ pc \in {"count", "skip"} /\ pc' = "scan" /\ UNCHANGED <<held, pos, stack>>
      /\ count' = IF counted THEN count + 1 ELSE count
      /\ entry' = SubSeq(entry, 1, Len(entry) - 1)
  BY DEF CountEntry, Step, Quiet
<1>2. PICK C, V, O \in SUBSET Path : Walk(C, V, O)
  BY <1>1 DEF IInv, Walking
<1>3. job.tool = "count"
  BY <1>1, JobType DEF IInv, TypeOK, Stages, ExitCode, Single
<1>4. AtEntry(O)
  BY <1>2 DEF Walk
<1>5. PICK e : e = Entry
  OBVIOUS
<1>6. PICK b \in BOOLEAN : b <=> counted
  OBVIOUS
<1>7. (b => May(e)) /\ (Must(e) => b)
  <2>1. Steady(e) => (Plain(e) <=> pc = "count" \/ job.dirs)
    BY <1>1, <1>4, <1>5 DEF AtEntry, Plain
  <2>2. Matches(Name[e], job.pattern) <=> Matches(Name[Entry], job.pattern)
    BY <1>5
  <2>3. May(e) <=> (Steady(e) => Plain(e)) /\ Matches(Name[e], job.pattern)
    BY <1>3 DEF May
  <2> QED
    BY <1>6, <2>1, <2>2, <2>3 DEF Must
<1>8. job.recursive /\ Steady(e) /\ IsDir(e) /\ CanOpen(e) => e \in O
  BY <1>1, <1>4, <1>5 DEF AtEntry
<1>9. count' = IF b THEN count + 1 ELSE count
  BY <1>1, <1>6
<1> QED
  BY <1>1, <1>2, <1>5, <1>7, <1>8, <1>9, EntryDone

LEMMA ReadCmdlinePreserves == ASSUME IInv, ReadCmdline PROVE IInv'
<1> DEFINE counted == job.query = "none" \/ (at[Entry] # None /\ node[at[Entry]].lines = <<"hit">>)
<1>1. /\ Quiet /\ pc = "cmdline" /\ pc' = "scan" /\ UNCHANGED <<held, pos, stack>>
      /\ count' = IF counted THEN count + 1 ELSE count
      /\ entry' = SubSeq(entry, 1, Len(entry) - 1)
  BY DEF ReadCmdline, Step, Quiet
<1>2. PICK C, V, O \in SUBSET Path : Walk(C, V, O)
  BY <1>1 DEF IInv, Walking
<1>3. job.tool = "procs"
  BY <1>1, JobType DEF IInv, TypeOK, Stages, ExitCode, Single
<1>4. PICK e : e = Entry
  OBVIOUS
<1>5. PICK b \in BOOLEAN : b <=> counted
  OBVIOUS
<1>6. (b => May(e)) /\ (Must(e) => b)
  BY <1>3, <1>4, <1>5 DEF May, Must, Runs, Steady
<1>7. count' = IF b THEN count + 1 ELSE count
  BY <1>1, <1>5
<1> QED
  BY <1>1, <1>2, <1>3, <1>4, <1>6, <1>7, EntryDone

\* A finite set between two others.
LEMMA BetweenSets ==
  ASSUME NEW A, NEW B, NEW D, NEW S, IsFiniteSet(S), A \subseteq B, B \subseteq D, D \subseteq S
  PROVE  Cardinality(B) \in Cardinality(A)..Cardinality(D)
<1>1. IsFiniteSet(D) /\ IsFiniteSet(B) /\ IsFiniteSet(A)
  BY FS_Subset
<1>2. Cardinality(A) <= Cardinality(B) /\ Cardinality(B) <= Cardinality(D)
  BY <1>1, FS_Subset
<1> QED
  BY <1>1, <1>2, FS_CardinalityType

\* What was in the innermost directory throughout has been returned when it is
\* closed.
LEMMA TopIsRead ==
  ASSUME IInv, CloseDirectory, pc = "scan", NEW V, NEW O, Seen(V, O), Scanned(V, O),
         Steady(Top.dir), NEW c \in Children(Top.dir), Steady(c)
  PROVE  c \in V
<1>1. Len(stack) \in 1..Len(stack) /\ Top = stack[Len(stack)]
  <2>1. Len(stack) \in Nat \ {0}
    BY WalkType
  <2> QED
    BY <2>1 DEF Top
<1>2. at[Top.dir] = Top.ino /\ at[c] \in Top.there
  BY <1>1 DEF Scanned
<1>3. c \in Top.listed
  BY <1>2 DEF CloseDirectory
<1> QED
  BY <1>1, <1>3 DEF Seen

LEMMA CloseInnerPreserves ==
  ASSUME IInv, CloseDirectory, Len(stack) > 1
  PROVE  IInv'
<1> DEFINE n == Len(stack)
<1>1. /\ Quiet /\ pc = "scan" /\ pc' = "skip" /\ UNCHANGED <<held, pos, entry, count>>
      /\ stack' = SubSeq(stack, 1, n - 1)
  BY DEF CloseDirectory, Step, Quiet
<1>2. PICK C, V, O \in SUBSET Path : Walk(C, V, O)
  BY <1>1 DEF IInv, Walking
<1>3. Shape /\ Seen(V, O) /\ Scanned(V, O) /\ Counted(C, V, O)
  BY <1>2 DEF Walk
<1>4. /\ job.tool \in {"count", "procs"} /\ job.path \in ever /\ count \in Int
      /\ stack \in Seq(Frames) /\ n \in Nat /\ n > 1 /\ entry \in Seq(Path) /\ Len(entry) = n - 1
      /\ job' = job
  BY <1>1, WalkType, QuietKeeps
<1>5. /\ stack' \in Seq(Frames) /\ Len(stack') = n - 1
      /\ \A i \in 1..(n - 1) : stack'[i] = stack[i]
  BY <1>1, <1>4
<1>6. \A i : i \in 1..n <=> i \in 1..(n - 1) \/ i = n
  BY <1>4
<1>7. 1 \in 1..(n - 1) /\ n \in 1..n /\ n - 1 \in 1..(n - 1) /\ n \notin 1..(n - 1) /\ n - 1 >= 1
  BY <1>4
<1>8. Top.dir = stack[n].dir /\ Top.dir = entry[n - 1] /\ Top.dir \in O
  <2>1. Top = stack[n]
    BY DEF Top
  <2>2. stack[n].dir = entry[n - 1]
    BY <1>3, <1>4, <1>7 DEF Shape
  <2>3. stack[n].dir \in O
    BY <1>3, <1>7 DEF Seen, OpenDirs
  <2> QED
    BY <2>1, <2>2, <2>3
<1>9. job.tool = "count" /\ job.recursive
  <2>1. Top.dir # job.path
    BY <1>3, <1>4, <1>6, <1>7, <1>8 DEF Shape
  <2> QED
    BY <1>3, <1>8, <2>1 DEF Seen
<1>10. Shape'
  <2>1. stack'[1].dir = job.path
    BY <1>3, <1>5, <1>7 DEF Shape
  <2>2. \A i, j \in 1..(n - 1) : stack'[i].dir = stack'[j].dir => i = j
    BY <1>3, <1>5, <1>6 DEF Shape
  <2>3. \A i \in 1..(n - 1) : Parent[entry'[i]] = stack'[i].dir /\ entry'[i] \in stack'[i].listed
    BY <1>1, <1>3, <1>4, <1>5 DEF Shape
  <2>4. \A i \in 1..(n - 1) : i > 1 => stack'[i].dir = entry'[i - 1]
    BY <1>1, <1>3, <1>5, <1>6 DEF Shape
  <2> HIDE DEF n
  <2> QED
    BY <1>1, <1>4, <1>5, <1>7, <2>1, <2>2, <2>3, <2>4 DEF Shape
<1>11. Seen(V, O)'
  <2>1. /\ V \subseteq ever /\ O \subseteq V \cup {job.path} /\ \A v \in V : Parent[v] \in O
        /\ job.tool = "count" => V \subseteq Below
    BY <1>3 DEF Seen
  <2>2. \A i \in 1..Len(stack') : stack'[i].dir \in O
    BY <1>3, <1>5, <1>6 DEF Seen, OpenDirs
  <2>3. \A i \in 1..Len(stack') : stack'[i].listed = {v \in V : Parent[v] = stack'[i].dir}
    BY <1>3, <1>5, <1>6 DEF Seen
  <2> QED
    BY <1>1, <1>9, <2>1, <2>2, <2>3, SeenNext
<1>12. Scanned(V, O)'
  <2>1. \A o \in O : Steady(o) => IsDir(o)
    BY <1>3 DEF Scanned
  <2>2. \A i \in 1..Len(stack') :
          /\ Steady(stack'[i].dir) => stack'[i].ino = at[stack'[i].dir]
          /\ \A c \in Children(stack'[i].dir) : Steady(c) => at[c] \in stack'[i].there
    BY <1>3, <1>5, <1>6 DEF Scanned
  <2>3. \A o \in O : (\A i \in 1..Len(stack') : stack'[i].dir # o) /\ Steady(o) =>
          \A c \in Children(o) : Steady(c) => c \in V
    <3> SUFFICES ASSUME NEW o \in O, \A i \in 1..(n - 1) : stack'[i].dir # o, Steady(o),
                        NEW c \in Children(o), Steady(c)
                 PROVE  c \in V
      BY <1>5
    <3>1. CASE o = Top.dir
      BY <1>1, <1>3, <3>1, TopIsRead
    <3>2. CASE o # Top.dir
      <4>1. \A i \in 1..n : stack[i].dir # o
        BY <1>5, <1>6, <1>8, <3>2
      <4> QED
        BY <1>3, <4>1 DEF Scanned, OpenDirs
    <3> QED
      BY <3>1, <3>2
  <2> QED
    BY <1>1, <2>1, <2>2, <2>3, ScannedNext
<1>13. Counted(C, V, O)'
  <2>1. PICK P : P = Pending'
    OBVIOUS
  <2>2. P = Pending
    BY <1>1, <2>1 DEF Pending
  <2>3. /\ C \subseteq V \ P /\ count' = Cardinality(C) /\ \A c \in C : May(c)
        /\ \A v \in V \ P : Must(v) => v \in C
        /\ \A v \in V \ P :
             job.tool = "count" /\ job.recursive /\ Steady(v) /\ IsDir(v) /\ CanOpen(v) => v \in O
    BY <1>1, <1>3, <2>2 DEF Counted
  <2> QED
    BY <1>1, <2>1, <2>3, CountedNext
<1>14. AtEntry(O)'
  <2>1. PICK e : e = Top.dir
    OBVIOUS
  <2>2. Entry' = e
    BY <1>1, <1>4, <1>8, <2>1 DEF Entry
  <2>3. e \in O /\ (Steady(e) => IsDir(e))
    BY <1>3, <1>8, <2>1 DEF Scanned
  <2>4. (Steady(e)' <=> Steady(e)) /\ (IsDir(e)' <=> IsDir(e))
    BY <1>1, QuietPaths
  <2>5. Steady(Entry)' => IsDir(Entry)'
    BY <2>2, <2>3, <2>4 DEF Steady, IsDir
  <2> QED
    BY <1>1, <2>2, <2>3, <2>5 DEF AtEntry
<1>15. Walking'
  <2>1. Walk(C, V, O)'
    BY <1>10, <1>11, <1>12, <1>13, <1>14 DEF Walk
  <2> QED
    BY <1>1, <2>1 DEF Walking
<1>16. pc' \in Stages /\ count' \in Int /\ entry' \in Seq(Path)
  BY <1>1, <1>4, <1>9 DEF Stages
<1> QED
  BY <1>1, <1>4, <1>5, <1>15, <1>16, WalkStep

\* All that was there throughout, on a way that was open throughout, has been
\* returned when the first directory is closed.
LEMMA ListedIsSeen ==
  ASSUME IInv, CloseDirectory, pc = "scan", Len(stack) = 1, job.tool = "count",
         Steady(job.path),
         NEW C \in SUBSET Path, NEW V \in SUBSET Path, NEW O \in SUBSET Path, Walk(C, V, O)
  PROVE  \A p \in Below : Reached(p) /\ Steady(p) => p \in V
<1>1. Shape /\ Seen(V, O) /\ Scanned(V, O) /\ Counted(C, V, O)
  BY DEF Walk
<1>2. job.path \in Path /\ "none" \notin Path /\ Len(entry) = 0 /\ \A i \in 1..1 : i = 1
  BY WalkType
<1>3. Top.dir = job.path /\ OpenDirs = {job.path} /\ Pending = {}
  <2>1. Top.dir = job.path
    BY <1>1 DEF Top, Shape
  <2>2. OpenDirs = {job.path}
    BY <1>1, <1>2 DEF OpenDirs, Shape
  <2>3. Pending = {}
    BY <1>2 DEF Pending
  <2> QED
    BY <2>1, <2>2, <2>3
<1>4. \A c \in Children(job.path) : Steady(c) => c \in V
  BY <1>1, <1>3, TopIsRead
<1>5. CASE ~job.recursive
  BY <1>4, <1>5 DEF Below
<1>6. CASE job.recursive
  <2> DEFINE S == {p \in Inside[job.path] : Reached(p) /\ Steady(p) => p \in V}
  <2>1. /\ Below = Inside[job.path] /\ Inside[job.path] \subseteq Path
        /\ Children(job.path) \subseteq Inside[job.path]
        /\ \A q \in Inside[job.path] : Children(q) \subseteq Inside[job.path]
        /\ \A T \in SUBSET Path :
             Children(job.path) \subseteq T /\ (\A q \in T : Children(q) \subseteq T)
               => Inside[job.path] \subseteq T
    BY <1>2, <1>6, InsideIsLeast DEF Below
  <2>2. Children(job.path) \subseteq S
    BY <1>4, <2>1
  <2>3. ASSUME NEW q \in S PROVE Children(q) \subseteq S
    <3> SUFFICES ASSUME NEW c \in Children(q), Reached(c), Steady(c) PROVE c \in V
      BY <2>1
    <3>1. q \in Path /\ q \in Below /\ c \in Path /\ Parent[c] = q
      BY <2>1 DEF Children
    <3>2. c \in Inside[q] /\ \A d \in Path : q \in Inside[d] => c \in Inside[d]
      BY <3>1, InsideIsLeast
    <3>3. Steady(q) /\ CanOpen(q)
      BY <3>1, <3>2 DEF Reached
    <3>4. Reached(q)
      BY <2>1, <3>2 DEF Reached
    <3>5. IsDir(q)
      BY <1>2, <3>1 DEF Steady, IInv, History
    <3>6. q \in V
      BY <3>3, <3>4
    <3>7. q \in O
      BY <1>1, <1>3, <1>6, <3>3, <3>5, <3>6 DEF Counted
    <3>8. CASE q = job.path
      BY <1>4, <3>8
    <3>9. CASE q # job.path
      BY <1>1, <1>3, <3>3, <3>7, <3>9 DEF Scanned
    <3> QED
      BY <3>8, <3>9
  <2>4. S \subseteq Path
    BY <2>1
  <2> HIDE DEF S
  <2>5. Inside[job.path] \subseteq S
    BY <2>1, <2>2, <2>3, <2>4
  <2> QED
    BY <2>1, <2>5 DEF S
<1> QED
  BY <1>5, <1>6

\* The count of a walk lies between what was there throughout and what was ever
\* there.
LEMMA WalkCountsBetween ==
  ASSUME IInv, CloseDirectory, pc = "scan", Len(stack) = 1, Sound
  PROVE  count \in Cardinality(Listed)..Cardinality(Listable)
<1>1. PICK C, V, O \in SUBSET Path : Walk(C, V, O)
  BY DEF IInv, Walking
<1>2. Shape /\ Seen(V, O) /\ Scanned(V, O) /\ Counted(C, V, O)
  BY <1>1 DEF Walk
<1>3. /\ job.tool \in {"count", "procs"} /\ job.path \in Path /\ IsFiniteSet(Path)
      /\ Len(entry) = 0 /\ job \in Jobs /\ Steady(job.path)
      /\ ever \subseteq Path
  <2>1. job \in Jobs /\ ever \subseteq Path
    BY DEF IInv, TypeOK
  <2>2. Steady(job.path)
    BY DEF Sound
  <2> QED
    BY <2>1, <2>2, WalkType
<1>4. Pending = {}
  BY <1>3 DEF Pending
<1>5. C \subseteq V /\ count = Cardinality(C) /\ \A c \in C : May(c)
  BY <1>2 DEF Counted
<1>6. \A v \in V : Must(v) => v \in C
  BY <1>2, <1>4 DEF Counted
<1>7. CASE job.tool = "procs"
  <2>1. O = {job.path} /\ V \subseteq ever /\ \A v \in V : Parent[v] \in O
    BY <1>2, <1>7 DEF Seen
  <2>2. V \subseteq Children(job.path)
    BY <2>1 DEF Children
  <2>3. Top.dir = job.path
    BY <1>2 DEF Top, Shape
  <2>4. \A c \in Children(job.path) : Steady(c) => c \in V
    BY <1>2, <1>3, <2>3, TopIsRead
  <2>5. \A p : May(p) <=> (Steady(p) => Runs(p))
    BY <1>7 DEF May
  <2>6. Listed = {p \in Children(job.path) : Steady(p) /\ Runs(p)}
    BY <1>7 DEF Listed
  <2>7. Listable = {p \in Children(job.path) \cap ever : Steady(p) => Runs(p)}
    BY <1>7 DEF Listable
  <2>8. Listed \subseteq C
    BY <1>6, <2>4, <2>5, <2>6 DEF Must
  <2>9. C \subseteq Listable
    BY <1>5, <2>1, <2>2, <2>5, <2>7
  <2>10. Listable \subseteq Path
    BY <1>3, <2>7
  <2> QED
    BY <1>3, <1>5, <2>8, <2>9, <2>10, BetweenSets
<1>8. CASE job.tool = "count"
  <2>1. V \subseteq ever /\ V \subseteq Below
    BY <1>2, <1>8 DEF Seen
  <2>2. \A p \in Below : Reached(p) /\ Steady(p) => p \in V
    BY <1>1, <1>3, <1>8, ListedIsSeen
  <2>3. \A p : May(p) <=> (Steady(p) => Plain(p)) /\ Matches(Name[p], job.pattern)
    BY <1>8 DEF May
  <2>4. Listed = {p \in Below : Reached(p) /\ Steady(p) /\ Plain(p) /\ Matches(Name[p], job.pattern)}
    BY <1>8 DEF Listed
  <2>5. Listable = {p \in Below \cap ever : (Steady(p) => Plain(p)) /\ Glob(Name[p], job.pattern)}
    BY <1>8 DEF Listable
  <2>6. Listed \subseteq C
    BY <1>6, <2>2, <2>3, <2>4 DEF Must
  <2>7. \A p \in Path : Matches(Name[p], job.pattern) => Glob(Name[p], job.pattern)
    BY <1>3, JobAssumption, MatchIsGlob
  <2>8. C \subseteq Listable
    BY <1>5, <2>1, <2>3, <2>5, <2>7
  <2>9. Listable \subseteq Path
    BY <1>3, <2>5
  <2> QED
    BY <1>3, <1>5, <2>6, <2>8, <2>9, BetweenSets
<1> QED
  BY <1>3, <1>7, <1>8

\* The step does not change what counts.
LEMMA QuietBounds ==
  ASSUME IInv, Quiet, job.tool \in {"count", "procs"}
  PROVE  Least' = Cardinality(Listed) /\ Most' = Cardinality(Listable)
<1>1. job' = job /\ ever' = ever
  BY QuietKeeps
<1>2. \A p : /\ (Steady(p)' <=> Steady(p)) /\ (CanOpen(p)' <=> CanOpen(p))
             /\ (Runs(p)' <=> Runs(p)) /\ (Plain(p)' <=> Plain(p))
  BY QuietPaths
<1>3. Below' = Below
  BY <1>1 DEF Below
<1>4. \A p : Reached(p)' <=> Reached(p)
  BY <1>2, <1>3 DEF Reached
<1>5. Listed' = Listed
  BY <1>1, <1>2, <1>3, <1>4 DEF Listed
<1>6. Listable' = Listable
  BY <1>1, <1>2, <1>3 DEF Listable
<1>7. job'.tool \notin {"age", "size", "log"}
  BY <1>1
<1> QED
  BY <1>5, <1>6, <1>7 DEF Least, Most

LEMMA CloseDirectoryPreserves == ASSUME IInv, CloseDirectory PROVE IInv'
<1>1. /\ Quiet /\ pc = "scan" /\ UNCHANGED <<held, pos, entry, count>>
      /\ pc' = IF Len(stack) > 1 THEN "skip" ELSE Grade(count)
      /\ stack' = SubSeq(stack, 1, Len(stack) - 1)
  BY DEF CloseDirectory, Step, Quiet
<1>2. /\ job.tool \in {"count", "procs"} /\ job.path \in ever /\ count \in Int
      /\ stack \in Seq(Frames) /\ Len(stack) \in Nat \ {0} /\ entry \in Seq(Path)
  BY <1>1, WalkType
<1>3. CASE Len(stack) > 1
  BY <1>3, CloseInnerPreserves
<1>4. CASE ~(Len(stack) > 1)
  <2>1. Len(stack) = 1
    <3>1. \A n \in Nat \ {0} : ~(n > 1) => n = 1
      OBVIOUS
    <3> QED
      BY <1>2, <1>4, <3>1
  <2>2. pc' = Grade(count) /\ stack' = SubSeq(stack, 1, 0)
    BY <1>1, <2>1
  <2>3. stack' \in Seq(Frames)
    BY <1>2, <2>1, <2>2
  <2>4. Grade(count)' = Grade(count) /\ pc' \in ExitCode
    BY <1>1, <2>2, QuietKeeps, GradeIs
  <2>5. Sound => (count \in Least..Most)'
    <3>1. Least' = Cardinality(Listed) /\ Most' = Cardinality(Listable) /\ count' = count
      BY <1>1, <1>2, QuietBounds
    <3>2. Sound => count \in Cardinality(Listed)..Cardinality(Listable)
      BY <1>1, <2>1, WalkCountsBetween
    <3> QED
      BY <3>1, <3>2
  <2> QED
    BY <1>1, <1>2, <2>2, <2>3, <2>4, <2>5, WalkEnd
<1> QED
  BY <1>3, <1>4

-----------------------------------------------------------------------------
(* The theorems. *)

LEMMA ProcessPreserves == ASSUME IInv, Process PROVE IInv'
BY AccessPreserves, StatPreserves, ReadClockPreserves, OpenLogPreserves, ReadLinePreserves,
   EndOfLogPreserves, SizeOfLogPreserves, IsDirectoryPreserves, OpenDirectoryPreserves,
   ReadDirectoryPreserves, StatEntryPreserves, DescendPreserves, CountEntryPreserves,
   ReadCmdlinePreserves, CloseDirectoryPreserves DEF Process

LEMMA OthersPreserve == ASSUME IInv, Others PROVE IInv'
BY OthersAreMeanwhile, MeanwhilePreserves

LEMMA StutterPreserves == ASSUME IInv, UNCHANGED vars PROVE IInv'
<1>1. Quiet /\ UNCHANGED <<pc, held, pos, stack, entry, count>>
  BY DEF vars, Quiet, files, process, history
<1>2. /\ job' = job /\ at' = at /\ node' = node /\ now' = now /\ before' = before /\ ever' = ever
      /\ rewritten' = rewritten /\ (Sound' <=> Sound)
  BY <1>1, QuietKeeps
<1>3. TypeOK /\ History
  BY DEF IInv
<1>4. CASE pc \in ExitCode
  <2>1. TypeOK'
    <3>1. /\ pc \in Stages \cup ExitCode /\ held \in Nat /\ pos \in Nat /\ count \in Int
          /\ stack \in Seq(Frames) /\ entry \in Seq(Path)
      BY <1>3 DEF TypeOK
    <3> QED
      BY <1>1, <3>1, QuietType
  <2>2. /\ pc' \notin {"access", "clock", "open", "read", "size"}
        /\ pc' \notin {"isdir", "opendir", "scan", "entry", "descend", "count", "skip", "cmdline"}
    BY <1>1, <1>4 DEF ExitCode
  <2>3. Missing' /\ AgeInv' /\ LogInv' /\ Walking'
    BY <1>1, <1>4, <2>2 DEF Missing, AgeInv, LogInv, Walking
  <2>4. Least' = Least /\ Most' = Most
    <3>1. CASE job.tool \in {"age", "size"}
      BY <1>2, <3>1 DEF Least, Most
    <3>2. CASE job.tool = "log"
      BY <1>1, <3>2, LogStep
    <3>3. CASE job.tool \in {"count", "procs"}
      <4>1. Least = Cardinality(Listed) /\ Most = Cardinality(Listable)
        BY <3>3 DEF Least, Most
      <4> QED
        BY <1>1, <3>3, <4>1, QuietBounds
    <3> QED
      BY <1>3, <3>1, <3>2, <3>3, JobAssumption DEF TypeOK, Single
  <2>5. Grade(count)' = Grade(count)
    BY <1>1, <1>2, GradeIs
  <2>6. Done'
    <3>1. /\ Sound => count \in Least..Most /\ pc = Grade(count)
          /\ job.path \notin ever => pc = IF job.okMissing THEN "OK" ELSE "CRITICAL"
      BY <1>4 DEF IInv, Done
    <3>2. Sound' => (count \in Least..Most)' /\ pc' = Grade(count)'
      BY <1>1, <1>2, <2>4, <2>5, <3>1
    <3> QED
      BY <1>1, <1>2, <3>1, <3>2 DEF Done
  <2> QED
    BY <1>1, <2>1, <2>3, <2>6, QuietKeeps DEF IInv
<1>5. CASE pc \notin ExitCode
  <2>1. /\ node \in Seq(Inodes) /\ Len(node) \in Nat /\ at \in [Path -> 0..Len(node)]
        /\ now \in Int /\ ever \subseteq Path /\ rewritten \subseteq Nat
    BY <1>3 DEF TypeOK
  <2>2. \A n \in 1..Len(node) : Extends(node[n].lines, node[n].lines) /\ node[n].mtime \in Int
    BY <2>1, InodeType, ExtendsSelf
  <2>3. /\ \A p \in Path : at[p] # None => p \in ever
        /\ \A p \in Path : at'[p] # None /\ Parent[p] # "none" => IsDir(Parent[p])'
    BY <1>2, <1>3 DEF History, IsDir
  <2>4. Meanwhile
    BY <1>1, <1>2, <1>5, <2>1, <2>2, <2>3 DEF Meanwhile, process
  <2> QED
    BY <2>4, MeanwhilePreserves
<1> QED
  BY <1>4, <1>5

LEMMA FilesStep == IInv /\ [Next]_vars => IInv'
<1> SUFFICES ASSUME IInv, Next \/ UNCHANGED vars PROVE IInv'
  OBVIOUS
<1>1. CASE Process
  BY <1>1, ProcessPreserves
<1>2. CASE Others
  BY <1>2, OthersPreserve
<1>3. CASE Ended \/ UNCHANGED vars
  BY <1>3, StutterPreserves DEF Ended
<1> QED
  BY <1>1, <1>2, <1>3 DEF Next

\* The invariant, of every command line and of whatever the others do.
THEOREM FilesInvariant == Spec => []IInv
BY FilesInit, FilesStep, PTL DEF Spec

\* What a check of files reports, it counted: every file, process or whole line
\* that was there from start to end is in the count, and nothing that never was;
\* an age or a size is that of some moment of the run.
THEOREM CountBetweenHolds == Spec => []CountBetween
<1>1. IInv => CountBetween
  BY DEF IInv, Done, CountBetween
<1> QED
  BY <1>1, FilesInvariant, PTL

\* The status is the one of such a count, and a path that is never there is
\* reported missing: CRITICAL, or OK where the command line says so.
THEOREM VerdictFitsHolds == Spec => []VerdictFits
<1>1. IInv => VerdictFits
  <2> SUFFICES ASSUME IInv, pc \in ExitCode
               PROVE  /\ Sound => pc \in {Grade(n) : n \in Least..Most}
                      /\ job.path \notin ever => pc = IF job.okMissing THEN "OK" ELSE "CRITICAL"
    BY DEF VerdictFits
  <2>1. /\ Sound => count \in Least..Most /\ pc = Grade(count)
        /\ job.path \notin ever => pc = IF job.okMissing THEN "OK" ELSE "CRITICAL"
    BY DEF IInv, Done
  <2> QED
    BY <2>1
<1> QED
  BY <1>1, FilesInvariant, PTL
=============================================================================
