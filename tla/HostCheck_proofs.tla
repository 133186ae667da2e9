-------------------------- MODULE HostCheck_proofs --------------------------
(***************************************************************************)
(* What holds for every parser table, every command line that is a list of *)
(* groups, any number of paths and any figures of the file systems: the    *)
(* loop of parseArguments() understands a line as its groups say, a        *)
(* process is only aborted for a garbled number, check_disk is never       *)
(* better than its worst path, a reading beyond the critical threshold of  *)
(* the line is CRITICAL, and no alarm is without a reason.                 *)
(***************************************************************************)
EXTENDS Thresholds, TLAPS, FiniteSetTheorems

\* What overallCode says of the paths that were read so far.  DiskCovers alone
\* is not inductive: it says nothing before the loop has ended.
CoversSoFar ==
  /\ (\E k \in DOMAIN taken : PathVerdict(taken[k]) = "CRITICAL") <=> overall = "CRITICAL"
  /\ (\A k \in DOMAIN taken : PathVerdict(taken[k]) = "OK") <=> overall = "OK"
  /\ overall = "WARNING" => \E k \in DOMAIN taken : PathVerdict(taken[k]) = "WARNING"

IInv ==
  /\ pc = "parse" => taken = <<>> /\ overall = "OK"
  /\ plugin \in DOMAIN Parsers
  /\ overall \in ExitCode
  /\ plugin = "disk" => taken \in Seq(Readings["disk"]) /\ CoversSoFar
  /\ plugin = "disk" /\ pc \in ExitCode => pc = overall

\* Every comparison ends in an exit code.
LEMMA VerdictType == \A limits, r : Verdict(limits, r) \in ExitCode
BY DEF Verdict, ExitCode

LEMMA FoundType == \A answers, expected : Found(answers, expected) \in ExitCode
BY DEF Found, ExitCode

LEMMA RemoteType == \A p, s, r : p \in Remote => JudgedRemote(p, s, r) \in ExitCode
<1> TAKE p, s, r
<1> HAVE p \in Remote
<1>1. CASE p \in {"dns", "dig"}
  BY <1>1, FoundType DEF JudgedRemote
<1>2. CASE p = "rpc"
  BY <1>2 DEF JudgedRemote, ExitCode
<1>3. CASE p = "ssl_validity"
  BY <1>3, VerdictType DEF JudgedRemote, ExitCode
<1> QED
  BY <1>1, <1>2, <1>3 DEF Remote

LEMMA FileType == \A s, r : JudgedFile(s, r) \in ExitCode
BY DEF JudgedFile, ExitCode

LEMMA JudgedType == \A p, s, r : Judged(p, s, r) \in ExitCode
<1> TAKE p, s, r
<1>1. CASE p \in Remote
  BY <1>1, RemoteType DEF Judged, Remote, ExitCode
<1>2. CASE p = "swap" /\ r.total = 0
  BY <1>2 DEF Judged, Remote, ExitCode
<1>3. CASE p = "sensors"
  BY <1>3, VerdictType DEF Judged, Remote, ExitCode
<1>4. CASE p = "mrtg"
  BY <1>4, FileType DEF Judged, Remote
<1>5. CASE p \notin Remote /\ ~(p = "swap" /\ r.total = 0) /\ p \notin {"mrtg", "sensors"}
  BY <1>5, VerdictType DEF Judged
<1> QED
  BY <1>1, <1>2, <1>3, <1>4, <1>5

LEMMA NothingRead == taken = <<>> /\ overall = "OK" =>
                       taken \in Seq(Readings["disk"]) /\ CoversSoFar
BY DEF CoversSoFar

LEMMA InitImplies == Init => IInv
<1> SUFFICES ASSUME Init PROVE IInv
  OBVIOUS
<1>1. pc = "parse" /\ taken = <<>> /\ overall = "OK" /\ plugin \in DOMAIN Parsers
  BY DEF Init, ParserInit
<1> QED
  BY <1>1, NothingRead DEF IInv, ExitCode

\* The parser keeps it, because nothing has been read while it runs.
LEMMA ParsePreserves == ASSUME IInv, Parse PROVE IInv'
<1>1. pc = "parse" /\ taken = <<>> /\ overall = "OK"
  BY DEF Parse, ParserNext, Help, TakeFlag, TakeValue, Abort, MissingValue, LooseWord,
         Parsed, Parsing, IInv
<1>2. taken' = <<>> /\ overall' = "OK" /\ plugin' = plugin
  BY <1>1 DEF Parse, ParserNext, Help, TakeFlag, TakeValue, Abort, MissingValue, LooseWord,
              Parsed
<1>3. (taken \in Seq(Readings["disk"]) /\ CoversSoFar)'
  BY <1>2 DEF CoversSoFar
<1>4. plugin = "disk" => pc' \notin ExitCode
  BY <1>1, DiskAssumption
     DEF Parse, ParserNext, Help, TakeFlag, TakeValue, Abort, MissingValue, LooseWord,
         Parsed, IInv, ExitCode
<1> QED
  BY <1>2, <1>3, <1>4 DEF IInv, ExitCode

\* One more path: its verdict joins those of the others in overallCode.
LEMMA CheckDiskPreserves == ASSUME IInv, CheckDisk PROVE IInv'
<1>1. PICK r \in Readings["disk"] :
        /\ taken' = Append(taken, r)
        /\ overall' = Aggregate(overall, PathVerdict(r))
  BY DEF CheckDisk, PathVerdict
<1>2. pc = "check" /\ plugin = "disk" /\ UNCHANGED <<plugin, line, i, settings, pc>>
  BY DEF CheckDisk, parserVars
<1>3. taken \in Seq(Readings["disk"]) /\ CoversSoFar
  BY <1>2 DEF IInv
<1> DEFINE V(x) == PathVerdict(x)
<1>4. \A x : PathVerdict(x)' = V(x)
  BY <1>2 DEF PathVerdict
<1>5. /\ taken' \in Seq(Readings["disk"])
      /\ DOMAIN taken' = DOMAIN taken \cup {Len(taken) + 1}
      /\ taken'[Len(taken) + 1] = r
      /\ \A k \in DOMAIN taken : taken'[k] = taken[k]
  BY <1>1, <1>3
<1>6. (\E k \in DOMAIN taken' : V(taken'[k]) = "CRITICAL") <=> overall' = "CRITICAL"
  <2>1. (\E k \in DOMAIN taken' : V(taken'[k]) = "CRITICAL") <=>
          (\E k \in DOMAIN taken : V(taken[k]) = "CRITICAL") \/ V(r) = "CRITICAL"
    <3> HIDE DEF V
    <3> QED BY <1>5
  <2>2. overall' = "CRITICAL" <=> overall = "CRITICAL" \/ V(r) = "CRITICAL"
    BY <1>1 DEF Aggregate
  <2> QED
    BY <2>1, <2>2, <1>3 DEF CoversSoFar
<1>7. (\A k \in DOMAIN taken' : V(taken'[k]) = "OK") <=> overall' = "OK"
  <2>1. (\A k \in DOMAIN taken' : V(taken'[k]) = "OK") <=>
          (\A k \in DOMAIN taken : V(taken[k]) = "OK") /\ V(r) = "OK"
    <3> HIDE DEF V
    <3> QED BY <1>5
  <2>2. overall' = "OK" <=> overall = "OK" /\ V(r) = "OK"
    BY <1>1 DEF Aggregate
  <2> QED
    BY <2>1, <2>2, <1>3 DEF CoversSoFar
<1>8. overall' \in ExitCode
  BY <1>1, VerdictType DEF Aggregate, PathVerdict, IInv, ExitCode
<1>9. overall' = "WARNING" => \E k \in DOMAIN taken' : V(taken'[k]) = "WARNING"
  <2> SUFFICES ASSUME overall' = "WARNING" PROVE \E k \in DOMAIN taken' : V(taken'[k]) = "WARNING"
    OBVIOUS
  <2>1. overall = "WARNING" \/ V(r) = "WARNING"
    BY <1>1 DEF Aggregate
  <2>2. V(r) = "WARNING" \/ \E k \in DOMAIN taken : V(taken[k]) = "WARNING"
    BY <2>1, <1>3 DEF CoversSoFar
  <2> HIDE DEF V
  <2> QED BY <2>2, <1>5
<1>10. CoversSoFar'
  BY <1>4, <1>6, <1>7, <1>9 DEF CoversSoFar
<1> QED
  BY <1>2, <1>5, <1>8, <1>10 DEF IInv, ExitCode

LEMMA StepPreserves == IInv /\ [Next]_vars => IInv'
<1> SUFFICES ASSUME IInv, [Next]_vars PROVE IInv'
  OBVIOUS
<1>1. CASE Parse
  BY <1>1, ParsePreserves
<1>2. CASE Check
  BY <1>2, JudgedType DEF Check, IInv, ExitCode
<1>3. CASE CheckDisk
  BY <1>3, CheckDiskPreserves
<1>4. CASE DiskDone
  BY <1>4 DEF DiskDone, IInv, CoversSoFar, PathVerdict, ExitCode
<1>5. CASE Ended \/ UNCHANGED vars
  BY <1>5 DEF Ended, vars, parserVars, IInv, CoversSoFar, PathVerdict
<1> QED
  BY <1>1, <1>2, <1>3, <1>4, <1>5 DEF Next

\* One critical path makes check_disk CRITICAL, and it is OK only if each is,
\* in whatever order the paths are listed.
THEOREM DiskCoversHolds == Spec => []DiskCovers
<1>1. Spec => []IInv
  BY InitImplies, StepPreserves, PTL DEF Spec
<1>2. IInv => DiskCovers
  BY DEF IInv, CoversSoFar, DiskCovers
<1> QED
  BY <1>1, <1>2, PTL

-----------------------------------------------------------------------------
(* The lines: lemmas about the operators. *)

\* A flag sets what it sets besides, whatever the word.
LEMMA FlagSays ==
  ASSUME NEW o, NEW value, NEW before, o.kind = "flag"
  PROVE  /\ DOMAIN Assigns(o, value, before) = DOMAIN Besides(o, before)
         /\ \A s \in DOMAIN Besides(o, before) : Assigns(o, value, before)[s] = Besides(o, before)[s]
<1>1. Reads(o, value) = {}
  BY DEF Reads
<1>2. DOMAIN Valued(o, value) = {}
  BY <1>1 DEF Valued
<1> QED BY <1>2 DEF Assigns, Over

\* The option of a group is the one its first word names.
LEMMA TheOption ==
  ASSUME NEW p \in DOMAIN Parsers, NEW g, NEW o \in Names(p, g[1]), o.kind = "flag" <=> Len(g) = 1
  PROVE  OptionOf(p, g) = {o} /\ Says(p, g) = Assigns(o, g[Len(g)], <<>>)
<1>1. OptionOf(p, g) = {o}
  BY OptionAssumption DEF OptionOf, Names
<1> QED BY <1>1 DEF Says

\* An option that moves no port sets the same whatever is set before it.
LEMMA SameBesides ==
  ASSUME NEW o, NEW value, NEW before, o.ports = <<>>
  PROVE  Besides(o, before) = Besides(o, <<>>) /\ Assigns(o, value, before) = Assigns(o, value, <<>>)
BY DEF Besides, MovesPort, Assigns

LEMMA LineFacts ==
  ASSUME LineRead
  PROVE  /\ Len(line.words) \in Nat /\ Len(line.groups) \in Nat
         /\ line.starts \in Seq(Nat \ {0}) /\ Len(line.starts) = Len(line.groups) + 1
         /\ line.starts[Len(line.starts)] = Len(line.words) + 1
<1>1. plugin \in DOMAIN Parsers /\ line \in Lines[plugin]
  BY DEF LineRead
<1>2. InGroups(line)
  BY <1>1, LineAssumption
<1> QED BY <1>2 DEF InGroups, IsSequence

\* Where the loop stands: at the first word of the next group.
LEMMA Standing ==
  ASSUME LineRead, NEW k \in 0..Len(line.groups), Before(k), i <= Len(line.words)
  PROVE  /\ k + 1 \in 1..Len(line.groups)
         /\ Here = Group(k + 1)[1]
         /\ Len(Group(k + 1)) \in {1, 2}
         /\ line.starts[k + 2] = i + Len(Group(k + 1))
         /\ Len(Group(k + 1)) = 2 =>
              HasNext /\ Group(k + 1)[2] = line.words[i + 1] /\ OptionOf(plugin, Group(k + 1)) # {}
         /\ Len(Group(k + 1)) = 1 /\ HasNext => OptionOf(plugin, Group(k + 1)) = Named(Here)
         /\ Here.text = "-h" \/ Named(Here) # {} => Here.dash
<1>1. plugin \in DOMAIN Parsers /\ line \in Lines[plugin] /\ i = line.starts[k + 1]
  BY DEF LineRead, Before
<1>0. InGroups(line) /\ \A m \in 1..Len(line.groups) : GroupOf(plugin, line, m)
  BY <1>1, LineAssumption
<1>2. /\ Len(line.words) \in Nat /\ Len(line.groups) \in Nat
      /\ line.starts \in Seq(Nat \ {0}) /\ Len(line.starts) = Len(line.groups) + 1
      /\ line.starts[Len(line.starts)] = Len(line.words) + 1
  BY LineFacts
<1>3. k + 1 \in 1..Len(line.groups)
  <2>1. k # Len(line.groups)
    BY <1>1, <1>2, SMTT(60)
  <2> QED BY <2>1, <1>2
<1> DEFINE g == Group(k + 1)
<1>4. /\ Len(g) \in {1, 2}
      /\ line.starts[(k + 1) + 1] = i + Len(g) /\ i + Len(g) <= Len(line.words) + 1
      /\ g[1] = line.words[i]
      /\ Len(g) = 2 => g[2] = line.words[i + 1] /\ OptionOf(plugin, g) # {}
      /\ Len(g) = 1 /\ k + 1 < Len(line.groups) => OptionOf(plugin, g) = Names(plugin, g[1])
      /\ g[1].text = "-h" \/ Names(plugin, g[1]) # {} => g[1].dash
  BY <1>1, <1>3, <1>0 DEF Group, InGroups, GroupOf
<1>5. (k + 1) + 1 = k + 2
  OBVIOUS
<1>6. i \in Nat
  BY <1>1, <1>2, <1>3, SMTT(60)
<1>7. Len(g) = 2 => HasNext
  <2>1. Len(g) = 2 => i + 2 <= Len(line.words) + 1
    BY <1>4
  <2> HIDE DEF g
  <2> QED BY <1>2, <1>6, <2>1 DEF HasNext
<1>8. Len(g) = 1 /\ HasNext => k + 1 < Len(line.groups)
  <2> SUFFICES ASSUME Len(g) = 1, i < Len(line.words), k + 1 = Len(line.groups) PROVE FALSE
    BY <1>2, <1>3 DEF HasNext
  <2>1. Len(line.starts) = (k + 1) + 1
    BY <1>2
  <2>2. line.starts[(k + 1) + 1] = Len(line.words) + 1
    BY <1>2, <2>1
  <2>3. line.starts[(k + 1) + 1] = i + 1
    BY <1>4
  <2> HIDE DEF g
  <2> QED BY <1>2, <1>6, <2>2, <2>3, SMTT(60)
<1>9. Here = g[1] /\ Named(Here) = Names(plugin, g[1])
  BY <1>4 DEF Here, Named, Names
<1> HIDE DEF g
<1> QED BY <1>3, <1>4, <1>5, <1>7, <1>8, <1>9 DEF g

-----------------------------------------------------------------------------
\* The meaning of k + 1 groups, from that of k and the last.
LEMMA OneMore ==
  ASSUME NEW k \in Nat, NEW g, g = Group(k + 1)
  PROVE  /\ Said(k + 1) = Said(k) \cup About(plugin, g)
         /\ LooseOf(k + 1) = LooseOf(k) \cup (IF IsLoose(plugin, g) THEN {k + 1} ELSE {})
<1>1. 1..(k + 1) = (1..k) \cup {k + 1}
  OBVIOUS
<1>2. Said(k + 1) = Said(k) \cup About(plugin, g)
  BY <1>1 DEF Said
<1>3. LooseOf(k + 1) = LooseOf(k) \cup (IF IsLoose(plugin, g) THEN {k + 1} ELSE {})
  BY <1>1 DEF LooseOf
<1> QED BY <1>2, <1>3

LEMMA StaysDecided ==
  ASSUME NEW k \in Nat, NEW g, g = Group(k + 1), Decided(k), UNCHANGED <<plugin, line>>,
         \A s \in About(plugin, g) : settings'[s] = Says(plugin, g)[s],
         \A s \in Said(k) \ About(plugin, g) : settings'[s] = settings[s]
  PROVE  Decided(k + 1)'
<1>1. (\A m : Group(m)' = Group(m)) /\ Said(k + 1)' = Said(k + 1)
  BY DEF Group, Said
<1>2. Said(k + 1) = Said(k) \cup About(plugin, g)
  BY OneMore
<1>3. ASSUME NEW s \in Said(k + 1)
      PROVE  \E m \in 1..(k + 1) :
               /\ s \in About(plugin, Group(m))
               /\ settings'[s] = Says(plugin, Group(m))[s]
               /\ \A later \in (m + 1)..(k + 1) : s \notin About(plugin, Group(later))
  <2>1. CASE s \in About(plugin, g)
    <3>1. (k + 1) \in 1..(k + 1) /\ \A later \in ((k + 1) + 1)..(k + 1) : FALSE
      OBVIOUS
    <3> QED BY <2>1, <3>1
  <2>2. CASE s \notin About(plugin, g)
    <3>1. s \in Said(k) /\ settings'[s] = settings[s]
      BY <1>2, <2>2
    <3>2. PICK m \in 1..k : /\ s \in About(plugin, Group(m))
                            /\ settings[s] = Says(plugin, Group(m))[s]
                            /\ \A later \in (m + 1)..k : s \notin About(plugin, Group(later))
      BY <3>1 DEF Decided
    <3>3. m \in 1..(k + 1) /\ \A later \in (m + 1)..(k + 1) : later \in (m + 1)..k \/ later = k + 1
      OBVIOUS
    <3>4. \A later \in (m + 1)..(k + 1) : s \notin About(plugin, Group(later))
      BY <3>2, <3>3, <2>2
    <3> QED BY <3>1, <3>2, <3>3, <3>4
  <2> QED BY <2>1, <2>2
<1> QED BY <1>1, <1>3 DEF Decided

\* A group that is no word by itself sets what it says.
LEMMA Extends ==
  ASSUME NEW k \in Nat, NEW g, g = Group(k + 1), AsSaid(k), UNCHANGED <<plugin, line>>,
         ~IsLoose(plugin, g), "paths" \notin About(plugin, g),
         DOMAIN settings' = DOMAIN settings \cup About(plugin, g),
         \A s \in About(plugin, g) : settings'[s] = Says(plugin, g)[s],
         \A s \in DOMAIN settings \ About(plugin, g) : settings'[s] = settings[s]
  PROVE  AsSaid(k + 1)'
<1>1. /\ \A m : Group(m)' = Group(m)
      /\ To' = To /\ Said(k + 1)' = Said(k + 1)
      /\ \A m : LooseOf(m)' = LooseOf(m)
  BY DEF Group, To, Said, LooseOf
<1>2. Said(k + 1) = Said(k) \cup About(plugin, g) /\ LooseOf(k + 1) = LooseOf(k)
  BY OneMore
<1>3. DOMAIN settings = Said(k) \cup {To : m \in LooseOf(k)} /\ Decided(k) /\ Listed(k)
  BY DEF AsSaid
<1>4. DOMAIN settings' = Said(k + 1) \cup {To : m \in LooseOf(k + 1)}
  BY <1>2, <1>3
<1>6. Decided(k + 1)'
  BY <1>3, StaysDecided
<1>7. Listed(k + 1)'
  <2> SUFFICES ASSUME NEW m \in LooseOf(k)
               PROVE  IF To = "paths"
                      THEN /\ Len(settings'[To]) = Cardinality(LooseOf(k))
                           /\ settings'[To][Cardinality(LooseOf(m))] = Group(m)[1].text
                      ELSE To \notin Said(k + 1) /\ LooseOf(m) = {m} => settings'[To] = Group(m)[1].text
    BY <1>1, <1>2 DEF Listed
  <2>1. To \in DOMAIN settings
    BY <1>3
  <2>2. To \notin About(plugin, g) => settings'[To] = settings[To]
    BY <2>1
  <2>3. CASE To = "paths"
    BY <1>3, <2>2, <2>3 DEF Listed
  <2>4. CASE To # "paths"
    BY <1>2, <1>3, <2>2, <2>4 DEF Listed
  <2> QED BY <2>3, <2>4
<1> QED BY <1>4, <1>6, <1>7, <1>1 DEF AsSaid

LEMMA LooseCount ==
  ASSUME NEW k \in Nat
  PROVE  /\ IsFiniteSet(LooseOf(k)) /\ Cardinality(LooseOf(k)) \in Nat
         /\ Cardinality(LooseOf(k)) = 0 <=> LooseOf(k) = {}
         /\ \A m \in LooseOf(k) : Cardinality(LooseOf(m)) \in 1..Cardinality(LooseOf(k))
<1>1. ASSUME NEW m \in Nat
      PROVE  IsFiniteSet(LooseOf(m)) /\ Cardinality(LooseOf(m)) \in Nat
             /\ (Cardinality(LooseOf(m)) = 0 <=> LooseOf(m) = {})
  <2>1. IsFiniteSet(1..m) /\ LooseOf(m) \subseteq 1..m
    BY FS_Interval DEF LooseOf
  <2>2. IsFiniteSet(LooseOf(m))
    BY <2>1, FS_Subset
  <2> QED BY <2>2, FS_CardinalityType, FS_EmptySet
<1>2. ASSUME NEW m \in LooseOf(k) PROVE Cardinality(LooseOf(m)) \in 1..Cardinality(LooseOf(k))
  <2>1. m \in Nat /\ m \in LooseOf(m) /\ LooseOf(m) \subseteq LooseOf(k)
    BY DEF LooseOf
  <2>2. Cardinality(LooseOf(m)) <= Cardinality(LooseOf(k))
    BY <2>1, <1>1, FS_Subset
  <2>3. Cardinality(LooseOf(m)) # 0
    BY <2>1, <1>1
  <2> QED BY <1>1, <2>1, <2>2, <2>3
<1> QED BY <1>1, <1>2

\* One more word by itself: the next path, or the only word that counts.
LEMMA ListsPath ==
  ASSUME NEW k \in Nat, NEW g, g = Group(k + 1), AsSaid(k), UNCHANGED <<plugin, line>>,
         IsLoose(plugin, g), About(plugin, g) = {}, To = "paths", "paths" \notin Said(k),
         NEW sq \in Seq({line.words[n].text : n \in 1..Len(line.words)}),
         To \in DOMAIN settings => sq = settings[To],
         To \notin DOMAIN settings => sq = <<>>,
         g[1].text \in {line.words[n].text : n \in 1..Len(line.words)},
         settings' = Over(Setting(To, Append(sq, g[1].text)), settings)
  PROVE  /\ AsSaid(k + 1)'
         /\ settings'[To] \in Seq({line.words[n].text : n \in 1..Len(line.words)})
<1> DEFINE T == {line.words[n].text : n \in 1..Len(line.words)}
           c == Cardinality(LooseOf(k))
<1>1. /\ \A m : Group(m)' = Group(m)
      /\ To' = To /\ Said(k + 1)' = Said(k + 1)
      /\ \A m : LooseOf(m)' = LooseOf(m)
  BY DEF Group, To, Said, LooseOf
<1>2. Said(k + 1) = Said(k) /\ LooseOf(k + 1) = LooseOf(k) \cup {k + 1}
  BY OneMore
<1>3. DOMAIN settings = Said(k) \cup {To : m \in LooseOf(k)} /\ Decided(k) /\ Listed(k)
  BY DEF AsSaid
<1>4. /\ DOMAIN settings' = DOMAIN settings \cup {To}
      /\ settings'[To] = Append(sq, g[1].text)
      /\ \A s \in DOMAIN settings \ {To} : settings'[s] = settings[s]
  BY DEF Over, Setting
<1>5. DOMAIN settings' = Said(k + 1) \cup {To : m \in LooseOf(k + 1)}
  BY <1>2, <1>3, <1>4
<1>6. Decided(k + 1)'
  BY <1>2, <1>3, <1>4, StaysDecided
<1>7. c \in Nat /\ Cardinality(LooseOf(k + 1)) = c + 1
  <2>1. k + 1 \notin LooseOf(k)
    BY DEF LooseOf
  <2> QED BY <1>2, <2>1, LooseCount, FS_AddElement
<1>8. Len(sq) = c
  <2>1. CASE LooseOf(k) = {}
    BY <1>3, <2>1, LooseCount
  <2>2. CASE LooseOf(k) # {}
    BY <1>3, <2>2 DEF Listed
  <2> QED BY <2>1, <2>2
<1>9. ASSUME NEW m \in LooseOf(k + 1)
      PROVE  settings'[To][Cardinality(LooseOf(m))] = Group(m)[1].text
  <2>1. CASE m = k + 1
    BY <1>4, <1>7, <1>8, <2>1
  <2>2. CASE m \in LooseOf(k)
    <3>1. Cardinality(LooseOf(m)) \in 1..c
      BY <2>2, LooseCount
    <3>2. sq[Cardinality(LooseOf(m))] = Group(m)[1].text
      BY <1>3, <2>2 DEF Listed
    <3> QED BY <1>4, <1>8, <3>1, <3>2, SMTT(60)
  <2> QED BY <1>2, <2>1, <2>2
<1>10. Len(settings'[To]) = c + 1 /\ settings'[To] \in Seq(T)
  <2>1. sq \in Seq(T) /\ g[1].text \in T
    OBVIOUS
  <2> HIDE DEF T
  <2>2. Append(sq, g[1].text) \in Seq(T) /\ Len(Append(sq, g[1].text)) = Len(sq) + 1
    BY <2>1
  <2> QED BY <2>2, <1>4, <1>8
<1>11. Listed(k + 1)'
  BY <1>1, <1>7, <1>9, <1>10 DEF Listed
<1> QED BY <1>1, <1>5, <1>6, <1>10, <1>11 DEF AsSaid

LEMMA ListsFirst ==
  ASSUME NEW k \in Nat, NEW g, g = Group(k + 1), AsSaid(k), UNCHANGED <<plugin, line>>,
         IsLoose(plugin, g), About(plugin, g) = {}, To # "paths",
         settings' = Over(settings, Setting(To, g[1].text))
  PROVE  AsSaid(k + 1)'
<1>1. /\ \A m : Group(m)' = Group(m)
      /\ To' = To /\ Said(k + 1)' = Said(k + 1)
      /\ \A m : LooseOf(m)' = LooseOf(m)
  BY DEF Group, To, Said, LooseOf
<1>2. Said(k + 1) = Said(k) /\ LooseOf(k + 1) = LooseOf(k) \cup {k + 1}
  BY OneMore
<1>3. DOMAIN settings = Said(k) \cup {To : m \in LooseOf(k)} /\ Decided(k) /\ Listed(k)
  BY DEF AsSaid
<1>4. /\ DOMAIN settings' = DOMAIN settings \cup {To}
      /\ To \notin DOMAIN settings => settings'[To] = g[1].text
      /\ \A s \in DOMAIN settings : settings'[s] = settings[s]
  BY DEF Over, Setting
<1>5. DOMAIN settings' = Said(k + 1) \cup {To : m \in LooseOf(k + 1)}
  BY <1>2, <1>3, <1>4
<1>6. Decided(k + 1)'
  BY <1>2, <1>3, <1>4, StaysDecided
<1>7. ASSUME NEW m \in LooseOf(k + 1), To \notin Said(k), LooseOf(m) = {m}
      PROVE  settings'[To] = Group(m)[1].text
  <2>1. CASE m = k + 1
    <3>1. LooseOf(k) \subseteq LooseOf(k + 1)
      BY <1>2
    <3>2. k + 1 \notin LooseOf(k)
      BY DEF LooseOf
    <3>3. LooseOf(k) = {}
      BY <1>7, <2>1, <3>1, <3>2
    <3> QED BY <1>3, <1>4, <1>7, <2>1, <3>3
  <2>2. CASE m \in LooseOf(k)
    BY <1>3, <1>4, <1>7, <2>2 DEF Listed
  <2> QED BY <1>2, <2>1, <2>2
<1>8. Listed(k + 1)'
  BY <1>1, <1>2, <1>7 DEF Listed
<1> QED BY <1>1, <1>5, <1>6, <1>8 DEF AsSaid

-----------------------------------------------------------------------------
(* The steps of the loop. *)

Texts == {line.words[n].text : n \in 1..Len(line.words)}

\* What the group that begins at i may do to the settings.
LEMMA GroupFacts ==
  ASSUME LineRead, NEW k \in 0..Len(line.groups), k + 1 \in 1..Len(line.groups),
         NEW g, g = Group(k + 1)
  PROVE  /\ \A o \in OptionOf(plugin, g) : Len(g) = 2 => (Throws(o, g[2]) <=> Garbled(plugin, g))
         /\ ~Garbled(plugin, g) => "paths" \notin About(plugin, g)
         /\ ~Garbled(plugin, g) /\ "-p" \in About(plugin, g) =>
              \A o \in Parsers[plugin].opts : o.ports # <<>> => g[1].text \in {o.opt, "-p"}
<1>1. plugin \in DOMAIN Parsers /\ line \in Lines[plugin] /\ g = line.groups[k + 1]
  BY DEF LineRead, Group
<1> QED BY <1>1, NumberAssumption, PortAssumption, Zenon

\* The invariant is kept when the loop goes to the next group.
LEMMA NextGroup ==
  ASSUME LineRead, pc = "parse", NEW k \in 0..Len(line.groups), Before(k), i <= Len(line.words),
         UNCHANGED <<plugin, line, pc>>, i' = i + Len(Group(k + 1)),
         ~Garbled(plugin, Group(k + 1)), Group(k + 1)[1].text # "-h",
         ~PortMoved => AsSaid(k + 1)',
         To = "paths" /\ To \in DOMAIN settings' => settings'[To] \in Seq(Texts)
  PROVE  LineRead'
<1>1. k + 1 \in 1..Len(line.groups) /\ line.starts[k + 2] = i + Len(Group(k + 1))
  BY Standing
<1>2. k + 1 \in 0..Len(line.groups) /\ (k + 1) + 1 = k + 2
  BY <1>1
<1>3. /\ \A m : Group(m)' = Group(m)
      /\ To' = To /\ PortMoved' = PortMoved /\ Texts' = Texts
  BY DEF Group, To, PortMoved, Texts
<1>4. \A m \in 1..(k + 1) : ~Garbled(plugin, Group(m)) /\ Group(m)[1].text # "-h"
  <2>1. \A m \in 1..(k + 1) : m \in 1..k \/ m = k + 1
    OBVIOUS
  <2> QED BY <2>1 DEF Before
<1>5. Before(k + 1)'
  BY <1>1, <1>2, <1>3, <1>4 DEF Before, Texts
<1>6. Len(line.groups)' = Len(line.groups)
  OBVIOUS
<1>7. pc' = "parse"
  OBVIOUS
<1> QED
  BY <1>2, <1>5, <1>6, <1>7
     DEF LineRead, MeansWhatItSays, AbortedByGarbageOnly, NumbersRead, Ran, ExitCode

LEMMA FlagPreserves == ASSUME LineRead, TakeFlag PROVE LineRead'
<1>1. /\ pc = "parse" /\ i <= Len(line.words) /\ i' = i + 1
      /\ UNCHANGED <<plugin, line, pc>>
  BY DEF TakeFlag, Parsing
<1>2. PICK o \in Named(Here) : o.kind = "flag" /\ settings' = Over(Besides(o, settings), settings)
  BY DEF TakeFlag
<1>3. PICK k \in 0..Len(line.groups) : Before(k)
  BY <1>1 DEF LineRead
<1> DEFINE g == Group(k + 1)
<1>4. /\ k + 1 \in 1..Len(line.groups) /\ Here = g[1] /\ Len(g) \in {1, 2}
      /\ Len(g) = 2 => OptionOf(plugin, g) # {}
      /\ g[1].dash
  BY <1>1, <1>2, <1>3, Standing
<1>0. plugin \in DOMAIN Parsers /\ o \in Parsers[plugin].opts /\ o \in Names(plugin, g[1])
  BY <1>2, <1>4 DEF LineRead, Named, Names
<1>5. Len(g) = 1
  <2> SUFFICES ASSUME Len(g) = 2 PROVE FALSE
    BY <1>4
  <2>1. PICK other \in OptionOf(plugin, g) : TRUE
    BY <1>4
  <2>2. other \in Parsers[plugin].opts /\ other.opt = o.opt /\ other.kind # "flag"
    BY <2>1, <1>0, SMTT(60) DEF OptionOf, Names
  <2>3. other = o
    BY <2>2, <1>0, OptionAssumption
  <2> QED BY <2>2, <2>3, <1>2
<1>6. Says(plugin, g) = Assigns(o, g[1], <<>>) /\ g[1].text # "-h"
  <2>1. g[1].text # "-h"
    BY <1>0, OptionAssumption DEF Names
  <2> QED BY <1>0, <1>2, <1>5, <2>1, TheOption
<1>7. ~Garbled(plugin, g) /\ ~IsLoose(plugin, g)
  BY <1>4, <1>5 DEF Garbled, IsLoose
<1>8. /\ "paths" \notin About(plugin, g)
      /\ "-p" \in About(plugin, g) =>
           \A x \in Parsers[plugin].opts : x.ports # <<>> => g[1].text \in {x.opt, "-p"}
  BY <1>4, <1>7, GroupFacts
<1> HIDE DEF g
<1> DEFINE own == Besides(o, <<>>)
<1>9. /\ About(plugin, g) = DOMAIN own
      /\ \A s \in DOMAIN own : Says(plugin, g)[s] = own[s]
  BY <1>2, <1>6, FlagSays DEF About
<1>10. ASSUME ~PortMoved
       PROVE  /\ DOMAIN settings' = DOMAIN settings \cup DOMAIN own
              /\ \A s \in DOMAIN own : settings'[s] = own[s]
              /\ \A s \in DOMAIN settings \ DOMAIN own : settings'[s] = settings[s]
  <2>1. CASE Besides(o, settings) = own
    BY <1>2, <2>1 DEF Over
  <2>2. CASE Besides(o, settings) # own
    <3>1. o.ports # <<>> /\ "-p" \in DOMAIN settings
      BY <2>2 DEF Besides, MovesPort
    <3>2. own = Over(SetsAlso(o), Setting("-p", o.ports[2])) /\ Besides(o, settings) = SetsAlso(o)
      BY <2>2, <3>1 DEF Besides, MovesPort
    <3>3. AsSaid(k) /\ Parsers[plugin].loose # "-p"
      BY <1>0, <1>3, <1>10, <3>1, PortAssumption DEF Before
    <3>4. PICK m \in 1..k : "-p" \in About(plugin, Group(m)) /\ settings["-p"] = Says(plugin, Group(m))["-p"]
      BY <3>1, <3>3 DEF AsSaid, Decided, To
    <3>5. m \in 0..Len(line.groups) /\ m \in 1..Len(line.groups) /\ m - 1 \in 0..Len(line.groups)
          /\ (m - 1) + 1 = m
      BY <1>4
    <3>6. ~Garbled(plugin, Group(m))
      BY <1>3 DEF Before
    <3>7. Group(m)[1].text \in {o.opt, "-p"}
      BY <1>0, <3>1, <3>4, <3>5, <3>6, GroupFacts
    <3>8. Group(m)[1].text = o.opt
      <4>1. o.opt = Group(k + 1)[1].text
        BY <1>0 DEF g, Names
      <4> QED BY <1>0, <1>4, <1>10, <3>1, <3>5, <3>7, <4>1 DEF PortMoved
    <3>9. Says(plugin, Group(m)) = Assigns(o, Group(m)[Len(Group(m))], <<>>)
      <4>1. OptionOf(plugin, Group(m)) # {}
        BY <3>4 DEF About, Says
      <4>2. PICK x \in OptionOf(plugin, Group(m)) : TRUE
        BY <4>1
      <4>3. x \in Parsers[plugin].opts /\ x.opt = o.opt
        BY <3>8, <4>2 DEF OptionOf, Names
      <4>4. x = o
        BY <1>0, <4>3, OptionAssumption
      <4>5. o \in Names(plugin, Group(m)[1]) /\ (o.kind = "flag" <=> Len(Group(m)) = 1)
        BY <4>2, <4>4 DEF OptionOf
      <4> QED BY <1>0, <4>5, TheOption
    <3>10. "-p" \in DOMAIN own /\ settings["-p"] = own["-p"]
      BY <1>2, <3>4, <3>9, FlagSays DEF About
    <3>11. settings' = Over(SetsAlso(o), settings)
      BY <1>2, <3>2
    <3>12. /\ DOMAIN own = DOMAIN SetsAlso(o) \cup {"-p"}
           /\ \A s \in DOMAIN SetsAlso(o) : own[s] = SetsAlso(o)[s]
      BY <3>2 DEF Over, Setting
    <3> QED BY <3>1, <3>10, <3>11, <3>12 DEF Over
  <2> QED BY <2>1, <2>2
<1>11. ~PortMoved => AsSaid(k + 1)'
  BY <1>1, <1>3, <1>7, <1>8, <1>9, <1>10, Extends DEF g, Before
<1>12. To = "paths" /\ To \in DOMAIN settings' => settings'[To] \in Seq(Texts)
  <2>1. "paths" \notin DOMAIN Besides(o, settings)
    BY <1>8, <1>9 DEF Besides, MovesPort, Over
  <2> QED BY <1>2, <1>3, <2>1 DEF Before, Over, Texts
<1> QED BY <1>1, <1>3, <1>5, <1>6, <1>7, <1>11, <1>12, NextGroup DEF g

\* What the loop finds at an option that takes a word, and has one.
LEMMA AtOption ==
  ASSUME LineRead, pc = "parse", NEW k \in 0..Len(line.groups), Before(k), HasNext,
         NEW o \in Named(Here), o.kind # "flag"
  PROVE  LET g == Group(k + 1) IN
         /\ k + 1 \in 1..Len(line.groups) /\ i <= Len(line.words)
         /\ Len(g) = 2 /\ g[2] = line.words[i + 1] /\ g[1].text # "-h"
         /\ Says(plugin, g) = Assigns(o, g[2], settings)
         /\ Throws(o, g[2]) <=> Garbled(plugin, g)
         /\ ~IsLoose(plugin, g)
<1>0. plugin \in DOMAIN Parsers /\ line \in Lines[plugin] /\ i = line.starts[k + 1]
  BY DEF LineRead, Before
<1>a. /\ Len(line.words) \in Nat /\ Len(line.groups) \in Nat
      /\ line.starts \in Seq(Nat \ {0}) /\ Len(line.starts) = Len(line.groups) + 1
  BY LineFacts
<1>1. i <= Len(line.words)
  <2>1. i \in Nat
    BY <1>0, <1>a
  <2> QED BY <2>1, <1>a DEF HasNext
<1> DEFINE g == Group(k + 1)
<1>2. /\ k + 1 \in 1..Len(line.groups) /\ Here = g[1] /\ Len(g) \in {1, 2}
      /\ Len(g) = 2 => g[2] = line.words[i + 1]
      /\ Len(g) = 1 => OptionOf(plugin, g) = Named(Here)
  BY <1>1, Standing
<1>3. Len(g) = 2
  <2> SUFFICES ASSUME Len(g) = 1 PROVE FALSE
    BY <1>2
  <2>1. o \in OptionOf(plugin, g)
    BY <1>2
  <2> QED BY <2>1 DEF OptionOf
<1>4. o \in Parsers[plugin].opts /\ o \in Names(plugin, g[1])
  BY <1>2 DEF Named, Names
<1>9. g[1].text # "-h"
  BY <1>0, <1>4, OptionAssumption DEF Names
<1> HIDE DEF g
<1>5. OptionOf(plugin, g) = {o} /\ Says(plugin, g) = Assigns(o, g[2], <<>>)
  <2>1. o.kind = "flag" <=> Len(g) = 1
    BY <1>3
  <2>2. OptionOf(plugin, g) = {o} /\ Says(plugin, g) = Assigns(o, g[Len(g)], <<>>)
    BY <1>0, <1>4, <2>1, TheOption
  <2> QED BY <1>3, <2>2
<1>6. o.ports = <<>>
  BY <1>0, <1>4, PortAssumption
<1>7. Says(plugin, g) = Assigns(o, g[2], settings)
  BY <1>5, <1>6, SameBesides
<1>8. Throws(o, g[2]) <=> Garbled(plugin, g)
  BY <1>2, <1>3, <1>5, GroupFacts DEF g
<1> QED BY <1>1, <1>2, <1>3, <1>7, <1>8, <1>9 DEF g, IsLoose

LEMMA ValuePreserves == ASSUME LineRead, TakeValue PROVE LineRead'
<1>1. pc = "parse" /\ HasNext /\ i' = i + 2 /\ UNCHANGED <<plugin, line, pc>>
  BY DEF TakeValue, Parsing
<1>2. PICK o \in Named(Here) : /\ o.kind # "flag" /\ ~Throws(o, line.words[i + 1])
                               /\ settings' = Over(Assigns(o, line.words[i + 1], settings), settings)
  BY DEF TakeValue
<1>3. PICK k \in 0..Len(line.groups) : Before(k)
  BY <1>1 DEF LineRead
<1> DEFINE g == Group(k + 1)
<1>4. /\ k + 1 \in 1..Len(line.groups) /\ i <= Len(line.words)
      /\ Len(g) = 2 /\ g[2] = line.words[i + 1] /\ g[1].text # "-h"
      /\ Says(plugin, g) = Assigns(o, g[2], settings)
      /\ Throws(o, g[2]) <=> Garbled(plugin, g)
      /\ ~IsLoose(plugin, g)
  BY <1>1, <1>2, <1>3, AtOption
<1>5. ~Garbled(plugin, g)
  BY <1>2, <1>4
<1>6. "paths" \notin About(plugin, g)
  BY <1>4, <1>5, GroupFacts
<1> HIDE DEF g
<1>7. /\ DOMAIN settings' = DOMAIN settings \cup About(plugin, g)
      /\ \A s \in About(plugin, g) : settings'[s] = Says(plugin, g)[s]
      /\ \A s \in DOMAIN settings \ About(plugin, g) : settings'[s] = settings[s]
  BY <1>2, <1>4 DEF Over, About
<1>8. ~PortMoved => AsSaid(k + 1)'
  BY <1>1, <1>3, <1>4, <1>6, <1>7, Extends DEF g, Before
<1>9. To = "paths" /\ To \in DOMAIN settings' => settings'[To] \in Seq(Texts)
  BY <1>3, <1>6, <1>7 DEF Before, Texts
<1> QED BY <1>1, <1>3, <1>4, <1>5, <1>8, <1>9, NextGroup DEF g

LEMMA AbortPreserves == ASSUME LineRead, Abort PROVE LineRead'
<1>1. pc = "parse" /\ HasNext /\ pc' = "aborted" /\ UNCHANGED <<plugin, line>>
  BY DEF Abort, Parsing
<1>2. PICK o \in Named(Here) : o.kind # "flag" /\ Throws(o, line.words[i + 1])
  BY DEF Abort
<1>3. PICK k \in 0..Len(line.groups) : Before(k)
  BY <1>1 DEF LineRead
<1>4. /\ k + 1 \in 1..Len(line.groups) /\ Garbled(plugin, Group(k + 1))
      /\ Group(k + 1)[1].text # "-h"
  BY <1>1, <1>2, <1>3, AtOption
<1>5. AbortedByGarbageOnly'
  <2>1. \A n \in 1..(k + 1) : n \in 1..k \/ n = k + 1
    OBVIOUS
  <2>2. \A n \in 1..(k + 1) : Group(n)[1].text # "-h"
    BY <1>3, <1>4, <2>1 DEF Before
  <2> QED BY <1>1, <1>4, <2>2 DEF AbortedByGarbageOnly, Group
<1> QED BY <1>1, <1>5 DEF LineRead, MeansWhatItSays, NumbersRead, Ran, ExitCode

\* A group that sets nothing, and is a word or an option without its word.
LEMMA SkipPreserves ==
  ASSUME LineRead, pc = "parse", NEW k \in 0..Len(line.groups), Before(k), i <= Len(line.words),
         Len(Group(k + 1)) = 1, OptionOf(plugin, Group(k + 1)) = {}, ~IsLoose(plugin, Group(k + 1)),
         Group(k + 1)[1].text # "-h",
         i' = i + 1, UNCHANGED <<plugin, line, settings, pc>>
  PROVE  LineRead'
<1> DEFINE g == Group(k + 1)
<1>1. About(plugin, g) = {} /\ ~Garbled(plugin, g)
  BY DEF About, Says, Garbled
<1>2. ~PortMoved => AsSaid(k + 1)'
  BY <1>1, Extends DEF Before
<1>3. To = "paths" /\ To \in DOMAIN settings' => settings'[To] \in Seq(Texts)
  BY DEF Before, Texts
<1> QED BY <1>1, <1>2, <1>3, NextGroup

LEMMA MissingPreserves == ASSUME LineRead, MissingValue PROVE LineRead'
<1>1. /\ pc = "parse" /\ i <= Len(line.words) /\ ~HasNext /\ i' = i + 1
      /\ UNCHANGED <<plugin, line, settings, pc>>
  BY DEF MissingValue, Parsing
<1>2. PICK o \in Named(Here) : o.kind # "flag"
  BY DEF MissingValue
<1>3. PICK k \in 0..Len(line.groups) : Before(k)
  BY <1>1 DEF LineRead
<1> DEFINE g == Group(k + 1)
<1>4. Here = g[1] /\ Len(g) = 1 /\ g[1].dash
  BY <1>1, <1>2, <1>3, Standing
<1>5. OptionOf(plugin, g) = {}
  <2> SUFFICES ASSUME NEW x \in OptionOf(plugin, g) PROVE FALSE
    OBVIOUS
  <2>1. plugin \in DOMAIN Parsers /\ o \in Parsers[plugin].opts /\ o.opt = g[1].text
    BY <1>2, <1>4 DEF LineRead, Named
  <2>2. x \in Parsers[plugin].opts /\ x.opt = g[1].text /\ x.kind = "flag"
    BY <1>4 DEF OptionOf, Names
  <2> QED BY <1>2, <2>1, <2>2, OptionAssumption
<1>6. ~IsLoose(plugin, g) /\ g[1].text # "-h"
  <2>1. plugin \in DOMAIN Parsers /\ o \in Parsers[plugin].opts /\ o.opt = g[1].text
    BY <1>2, <1>4 DEF LineRead, Named
  <2>2. g[1].text # "-h"
    BY <2>1, OptionAssumption
  <2> QED BY <1>4, <2>2 DEF IsLoose
<1> QED BY <1>1, <1>3, <1>4, <1>5, <1>6, SkipPreserves

LEMMA LoosePreserves == ASSUME LineRead, LooseWord PROVE LineRead'
<1>1. /\ pc = "parse" /\ i <= Len(line.words) /\ i' = i + 1
      /\ Here.text # "-h" /\ Named(Here) = {}
      /\ UNCHANGED <<plugin, line, pc>>
      /\ settings' = IF To = "ignored" \/ Here.dash THEN settings
                     ELSE IF To = "paths"
                          THEN Over(Setting(To, Append(IF To \in DOMAIN settings THEN settings[To]
                                                       ELSE <<>>, Here.text)), settings)
                     ELSE Over(settings, Setting(To, Here.text))
  BY DEF LooseWord, Parsing, To
<1>2. PICK k \in 0..Len(line.groups) : Before(k)
  BY <1>1 DEF LineRead
<1> DEFINE g == Group(k + 1)
           sq == IF To \in DOMAIN settings THEN settings[To] ELSE <<>>
<1>3. /\ k + 1 \in 1..Len(line.groups) /\ Here = g[1] /\ Len(g) \in {1, 2}
      /\ Len(g) = 2 => OptionOf(plugin, g) # {}
  BY <1>1, <1>2, Standing
<1>4. OptionOf(plugin, g) = {} /\ Len(g) = 1
  BY <1>1, <1>3 DEF OptionOf, Named, Names
<1>5. About(plugin, g) = {} /\ ~Garbled(plugin, g) /\ g[1].text # "-h"
  BY <1>1, <1>3, <1>4 DEF About, Says, Garbled
<1>6. IsLoose(plugin, g) <=> ~(To = "ignored" \/ Here.dash)
  BY <1>3, <1>4 DEF IsLoose, To
<1>7. CASE ~IsLoose(plugin, g)
  BY <1>1, <1>2, <1>4, <1>5, <1>6, <1>7, SkipPreserves
<1>8. CASE IsLoose(plugin, g) /\ To # "paths"
  <2>1. settings' = Over(settings, Setting(To, g[1].text))
    BY <1>1, <1>3, <1>6, <1>8
  <2>2. ~PortMoved => AsSaid(k + 1)'
    BY <1>1, <1>2, <1>5, <1>8, <2>1, ListsFirst DEF Before
  <2> QED BY <1>1, <1>2, <1>4, <1>5, <1>8, <2>2, NextGroup
<1>9. CASE IsLoose(plugin, g) /\ To = "paths"
  <2>1. settings' = Over(Setting(To, Append(sq, g[1].text)), settings)
    BY <1>1, <1>3, <1>6, <1>9
  <2>2. g[1].text \in Texts
    <3>1. i = line.starts[k + 1]
      BY <1>2 DEF Before
    <3>2. i \in Nat \ {0} /\ Len(line.words) \in Nat
      BY <1>3, <3>1, LineFacts, SMTT(60)
    <3>3. i \in 1..Len(line.words)
      BY <1>1, <3>2
    <3> QED BY <1>3, <3>3 DEF Texts, Here
  <2>3. sq \in Seq(Texts)
    <3>1. <<>> \in Seq(Texts)
      OBVIOUS
    <3> QED BY <1>2, <1>9, <3>1 DEF Before, Texts
  <2>4. "paths" \notin Said(k)
    <3> SUFFICES ASSUME NEW m \in 1..k PROVE "paths" \notin About(plugin, Group(m))
      BY DEF Said
    <3>1. m - 1 \in 0..Len(line.groups) /\ m \in 1..Len(line.groups) /\ (m - 1) + 1 = m
      BY <1>3
    <3>2. ~Garbled(plugin, Group(m))
      BY <1>2 DEF Before
    <3> QED BY <3>1, <3>2, GroupFacts
  <2> HIDE DEF g, sq
  <2>5. ~PortMoved => AsSaid(k + 1)'
    <3> SUFFICES ASSUME ~PortMoved PROVE AsSaid(k + 1)'
      OBVIOUS
    <3>1. AsSaid(k)
      BY <1>2 DEF Before
    <3>2. (To \in DOMAIN settings => sq = settings[To]) /\ (To \notin DOMAIN settings => sq = <<>>)
      BY DEF sq
    <3>3. sq \in Seq({line.words[n].text : n \in 1..Len(line.words)})
          /\ g[1].text \in {line.words[n].text : n \in 1..Len(line.words)}
      BY <2>2, <2>3 DEF Texts
    <3>4. k \in Nat /\ g = Group(k + 1)
      BY <1>3 DEF g
    <3> HIDE DEF g
    <3> QED BY <1>1, <1>5, <1>9, <2>1, <2>4, <3>1, <3>2, <3>3, <3>4, ListsPath
  <2>6. settings'[To] \in Seq(Texts)
    <3>1. settings'[To] = Append(sq, g[1].text)
      BY <2>1 DEF Over, Setting
    <3> QED BY <2>2, <2>3, <3>1
  <2> QED BY <1>1, <1>2, <1>4, <1>5, <2>5, <2>6, NextGroup DEF g
<1> QED BY <1>7, <1>8, <1>9

\* After the last group, the whole line is read.
LEMMA ParsedPreserves == ASSUME LineRead, Parsed PROVE LineRead'
<1>1. pc = "parse" /\ i > Len(line.words) /\ UNCHANGED <<plugin, line, settings, i>>
      /\ pc' = (IF Parsers[plugin].stub = "none" THEN "check" ELSE Parsers[plugin].stub)
  BY DEF Parsed
<1>2. PICK k \in 0..Len(line.groups) : Before(k)
  BY <1>1 DEF LineRead
<1>3. plugin \in DOMAIN Parsers /\ line \in Lines[plugin] /\ i = line.starts[k + 1]
  BY <1>2 DEF LineRead, Before
<1>4. k = Len(line.groups)
  <2> SUFFICES ASSUME k # Len(line.groups) PROVE FALSE
    OBVIOUS
  <2>1. k + 1 \in 1..Len(line.groups)
    BY LineFacts
  <2>2. InGroups(line) /\ GroupOf(plugin, line, k + 1)
    BY <1>3, <2>1, LineAssumption
  <2>3. i + Len(line.groups[k + 1]) <= Len(line.words) + 1 /\ Len(line.groups[k + 1]) \in {1, 2}
    BY <1>3, <2>1, <2>2 DEF InGroups, GroupOf
  <2>4. i \in Nat /\ Len(line.words) \in Nat
    BY <1>3, <2>1, LineFacts, SMTT(60)
  <2>5. i > Len(line.words)
    BY <1>1
  <2> DEFINE words == Len(line.words)
             n == Len(line.groups[k + 1])
  <2>6. i + n <= words + 1 /\ n \in {1, 2} /\ i \in Nat /\ words \in Nat /\ i > words
    BY <2>3, <2>4, <2>5
  <2> HIDE DEF words, n
  <2> QED BY ONLY <2>6
<1>5. pc' \notin {"parse", "aborted"}
  BY <1>1, <1>3, OptionAssumption DEF ExitCode
<1>6. MeansWhatItSays'
  <2>1. ~PortMoved => AsSaid(Len(line.groups))
    BY <1>2, <1>4 DEF Before
  <2>2. PortMoved' = PortMoved /\ AsSaid(Len(line.groups))' = AsSaid(Len(line.groups))
    BY <1>1 DEF PortMoved, AsSaid, Decided, Listed, Said, LooseOf, To, Group
  <2> QED BY <2>1, <2>2 DEF MeansWhatItSays
<1>7. AbortedByGarbageOnly' /\ NumbersRead'
  <2>1. \A m \in 1..Len(line.groups) : ~Garbled(plugin, Group(m))
    BY <1>2, <1>4 DEF Before
  <2> QED BY <1>1, <1>5, <2>1 DEF AbortedByGarbageOnly, NumbersRead, Group
<1> QED BY <1>1, <1>3, <1>5, <1>6, <1>7 DEF LineRead

LEMMA ReadPreserves == LineRead /\ ParserNext => LineRead'
<1> SUFFICES ASSUME LineRead, ParserNext PROVE LineRead'
  OBVIOUS
<1>1. CASE Help
  BY <1>1 DEF Help, LineRead, MeansWhatItSays, AbortedByGarbageOnly, NumbersRead, Ran, ExitCode
<1> QED
  BY <1>1, FlagPreserves, ValuePreserves, AbortPreserves, MissingPreserves, LoosePreserves,
     ParsedPreserves DEF ParserNext

\* What is not parsed any more stays as it was understood.
LEMMA ReadStays ==
  ASSUME LineRead, UNCHANGED <<plugin, line, settings>>, pc # "parse", pc' # "parse",
         Ran' => Ran, pc' = "aborted" => pc = "aborted"
  PROVE  LineRead'
<1>1. PortMoved' = PortMoved /\ AsSaid(Len(line.groups))' = AsSaid(Len(line.groups))
  BY DEF PortMoved, AsSaid, Decided, Listed, Said, LooseOf, To, Group
<1>2. MeansWhatItSays'
  BY <1>1 DEF LineRead, MeansWhatItSays
<1>3. AbortedByGarbageOnly' /\ NumbersRead'
  BY DEF LineRead, AbortedByGarbageOnly, NumbersRead, Group
<1> QED BY <1>2, <1>3 DEF LineRead

LEMMA InitRead == Init => LineRead
<1> SUFFICES ASSUME Init PROVE LineRead
  OBVIOUS
<1>1. plugin \in DOMAIN Parsers /\ line \in Lines[plugin] /\ i = 1 /\ settings = <<>> /\ pc = "parse"
  BY DEF Init, ParserInit
<1>2. InGroups(line)
  BY <1>1, LineAssumption
<1>3. Len(line.groups) \in Nat /\ line.starts[0 + 1] = 1
  BY <1>2 DEF InGroups, IsSequence
<1>4. Said(0) = {} /\ LooseOf(0) = {}
  BY DEF Said, LooseOf
<1>5. AsSaid(0)
  BY <1>1, <1>4 DEF AsSaid, Decided, Listed
<1>6. Before(0)
  BY <1>1, <1>3, <1>5 DEF Before
<1> QED
  BY <1>1, <1>3, <1>6 DEF LineRead, MeansWhatItSays, AbortedByGarbageOnly, NumbersRead, Ran, ExitCode

LEMMA StepReads == LineRead /\ IInv /\ [Next]_vars => LineRead'
<1> SUFFICES ASSUME LineRead, IInv, [Next]_vars PROVE LineRead'
  OBVIOUS
<1>1. CASE Parse
  BY <1>1, ReadPreserves DEF Parse
<1>2. CASE Check \/ DiskDone
  <2>1. pc = "check" /\ pc' \in ExitCode /\ UNCHANGED <<plugin, line, settings>>
    BY <1>2, JudgedType DEF Check, DiskDone, IInv
  <2> QED BY <2>1, ReadStays DEF Ran, ExitCode
<1>3. CASE UNCHANGED vars
  <2>1. UNCHANGED <<plugin, line, i, settings, pc>>
    BY <1>3 DEF vars, parserVars
  <2>2. /\ \A m : Group(m)' = Group(m) /\ Said(m)' = Said(m) /\ LooseOf(m)' = LooseOf(m)
        /\ To' = To /\ PortMoved' = PortMoved
    BY <2>1 DEF Group, Said, LooseOf, To, PortMoved
  <2>3. \A k : AsSaid(k)' = AsSaid(k)
    <3>1. \A k : Decided(k)' = Decided(k)
      BY <2>1, <2>2 DEF Decided
    <3>2. \A k : Listed(k)' = Listed(k)
      BY <2>1, <2>2 DEF Listed
    <3> QED BY <2>1, <2>2, <3>1, <3>2 DEF AsSaid
  <2>4. \A k : Before(k)' = Before(k)
    BY <2>1, <2>2, <2>3 DEF Before
  <2> QED
    BY <2>1, <2>2, <2>3, <2>4
       DEF LineRead, MeansWhatItSays, AbortedByGarbageOnly, NumbersRead, Ran
<1>4. CASE CheckDisk \/ Ended
  <2>1. CASE pc = "parse"
    BY <1>4, <2>1 DEF CheckDisk, Ended
  <2>2. CASE pc # "parse"
    <3>1. UNCHANGED <<plugin, line, settings, pc>>
      BY <1>4 DEF CheckDisk, Ended, vars, parserVars
    <3> QED BY <2>2, <3>1, ReadStays DEF Ran
  <2> QED BY <2>1, <2>2
<1> QED
  BY <1>1, <1>2, <1>3, <1>4 DEF Next

LEMMA SpecReads == Spec => []LineRead
<1>1. Init => LineRead /\ IInv
  BY InitRead, InitImplies
<1>2. LineRead /\ IInv /\ [Next]_vars => LineRead' /\ IInv'
  BY StepReads, StepPreserves
<1> QED
  BY <1>1, <1>2, PTL DEF Spec

\* parseArguments() understands every command line as its groups say: the last
\* of two for one setting counts, and a value that looks like an option is a value.
THEOREM MeansWhatItSaysHolds == Spec => []MeansWhatItSays
<1>1. LineRead => MeansWhatItSays
  BY DEF LineRead
<1> QED
  BY <1>1, SpecReads, PTL

\* A process is aborted only for a word that is no number, or one out of range,
\* where an option needs a number, and never once -h has been read.
THEOREM AbortedByGarbageOnlyHolds == Spec => []AbortedByGarbageOnly
<1>1. LineRead => AbortedByGarbageOnly
  BY DEF LineRead
<1> QED
  BY <1>1, SpecReads, PTL

-----------------------------------------------------------------------------
(* The thresholds: what the words of the deciding options become. *)

\* A deciding option does nothing else, and none of them is about the paths.
LEMMA DecidingPlain ==
  ASSUME NEW p, NEW x \in Deciding(p)
  PROVE  /\ x.ports = <<>> /\ x.also = <<>> /\ x.kind # "flag"
         /\ "paths" \notin Targets(x)
<1>1. CASE p \in Measuring
  <2>1. PICK o \in {"-c", "-w"} : x = Threshold(p, o)
    <3>1. Deciding(p) = {Threshold(p, "-c"), Threshold(p, "-w")}
      BY <1>1 DEF Deciding, Measuring
    <3> QED BY <3>1
  <2>2. x.ports = <<>> /\ x.also = <<>> /\ x.kind = KindOf(p) /\ x.to = SettingsOf(p, o)
    BY <2>1 DEF Threshold, Plain
  <2>3. KindOf(p) # "flag"
    BY DEF KindOf
  <2>4. \A k \in DOMAIN SettingsOf(p, o) : SettingsOf(p, o)[k] # "paths"
    BY <2>1, <1>1 DEF SettingsOf, Measuring
  <2> QED BY <2>2, <2>3, <2>4 DEF Targets
<1>2. CASE p \notin Measuring
  <2>1. x \in {Plain("-a", "text", <<"-a">>), Plain("-e", "text", <<"-e">>)}
    BY <1>2, Zenon DEF Deciding
  <2> QED BY <2>1 DEF Plain, Targets
<1> QED BY <1>1, <1>2

\* What such an option sets goes to its own settings.
LEMMA ValuedTargets ==
  ASSUME NEW p, NEW x \in Deciding(p), NEW w
  PROVE  x.kind = "text" => DOMAIN Valued(x, w) = Targets(x)
<1>1. CASE p \in Measuring
  <2>1. x.kind = KindOf(p)
    <3>1. Deciding(p) = {Threshold(p, "-c"), Threshold(p, "-w")}
      BY <1>1 DEF Deciding, Measuring
    <3> QED BY <3>1 DEF Threshold, Plain
  <2>2. KindOf(p) # "text"
    BY DEF KindOf
  <2> QED BY <2>1, <2>2
<1>2. CASE p \notin Measuring
  <2>1. x \in {Plain("-a", "text", <<"-a">>), Plain("-e", "text", <<"-e">>)}
    BY <1>2, Zenon DEF Deciding
  <2> QED BY <2>1 DEF Plain, Targets, Valued, Setting
<1> QED BY <1>1, <1>2

\* A group that names a deciding option says what the word after it is worth, or
\* nothing without it.
LEMMA DecidingSays ==
  ASSUME NEW p \in HostChecks \cap DOMAIN Parsers, NEW x \in Deciding(p), NEW g,
         g[1].text = x.opt
  PROVE  /\ Len(g) = 1 => About(p, g) = {}
         /\ Len(g) = 2 => /\ OptionOf(p, g) = {x}
                          /\ About(p, g) = DOMAIN Valued(x, g[2])
                          /\ \A s \in About(p, g) : Says(p, g)[s] = Valued(x, g[2])[s]
<1>1. x \in Parsers[p].opts
  BY DecidingAssumption
<1>2. Names(p, g[1]) = {x}
  BY <1>1, OptionAssumption DEF Names
<1>3. x.kind # "flag" /\ x.ports = <<>> /\ x.also = <<>>
  BY DecidingPlain
<1>4. ASSUME Len(g) = 1 PROVE About(p, g) = {}
  <2>1. OptionOf(p, g) = {}
    BY <1>2, <1>3, <1>4 DEF OptionOf
  <2> QED BY <2>1 DEF About, Says
<1>5. ASSUME Len(g) = 2
      PROVE  /\ OptionOf(p, g) = {x}
             /\ About(p, g) = DOMAIN Valued(x, g[2])
             /\ \A s \in About(p, g) : Says(p, g)[s] = Valued(x, g[2])[s]
  <2>1. Says(p, g) = Assigns(x, g[2], <<>>) /\ OptionOf(p, g) = {x}
    <3>1. x \in Names(p, g[1]) /\ (x.kind = "flag" <=> Len(g) = 1)
      BY <1>2, <1>3, <1>5
    <3>2. OptionOf(p, g) = {x} /\ Says(p, g) = Assigns(x, g[Len(g)], <<>>)
      BY <3>1, TheOption
    <3> QED BY <1>5, <3>2
  <2>2. Besides(x, <<>>) = <<>>
    BY <1>3 DEF Besides, MovesPort, SetsAlso
  <2>3. Assigns(x, g[2], <<>>) = Over(<<>>, Valued(x, g[2]))
    BY <2>2 DEF Assigns
  <2> QED BY <2>1, <2>3 DEF About, Over
<1> QED BY <1>4, <1>5

-----------------------------------------------------------------------------
(* The settings when check() is done. *)

\* The line has been read, no number is garbled, and the settings are as the
\* groups say.
LEMMA JudgingFacts ==
  ASSUME LineRead, pc \in ExitCode, plugin \in HostChecks
  PROVE  /\ plugin \in HostChecks \cap DOMAIN Parsers /\ line \in Lines[plugin]
         /\ Len(line.groups) \in Nat
         /\ AsSaid(Len(line.groups))
         /\ \A m \in 1..Len(line.groups) : ~Garbled(plugin, Group(m)) /\ Len(Group(m)) \in {1, 2}
<1>1. plugin \in HostChecks \cap DOMAIN Parsers /\ line \in Lines[plugin]
  BY DEF LineRead
<1>2. ~PortMoved
  BY <1>1, DecidingAssumption DEF PortMoved
<1>3. AsSaid(Len(line.groups)) /\ \A m \in 1..Len(line.groups) : ~Garbled(plugin, Group(m))
  BY <1>2 DEF LineRead, MeansWhatItSays, NumbersRead, Ran
<1>4. \A m \in 1..Len(line.groups) : Len(Group(m)) \in {1, 2}
  BY <1>1, LineAssumption DEF GroupOf, Group
<1> QED BY <1>1, <1>3, <1>4, LineFacts

\* A group about the setting of a deciding option gives a word to that option.
LEMMA AboutIsGiven ==
  ASSUME LineRead, pc \in ExitCode, plugin \in HostChecks, NEW x \in Deciding(plugin),
         NEW s \in Targets(x), NEW k \in 1..Len(line.groups), s \in About(plugin, Group(k))
  PROVE  k \in GivenAt(x.opt)
<1>1. ~Garbled(plugin, Group(k)) /\ Len(Group(k)) \in {1, 2} /\ line \in Lines[plugin]
      /\ plugin \in HostChecks \cap DOMAIN Parsers
  BY JudgingFacts
<1>2. Group(k)[1].text = x.opt
  BY <1>1, DecidingAssumption DEF Group
<1>3. Len(Group(k)) = 2
  BY <1>1, <1>2, DecidingSays
<1> QED BY <1>2, <1>3 DEF GivenAt

\* The words given to a deciding option are well formed, and so are the numbers
\* that are read from them.
LEMMA GivenWord ==
  ASSUME LineRead, pc \in ExitCode, plugin \in HostChecks, NEW x \in Deciding(plugin),
         NEW k \in GivenAt(x.opt)
  PROVE  /\ WellFormed(x, Group(k)[2]) /\ ~Throws(x, Group(k)[2])
         /\ About(plugin, Group(k)) = DOMAIN Valued(x, Group(k)[2])
         /\ \A s \in About(plugin, Group(k)) : Says(plugin, Group(k))[s] = Valued(x, Group(k)[2])[s]
<1>1. k \in 1..Len(line.groups) /\ Group(k)[1].text = x.opt /\ Len(Group(k)) = 2
  BY DEF GivenAt
<1>2. ~Garbled(plugin, Group(k)) /\ line \in Lines[plugin] /\ plugin \in HostChecks \cap DOMAIN Parsers
  BY <1>1, JudgingFacts
<1>3. WellFormed(x, Group(k)[2])
  BY <1>1, <1>2, DecidingAssumption DEF Group
<1>4. /\ OptionOf(plugin, Group(k)) = {x}
      /\ About(plugin, Group(k)) = DOMAIN Valued(x, Group(k)[2])
      /\ \A s \in About(plugin, Group(k)) : Says(plugin, Group(k))[s] = Valued(x, Group(k)[2])[s]
  BY <1>1, <1>2, DecidingSays
<1>5. ~Throws(x, Group(k)[2])
  BY <1>1, <1>2, <1>4, NumberAssumption DEF Group
<1> QED BY <1>3, <1>4, <1>5

\* A setting of a deciding option that is set, is what a word given to it says.
LEMMA SetIsGiven ==
  ASSUME LineRead, pc \in ExitCode, plugin \in HostChecks, NEW x \in Deciding(plugin),
         NEW s \in Targets(x), s \in DOMAIN settings
  PROVE  \E w \in Given(x.opt) :
           /\ s \in DOMAIN Valued(x, w) /\ settings[s] = Valued(x, w)[s]
           /\ WellFormed(x, w) /\ ~Throws(x, w)
           /\ x.kind = "text" => w \in LastGiven(x.opt)
<1> DEFINE N == Len(line.groups)
<1>1. /\ AsSaid(N) /\ N \in Nat /\ line \in Lines[plugin]
      /\ plugin \in HostChecks \cap DOMAIN Parsers
  BY JudgingFacts
<1>2. s \in Said(N)
  <2>1. To \in {"ignored", "paths"}
    BY <1>1, DecidingAssumption DEF To
  <2>2. s # "paths"
    BY DecidingPlain
  <2>3. LooseOf(N) = {} \/ To = "paths"
    BY <2>1 DEF LooseOf, IsLoose, To
  <2> QED BY <1>1, <2>2, <2>3 DEF AsSaid
<1>3. PICK k \in 1..N : /\ s \in About(plugin, Group(k))
                        /\ settings[s] = Says(plugin, Group(k))[s]
                        /\ \A later \in (k + 1)..N : s \notin About(plugin, Group(later))
  BY <1>1, <1>2 DEF AsSaid, Decided
<1>4. k \in GivenAt(x.opt)
  BY <1>3, AboutIsGiven
<1>5. /\ WellFormed(x, Group(k)[2]) /\ ~Throws(x, Group(k)[2])
      /\ s \in DOMAIN Valued(x, Group(k)[2]) /\ settings[s] = Valued(x, Group(k)[2])[s]
  BY <1>3, <1>4, GivenWord
<1>6. ASSUME x.kind = "text" PROVE Group(k)[2] \in LastGiven(x.opt)
  <2>1. ASSUME NEW m \in GivenAt(x.opt), ~(m <= k) PROVE FALSE
    <3>1. m \in (k + 1)..N
      BY <2>1, <1>1 DEF GivenAt
    <3>2. s \in About(plugin, Group(m))
      BY <1>6, GivenWord, ValuedTargets
    <3> QED BY <1>3, <3>1, <3>2
  <2> QED BY <1>4, <2>1 DEF LastGiven
<1> QED BY <1>4, <1>5, <1>6 DEF Given

\* The last word given to a deciding option decides the settings it is about.
LEMMA LastDecides ==
  ASSUME LineRead, pc \in ExitCode, plugin \in HostChecks, NEW x \in Deciding(plugin),
         NEW w \in LastGiven(x.opt)
  PROVE  /\ WellFormed(x, w) /\ ~Throws(x, w)
         /\ \A s \in DOMAIN Valued(x, w) \cap Targets(x) :
              s \in DOMAIN settings /\ settings[s] = Valued(x, w)[s]
<1> DEFINE N == Len(line.groups)
<1>1. /\ AsSaid(N) /\ N \in Nat /\ line \in Lines[plugin]
      /\ plugin \in HostChecks \cap DOMAIN Parsers
  BY JudgingFacts
<1>2. PICK k \in GivenAt(x.opt) : w = Group(k)[2] /\ \A m \in GivenAt(x.opt) : m <= k
  BY DEF LastGiven
<1>3. /\ WellFormed(x, w) /\ ~Throws(x, w)
      /\ About(plugin, Group(k)) = DOMAIN Valued(x, w)
      /\ \A s \in About(plugin, Group(k)) : Says(plugin, Group(k))[s] = Valued(x, w)[s]
  BY <1>2, GivenWord
<1>4. k \in 1..N
  BY DEF GivenAt
<1>5. ASSUME NEW s \in DOMAIN Valued(x, w) \cap Targets(x)
      PROVE  s \in DOMAIN settings /\ settings[s] = Valued(x, w)[s]
  <2>1. s \in Said(N) /\ s \in DOMAIN settings
    BY <1>1, <1>3, <1>4 DEF Said, AsSaid
  <2>2. PICK m \in 1..N : /\ s \in About(plugin, Group(m))
                          /\ settings[s] = Says(plugin, Group(m))[s]
                          /\ \A later \in (m + 1)..N : s \notin About(plugin, Group(later))
    BY <1>1, <2>1 DEF AsSaid, Decided
  <2>3. m \in GivenAt(x.opt)
    BY <2>2, AboutIsGiven
  <2>4. m = k
    <3>1. m <= k
      BY <1>2, <2>3
    <3>2. ~(m < k)
      <4>1. m < k => k \in (m + 1)..N
        BY <1>1, <1>4
      <4> QED BY <1>3, <2>2, <4>1
    <3> QED BY <1>4, <3>1, <3>2
  <2> QED BY <1>3, <2>1, <2>2, <2>4
<1> QED BY <1>3, <1>5

\* What is read of a word ends up in the setting it is for.
LEMMA ReadIsSet ==
  ASSUME NEW x, NEW w, x.kind # "text", NEW rd \in Reads(x, w),
         \A other \in Reads(x, w) : other[1] = rd[1] => other = rd
  PROVE  rd[1] \in DOMAIN Valued(x, w) /\ Valued(x, w)[rd[1]] = w.parts[rd[2]][1]
<1>1. rd[1] \in {r[1] : r \in Reads(x, w)}
  OBVIOUS
<1>2. (CHOOSE r \in Reads(x, w) : r[1] = rd[1]) = rd
  OBVIOUS
<1>3. Valued(x, w) = [s \in {r[1] : r \in Reads(x, w)} |->
                        LET r == CHOOSE r \in Reads(x, w) : r[1] = s IN w.parts[r[2]][1]]
  BY DEF Valued
<1> QED BY <1>1, <1>2, <1>3

\* What each kind of option reads.
LEMMA ReadsOf ==
  ASSUME NEW x, NEW w
  PROVE  /\ x.kind = "number" => Reads(x, w) = {<<x.to[1], 1>>}
         /\ x.kind = "list" =>
              Reads(x, w) = IF w.sep = "comma"
                            THEN {<<x.to[k], k>> : k \in 1..MinOf(Len(x.to), Len(w.parts))}
                            ELSE {<<x.to[1], 1>>}
         /\ x.kind = "range" =>
              Reads(x, w) = IF w.sep = "colon" THEN {<<x.to[1], 1>>, <<x.to[2], 2>>}
                            ELSE {<<x.to[2], 1>>}
         /\ x.kind = "pair" =>
              Reads(x, w) = IF w.sep = "comma" THEN {<<x.to[1], 1>>, <<x.to[2], 2>>} ELSE {}
         /\ x.kind = "share" =>
              Reads(x, w) = IF w.sep = "percent" THEN {<<x.to[1], 1>>} ELSE {<<x.to[2], 1>>}
BY Zenon DEF Reads

\* What an option reads are parts of the word, and numbers.
LEMMA ReadsParts ==
  ASSUME NEW x, NEW w, x.kind # "text", WellFormed(x, w), ~Throws(x, w), NEW rd \in Reads(x, w)
  PROVE  rd[2] \in DOMAIN w.parts /\ w.parts[rd[2]] # <<>> /\ w.parts[rd[2]][1] \in Int
<1>1. w.parts \in Seq(Seq(Int)) /\ w.parts # <<>>
  BY DEF WellFormed
<1>2. 1 \in DOMAIN w.parts /\ Len(w.parts) \in Nat /\ DOMAIN w.parts = 1..Len(w.parts)
  BY <1>1
<1>3. x.kind \in {"number", "list", "range", "pair", "share"}
  BY DEF Reads
<1>4. rd[2] \in DOMAIN w.parts
  <2>1. CASE x.kind \in {"number", "share"}
    BY <1>2, <2>1, ReadsOf
  <2>2. CASE x.kind = "list"
    <3>1. CASE w.sep = "comma"
      <4>1. PICK k \in 1..MinOf(Len(x.to), Len(w.parts)) : rd = <<x.to[k], k>>
        BY <2>2, <3>1, ReadsOf
      <4>2. k \in 1..Len(w.parts)
        BY <1>2 DEF MinOf
      <4> QED BY <1>2, <4>1, <4>2
    <3>2. CASE w.sep # "comma"
      BY <1>2, <2>2, <3>2, ReadsOf
    <3> QED BY <3>1, <3>2
  <2>3. CASE x.kind = "range"
    <3>1. rd \in {<<x.to[1], 1>>, <<x.to[2], 1>>} \/ (rd = <<x.to[2], 2>> /\ w.sep = "colon")
      BY <2>3, ReadsOf
    <3> QED BY <1>2, <2>3, <3>1 DEF WellFormed
  <2>4. CASE x.kind = "pair"
    <3>1. rd \in {<<x.to[1], 1>>, <<x.to[2], 2>>} /\ w.sep = "comma"
      BY <2>4, ReadsOf
    <3> QED BY <1>2, <2>4, <3>1 DEF WellFormed
  <2> QED BY <1>3, <2>1, <2>2, <2>3, <2>4
<1>5. w.parts[rd[2]] # <<>> /\ w.parts[rd[2]] \in Seq(Int)
  BY <1>1, <1>4 DEF Throws
<1> QED BY <1>4, <1>5

\* The options of the thresholds, and what each reads.
LEMMA TheThreshold ==
  ASSUME NEW p \in Measuring, NEW o \in {"-c", "-w"}
  PROVE  /\ Threshold(p, o) \in Deciding(p) /\ Threshold(p, o).opt = o
         /\ Threshold(p, o).kind = KindOf(p) /\ Threshold(p, o).kind # "text"
         /\ Threshold(p, o).to = SettingsOf(p, o)
<1>1. Deciding(p) = {Threshold(p, "-c"), Threshold(p, "-w")}
  BY DEF Deciding, Measuring
<1>2. KindOf(p) # "text"
  BY DEF KindOf
<1> QED BY <1>1, <1>2 DEF Threshold, Plain

\* Each part of a word goes to a setting of its own.
LEMMA ReadsApart ==
  ASSUME NEW p \in Measuring, NEW o \in {"-c", "-w"}, NEW w, WellFormed(Threshold(p, o), w),
         NEW rd \in Reads(Threshold(p, o), w)
  PROVE  /\ rd[1] \in Targets(Threshold(p, o))
         /\ \A other \in Reads(Threshold(p, o), w) : other[1] = rd[1] => other = rd
<1> DEFINE x == Threshold(p, o)
<1>1. x.kind = KindOf(p) /\ x.to = SettingsOf(p, o)
  BY TheThreshold
<1>2. Targets(x) = {x.to[k] : k \in DOMAIN x.to}
  BY DEF Targets
<1>3. Len(w.parts) \in Nat
  BY DEF WellFormed
<1> HIDE DEF x
<1>4. CASE x.kind = "number"
  <2>1. x.to = <<o>>
    BY <1>1, <1>4 DEF KindOf, SettingsOf
  <2> QED BY <1>2, <1>4, <2>1, ReadsOf DEF x
<1>5. CASE x.kind = "list"
  <2>1. \E a, b, c : x.to = <<a, b, c>> /\ a # b /\ a # c /\ b # c
    BY <1>1, <1>5 DEF KindOf, SettingsOf
  <2>2. \A n \in 1..MinOf(Len(x.to), Len(w.parts)) : n \in 1..3
    BY <1>3, <2>1 DEF MinOf
  <2>3. \A q \in Reads(x, w) : \E n \in 1..3 : q = <<x.to[n], n>>
    BY <1>5, <2>2, ReadsOf
  <2>4. \A n, m \in 1..3 : x.to[n] = x.to[m] => n = m
    BY <2>1
  <2>5. \A n \in 1..3 : x.to[n] \in Targets(x)
    BY <1>2, <2>1
  <2>6. rd \in Reads(x, w)
    BY DEF x
  <2>7. PICK n \in 1..3 : rd = <<x.to[n], n>>
    BY <2>3, <2>6
  <2>8. ASSUME NEW other \in Reads(x, w), other[1] = rd[1] PROVE other = rd
    <3>1. PICK m \in 1..3 : other = <<x.to[m], m>>
      BY <2>3, <2>8
    <3> QED BY <2>4, <2>7, <2>8, <3>1
  <2> QED BY <2>5, <2>7, <2>8 DEF x
<1>6. CASE x.kind \in {"range", "pair", "share"}
  <2>1. \E a, b : x.to = <<a, b>> /\ a # b
    BY <1>1, <1>6 DEF KindOf, SettingsOf
  <2>2. PICK a, b : x.to = <<a, b>> /\ a # b
    BY <2>1
  <2>3. Reads(x, w) \subseteq {<<a, 1>>, <<b, 2>>} \/ Reads(x, w) \subseteq {<<a, 1>>}
        \/ Reads(x, w) \subseteq {<<b, 1>>}
    BY <1>6, <2>2, ReadsOf
  <2>4. Targets(x) = {a, b}
    BY <1>2, <2>2
  <2> QED BY <2>2, <2>3, <2>4 DEF x
<1>7. KindOf(p) \in {"number", "list", "range", "pair", "share"}
  BY DEF KindOf
<1> QED BY <1>1, <1>4, <1>5, <1>6, <1>7

\* What is read of the last word of a threshold, if it is one, is set.
LEMMA ThresholdSet ==
  ASSUME LineRead, pc \in ExitCode, plugin \in Measuring, NEW o \in {"-c", "-w"},
         NEW w \in LastGiven(o), Positive(w)
  PROVE  /\ WellFormed(Threshold(plugin, o), w)
         /\ \A rd \in Reads(Threshold(plugin, o), w) :
              /\ rd[1] \in DOMAIN settings /\ settings[rd[1]] = w.parts[rd[2]][1]
              /\ w.parts[rd[2]][1] \in Int /\ w.parts[rd[2]][1] > 0
<1> DEFINE x == Threshold(plugin, o)
<1>1. x \in Deciding(plugin) /\ x.opt = o /\ x.kind # "text"
  BY TheThreshold
<1>2. plugin \in HostChecks
  BY DEF HostChecks
<1>3. /\ WellFormed(x, w) /\ ~Throws(x, w)
      /\ \A s \in DOMAIN Valued(x, w) \cap Targets(x) :
           s \in DOMAIN settings /\ settings[s] = Valued(x, w)[s]
  <2> HIDE DEF x
  <2> QED BY <1>1, <1>2, LastDecides
<1>4. ASSUME NEW rd \in Reads(x, w)
      PROVE  /\ rd[1] \in DOMAIN settings /\ settings[rd[1]] = w.parts[rd[2]][1]
             /\ w.parts[rd[2]][1] \in Int /\ w.parts[rd[2]][1] > 0
  <2>1. /\ rd[1] \in Targets(x)
        /\ \A other \in Reads(x, w) : other[1] = rd[1] => other = rd
    BY <1>3, ReadsApart
  <2> HIDE DEF x
  <2>2. rd[1] \in DOMAIN Valued(x, w) /\ Valued(x, w)[rd[1]] = w.parts[rd[2]][1]
    BY <1>1, <2>1, ReadIsSet
  <2>3. rd[2] \in DOMAIN w.parts /\ w.parts[rd[2]] # <<>> /\ w.parts[rd[2]][1] \in Int
    BY <1>1, <1>3, ReadsParts
  <2> QED BY <1>3, <2>1, <2>2, <2>3 DEF Positive
<1> QED BY <1>3, <1>4

\* A setting of a threshold is read from a word of the line.
LEMMA ThresholdGiven ==
  ASSUME LineRead, pc \in ExitCode, plugin \in Measuring, NEW o \in {"-c", "-w"},
         NEW s \in Targets(Threshold(plugin, o)), s \in DOMAIN settings
  PROVE  \E w \in Given(o) : \E rd \in Reads(Threshold(plugin, o), w) :
           /\ rd[1] = s /\ rd[2] \in DOMAIN w.parts /\ settings[s] = w.parts[rd[2]][1]
           /\ settings[s] \in Int /\ WellFormed(Threshold(plugin, o), w)
<1> DEFINE x == Threshold(plugin, o)
<1>1. x \in Deciding(plugin) /\ x.opt = o /\ x.kind # "text"
  BY TheThreshold
<1>2. plugin \in HostChecks
  BY DEF HostChecks
<1>3. PICK w \in Given(o) : /\ s \in DOMAIN Valued(x, w) /\ settings[s] = Valued(x, w)[s]
                             /\ WellFormed(x, w) /\ ~Throws(x, w)
  <2> HIDE DEF x
  <2>1. s \in Targets(x)
    BY DEF x
  <2> QED BY <1>1, <1>2, <2>1, SetIsGiven
<1> HIDE DEF x
<1>4. Valued(x, w) = [t \in {r[1] : r \in Reads(x, w)} |->
                        LET r == CHOOSE r \in Reads(x, w) : r[1] = t IN w.parts[r[2]][1]]
  BY <1>1 DEF Valued
<1> DEFINE rd == CHOOSE r \in Reads(x, w) : r[1] = s
<1>5. rd \in Reads(x, w) /\ rd[1] = s /\ Valued(x, w)[s] = w.parts[rd[2]][1]
  <2>1. \E r \in Reads(x, w) : r[1] = s
    BY <1>3, <1>4
  <2> QED BY <1>3, <1>4, <2>1
<1>6. rd[2] \in DOMAIN w.parts /\ w.parts[rd[2]][1] \in Int
  <2> HIDE DEF rd
  <2> QED BY <1>1, <1>3, <1>5, ReadsParts
<1> HIDE DEF rd
<1> QED BY <1>3, <1>5, <1>6 DEF x

-----------------------------------------------------------------------------
(* The verdict of each check, and the words of the line. *)

\* A setting that is a limit is set, and the verdict is that of the limits.
LEMMA LimitIsSet ==
  ASSUME NEW s, NEW name, Value(s, name, -1) >= 1
  PROVE  name \in DOMAIN s /\ Value(s, name, -1) = s[name]
BY DEF Value

LEMMA CriticalLimit ==
  ASSUME NEW limits, NEW r, NEW l \in limits, l.level = "CRITICAL", Breached(l, r)
  PROVE  Verdict(limits, r) = "CRITICAL"
BY DEF Verdict

LEMMA AlarmLimit ==
  ASSUME NEW limits, NEW r, Verdict(limits, r) \in {"WARNING", "CRITICAL"}
  PROVE  \E l \in limits : Breached(l, r)
BY DEF Verdict

\* The thresholds that are one number.
Numbered == {"users", "uptime", "overcr", "sensors", "ssl_validity"}

LEMMA NumberThreshold ==
  ASSUME NEW p \in Numbered, NEW o \in {"-c", "-w"}
  PROVE  /\ p \in Measuring /\ Targets(Threshold(p, o)) = {o}
         /\ \A w : Reads(Threshold(p, o), w) = {<<o, 1>>}
<1>1. p \in Measuring /\ KindOf(p) = "number" /\ SettingsOf(p, o) = <<o>>
  BY DEF Numbered, Measuring, KindOf, SettingsOf
<1>2. Threshold(p, o).kind = "number" /\ Threshold(p, o).to = <<o>>
  BY <1>1, TheThreshold
<1>3. Targets(Threshold(p, o)) = {o}
  BY <1>2 DEF Targets
<1>4. \A w : Reads(Threshold(p, o), w) = {<<Threshold(p, o).to[1], 1>>}
  BY <1>2, ReadsOf
<1> QED BY <1>1, <1>2, <1>3, <1>4

LEMMA NumberSet ==
  ASSUME LineRead, pc \in ExitCode, plugin \in Numbered, NEW w \in LastGiven("-c"), Positive(w)
  PROVE  /\ "-c" \in DOMAIN settings /\ settings["-c"] = w.parts[1][1]
         /\ w.parts[1][1] \in Int /\ w.parts[1][1] > 0
<1>1. plugin \in Measuring /\ Reads(Threshold(plugin, "-c"), w) = {<<"-c", 1>>}
  BY NumberThreshold
<1>2. \A rd \in {<<"-c", 1>>} :
        /\ rd[1] \in DOMAIN settings /\ settings[rd[1]] = w.parts[rd[2]][1]
        /\ w.parts[rd[2]][1] \in Int /\ w.parts[rd[2]][1] > 0
  BY <1>1, ThresholdSet
<1> QED BY <1>2

LEMMA NumberGiven ==
  ASSUME LineRead, pc \in ExitCode, plugin \in Numbered, NEW o \in {"-c", "-w"},
         o \in DOMAIN settings
  PROVE  \E w \in Given(o) : settings[o] = w.parts[1][1] /\ settings[o] \in Int
<1>1. /\ plugin \in Measuring /\ Targets(Threshold(plugin, o)) = {o}
      /\ \A w : Reads(Threshold(plugin, o), w) = {<<o, 1>>}
  BY NumberThreshold
<1>2. PICK w \in Given(o) : \E rd \in Reads(Threshold(plugin, o), w) :
             rd[1] = o /\ rd[2] \in DOMAIN w.parts /\ settings[o] = w.parts[rd[2]][1]
             /\ settings[o] \in Int
  BY <1>1, ThresholdGiven
<1>3. PICK rd \in {<<o, 1>>} : settings[o] = w.parts[rd[2]][1] /\ settings[o] \in Int
  BY <1>1, <1>2
<1>4. rd[2] = 1
  BY <1>3
<1> QED BY <1>3, <1>4

\* The limits as a table: how each setting is compared, and with which figure.
Compared == Measuring \ {"sensors", "ssl_validity"}
Shares == {"criticalPercent", "warningPercent"}

HitOf(p, n) ==
  CASE p \in {"load", "users"} -> "reach"
    [] p = "uptime" -> "below"
    [] p = "overcr" -> "beyond"
    [] p = "nwstat" -> "exceed"
    [] p = "procs" -> IF n \in {"criticalMin", "warningMin"} THEN "below" ELSE "exceed"
    [] p \in {"swap", "disk"} -> IF n \in Shares THEN "share" ELSE "below"

FigureOf(p, n) ==
  CASE p = "load" -> IF n \in {"critical1", "warning1"} THEN "1"
                     ELSE IF n \in {"critical5", "warning5"} THEN "5" ELSE "15"
    [] p = "users" -> "users"
    [] p = "uptime" -> "days"
    [] p = "overcr" -> "committed"
    [] p = "procs" -> "procs"
    [] p = "nwstat" -> IF n \in {"criticalRx", "warningRx"} THEN "Rx" ELSE "Tx"
    [] p = "swap" -> "free"
    [] p = "disk" -> IF n \in Shares THEN "free" ELSE "available"

Fallback(p, n) ==
  IF p = "disk" /\ n = "criticalPercent" THEN 5
  ELSE IF p = "disk" /\ n = "warningPercent" THEN 10 ELSE -1

LevelOf(o) == IF o = "-c" THEN "CRITICAL" ELSE "WARNING"
LimitAt(p, o, n, at) == Limit(LevelOf(o), at, 1, HitOf(p, n), FigureOf(p, n))
LimitOf(p, s, o, n) == LimitAt(p, o, n, Value(s, n, Fallback(p, n)))

LEMMA CompareTargets ==
  ASSUME NEW p \in Compared
  PROVE  /\ p = "load" => /\ Targets(Threshold(p, "-c")) = {"critical1", "critical5", "critical15"}
                          /\ Targets(Threshold(p, "-w")) = {"warning1", "warning5", "warning15"}
         /\ p \in {"users", "uptime", "overcr"} =>
              /\ Targets(Threshold(p, "-c")) = {"-c"}
              /\ Targets(Threshold(p, "-w")) = {"-w"}
         /\ p = "procs" => /\ Targets(Threshold(p, "-c")) = {"criticalMin", "criticalMax"}
                           /\ Targets(Threshold(p, "-w")) = {"warningMin", "warningMax"}
         /\ p = "nwstat" => /\ Targets(Threshold(p, "-c")) = {"criticalRx", "criticalTx"}
                            /\ Targets(Threshold(p, "-w")) = {"warningRx", "warningTx"}
         /\ p \in {"swap", "disk"} =>
              /\ Targets(Threshold(p, "-c")) = {"criticalPercent", "criticalFree"}
              /\ Targets(Threshold(p, "-w")) = {"warningPercent", "warningFree"}
<1>1. p \in Measuring
  BY DEF Compared
<1>2. \A o \in {"-c", "-w"} : Targets(Threshold(p, o)) = {SettingsOf(p, o)[k] : k \in DOMAIN SettingsOf(p, o)}
  BY <1>1, TheThreshold DEF Targets
<1>3. CASE p = "load"
  BY <1>2, <1>3 DEF SettingsOf
<1>4. CASE p \in {"users", "uptime", "overcr"}
  BY <1>2, <1>4 DEF SettingsOf
<1>5. CASE p = "procs"
  BY <1>2, <1>5 DEF SettingsOf
<1>6. CASE p = "nwstat"
  BY <1>2, <1>6 DEF SettingsOf
<1>7. CASE p \in {"swap", "disk"}
  BY <1>2, <1>7 DEF SettingsOf
<1> QED BY <1>3, <1>4, <1>5, <1>6, <1>7 DEF Compared, Measuring

\* The table is what the checks compare with.
LEMMA LimitTable ==
  ASSUME NEW p \in Compared, NEW s
  PROVE  Limits(p, s) = {LimitOf(p, s, "-c", n) : n \in Targets(Threshold(p, "-c"))}
                        \cup {LimitOf(p, s, "-w", n) : n \in Targets(Threshold(p, "-w"))}
<1>1. CASE p = "load"
  BY <1>1, CompareTargets
     DEF Limits, LoadLimits, LimitOf, LimitAt, LevelOf, HitOf, FigureOf, Fallback
<1>2. CASE p = "users"
  BY <1>2, CompareTargets
     DEF Limits, UsersLimits, LimitOf, LimitAt, LevelOf, HitOf, FigureOf, Fallback
<1>3. CASE p = "uptime"
  BY <1>3, CompareTargets
     DEF Limits, UptimeLimits, LimitOf, LimitAt, LevelOf, HitOf, FigureOf, Fallback
<1>4. CASE p = "procs"
  BY <1>4, CompareTargets
     DEF Limits, ProcsLimits, LimitOf, LimitAt, LevelOf, HitOf, FigureOf, Fallback
<1>5. CASE p = "overcr"
  BY <1>5, CompareTargets
     DEF Limits, OvercrLimits, LimitOf, LimitAt, LevelOf, HitOf, FigureOf, Fallback
<1>6. CASE p = "nwstat"
  BY <1>6, CompareTargets
     DEF Limits, NwstatLimits, LimitOf, LimitAt, LevelOf, HitOf, FigureOf, Fallback
<1>7. CASE p = "swap"
  BY <1>7, CompareTargets
     DEF Limits, SwapLimits, LimitOf, LimitAt, LevelOf, HitOf, FigureOf, Fallback, Shares
<1>8. CASE p = "disk"
  BY <1>8, CompareTargets
     DEF Limits, DiskLimits, LimitOf, LimitAt, LevelOf, HitOf, FigureOf, Fallback, Shares
<1> QED BY <1>1, <1>2, <1>3, <1>4, <1>5, <1>6, <1>7, <1>8 DEF Compared, Measuring

\* What the thresholds that are compared read of a word.
LEMMA CompareReads ==
  ASSUME NEW p \in Compared, NEW o \in {"-c", "-w"}, NEW w
  PROVE  LET to == SettingsOf(p, o) IN
         /\ p = "load" =>
              Reads(Threshold(p, o), w) =
                IF w.sep = "comma" THEN {<<to[k], k>> : k \in 1..MinOf(3, Len(w.parts))}
                ELSE {<<to[1], 1>>}
         /\ p \in {"users", "uptime", "overcr"} => Reads(Threshold(p, o), w) = {<<o, 1>>}
         /\ p = "procs" =>
              Reads(Threshold(p, o), w) =
                IF w.sep = "colon" THEN {<<to[1], 1>>, <<to[2], 2>>} ELSE {<<to[2], 1>>}
         /\ p = "nwstat" =>
              Reads(Threshold(p, o), w) =
                IF w.sep = "comma" THEN {<<to[1], 1>>, <<to[2], 2>>} ELSE {}
         /\ p \in {"swap", "disk"} =>
              Reads(Threshold(p, o), w) =
                IF w.sep = "percent" THEN {<<to[1], 1>>} ELSE {<<to[2], 1>>}
<1> DEFINE x == Threshold(p, o)
           to == SettingsOf(p, o)
<1>1. x.kind = KindOf(p) /\ x.to = to
  BY TheThreshold DEF Compared
<1> HIDE DEF x
<1>2. CASE p = "load"
  <2>1. KindOf(p) = "list" /\ Len(to) = 3
    BY <1>2 DEF KindOf, SettingsOf
  <2> HIDE DEF to
  <2> QED BY <1>1, <1>2, <2>1, ReadsOf DEF x, to
<1>3. CASE p \in {"users", "uptime", "overcr"}
  <2>1. KindOf(p) = "number" /\ to = <<o>>
    BY <1>3 DEF KindOf, SettingsOf
  <2> QED BY <1>1, <1>3, <2>1, ReadsOf DEF x
<1>4. CASE p = "procs"
  <2>1. KindOf(p) = "range"
    BY <1>4 DEF KindOf
  <2> HIDE DEF to
  <2> QED BY <1>1, <1>4, <2>1, ReadsOf DEF x, to
<1>5. CASE p = "nwstat"
  <2>1. KindOf(p) = "pair"
    BY <1>5 DEF KindOf
  <2> HIDE DEF to
  <2> QED BY <1>1, <1>5, <2>1, ReadsOf DEF x, to
<1>6. CASE p \in {"swap", "disk"}
  <2>1. KindOf(p) = "share"
    BY <1>6 DEF KindOf
  <2> HIDE DEF to
  <2> QED BY <1>1, <1>6, <2>1, ReadsOf DEF x, to
<1> QED BY <1>2, <1>3, <1>4, <1>5, <1>6 DEF Compared, Measuring

\* The limit that a part of the word sets, and the reading that breaches it.
Breaks(p, o, w, rd, r) == Breached(LimitAt(p, o, rd[1], w.parts[rd[2]][1]), r)

\* There is something to compare: swap space, and a path that statvfs() can read.
Comparable(p, r) == (p = "swap" => r.total # 0) /\ (p = "disk" => r.readable)

LEMMA BreachedAs ==
  ASSUME NEW level, NEW at, NEW hit, NEW of, NEW r
  PROVE  LET b == Breached(Limit(level, at, 1, hit, of), r) IN
         /\ b => at >= 1
         /\ hit = "reach"  => (b <=> at >= 1 /\ r[of] >= at)
         /\ hit = "exceed" => (b <=> at >= 1 /\ r[of] > at)
         /\ hit = "below"  => (b <=> at >= 1 /\ r[of] < at)
         /\ hit = "share"  => (b <=> at >= 1 /\ 100 * r[of] < at * r.total)
         /\ hit = "beyond" => (b <=> at >= 1 /\ r.limit > 0 /\ 100 * r[of] > at * r.limit)
<1> DEFINE l == Limit(level, at, 1, hit, of)
<1>1. l.at = at /\ l.from = 1 /\ l.hit = hit /\ l.of = of
  BY DEF Limit
<1> HIDE DEF l
<1>2. Breached(l, r) => at >= 1
  BY <1>1 DEF Breached
<1>3. ASSUME hit = "reach" PROVE Breached(l, r) <=> at >= 1 /\ r[of] >= at
  BY <1>1, <1>3 DEF Breached
<1>4. ASSUME hit = "exceed" PROVE Breached(l, r) <=> at >= 1 /\ r[of] > at
  BY <1>1, <1>4 DEF Breached
<1>5. ASSUME hit = "below" PROVE Breached(l, r) <=> at >= 1 /\ r[of] < at
  BY <1>1, <1>5 DEF Breached
<1>6. ASSUME hit = "share" PROVE Breached(l, r) <=> at >= 1 /\ 100 * r[of] < at * r.total
  BY <1>1, <1>6 DEF Breached
<1>7. ASSUME hit = "beyond"
      PROVE  Breached(l, r) <=> at >= 1 /\ r.limit > 0 /\ 100 * r[of] > at * r.limit
  BY <1>1, <1>7 DEF Breached
<1> QED BY <1>2, <1>3, <1>4, <1>5, <1>6, <1>7 DEF l

LEMMA BreaksAs ==
  ASSUME NEW p, NEW o, NEW w, NEW rd, NEW r
  PROVE  LET at == w.parts[rd[2]][1]
             hit == HitOf(p, rd[1])
             figure == r[FigureOf(p, rd[1])]
             b == Breaks(p, o, w, rd, r)
         IN  /\ b => at >= 1
             /\ hit = "reach"  => (b <=> at >= 1 /\ figure >= at)
             /\ hit = "exceed" => (b <=> at >= 1 /\ figure > at)
             /\ hit = "below"  => (b <=> at >= 1 /\ figure < at)
             /\ hit = "share"  => (b <=> at >= 1 /\ 100 * figure < at * r.total)
             /\ hit = "beyond" => (b <=> at >= 1 /\ r.limit > 0 /\ 100 * figure > at * r.limit)
BY BreachedAs DEF Breaks, LimitAt

LEMMA BeyondBreaks ==
  ASSUME NEW p \in Compared, NEW o \in {"-c", "-w"}, NEW w, NEW r, WellFormed(Threshold(p, o), w),
         Beyond(p, w, r),
         \A rd \in Reads(Threshold(p, o), w) :
           w.parts[rd[2]][1] \in Int /\ w.parts[rd[2]][1] > 0
  PROVE  \E rd \in Reads(Threshold(p, o), w) : Breaks(p, o, w, rd, r)
<1>1. CASE p = "load"
  <2>1. SettingsOf(p, o) = IF o = "-c" THEN <<"critical1", "critical5", "critical15">>
                           ELSE <<"warning1", "warning5", "warning15">>
    BY <1>1 DEF SettingsOf
  <2>2. Len(w.parts) \in Nat /\ DOMAIN w.parts = 1..Len(w.parts) /\ w.parts # <<>>
    BY DEF WellFormed
  <2>3. CASE w.sep = "comma"
    <3>1. PICK k \in DOMAIN w.parts \cap 1..3 : r[<<"1", "5", "15">>[k]] >= w.parts[k][1]
      BY <1>1, <2>3 DEF Beyond
    <3>2. k \in 1..MinOf(3, Len(w.parts))
      BY <2>2, <3>1 DEF MinOf
    <3> DEFINE rd == <<SettingsOf(p, o)[k], k>>
    <3>3. rd \in Reads(Threshold(p, o), w)
      BY <1>1, <2>3, <3>2, CompareReads
    <3>4. w.parts[k][1] \in Int /\ w.parts[k][1] > 0
      BY <3>3
    <3>5. HitOf(p, rd[1]) = "reach" /\ FigureOf(p, rd[1]) = <<"1", "5", "15">>[k]
      BY <1>1, <2>1, <3>1 DEF HitOf, FigureOf
    <3>6. Breaks(p, o, w, rd, r)
      BY <3>1, <3>4, <3>5, BreaksAs
    <3> QED BY <3>3, <3>6
  <2>4. CASE w.sep # "comma"
    <3>1. r["1"] >= w.parts[1][1]
      BY <1>1, <2>4 DEF Beyond
    <3> DEFINE rd == <<SettingsOf(p, o)[1], 1>>
    <3>3. rd \in Reads(Threshold(p, o), w)
      BY <1>1, <2>4, CompareReads
    <3>4. w.parts[1][1] \in Int /\ w.parts[1][1] > 0
      BY <3>3
    <3>5. HitOf(p, rd[1]) = "reach" /\ FigureOf(p, rd[1]) = "1"
      BY <1>1, <2>1 DEF HitOf, FigureOf
    <3>6. Breaks(p, o, w, rd, r)
      BY <3>1, <3>4, <3>5, BreaksAs
    <3> QED BY <3>3, <3>6
  <2> QED BY <2>3, <2>4
<1>2. CASE p \in {"users", "uptime", "overcr"}
  <2> DEFINE rd == <<o, 1>>
  <2>1. rd \in Reads(Threshold(p, o), w)
    BY <1>2, CompareReads
  <2>2. w.parts[1][1] \in Int /\ w.parts[1][1] > 0
    BY <2>1
  <2>3. CASE p = "users"
    BY <2>1, <2>2, <2>3, BreaksAs DEF Beyond, HitOf, FigureOf
  <2>4. CASE p = "uptime"
    BY <2>1, <2>2, <2>4, BreaksAs DEF Beyond, HitOf, FigureOf
  <2>5. CASE p = "overcr"
    BY <2>1, <2>2, <2>5, BreaksAs DEF Beyond, HitOf, FigureOf
  <2> QED BY <1>2, <2>3, <2>4, <2>5
<1>3. CASE p = "procs"
  <2>1. SettingsOf(p, o) = IF o = "-c" THEN <<"criticalMin", "criticalMax">>
                           ELSE <<"warningMin", "warningMax">>
    BY <1>3 DEF SettingsOf
  <2> DEFINE low == <<SettingsOf(p, o)[1], 1>>
             high(k) == <<SettingsOf(p, o)[2], k>>
  <2>2. /\ HitOf(p, low[1]) = "below" /\ FigureOf(p, low[1]) = "procs"
        /\ \A k : HitOf(p, high(k)[1]) = "exceed" /\ FigureOf(p, high(k)[1]) = "procs"
    BY <1>3, <2>1 DEF HitOf, FigureOf
  <2>3. CASE w.sep = "colon"
    <3>1. low \in Reads(Threshold(p, o), w) /\ high(2) \in Reads(Threshold(p, o), w)
      BY <1>3, <2>3, CompareReads
    <3>2. /\ w.parts[1][1] \in Int /\ w.parts[1][1] > 0
          /\ w.parts[2][1] \in Int /\ w.parts[2][1] > 0
      BY <3>1
    <3>3. r.procs < w.parts[1][1] \/ r.procs > w.parts[2][1]
      BY <1>3, <2>3 DEF Beyond
    <3>4. r.procs < w.parts[1][1] => Breaks(p, o, w, low, r)
      BY <2>2, <3>2, BreaksAs
    <3>5. r.procs > w.parts[2][1] => Breaks(p, o, w, high(2), r)
      BY <2>2, <3>2, BreaksAs
    <3> QED BY <3>1, <3>3, <3>4, <3>5
  <2>4. CASE w.sep # "colon"
    <3>1. high(1) \in Reads(Threshold(p, o), w)
      BY <1>3, <2>4, CompareReads
    <3>2. w.parts[1][1] \in Int /\ w.parts[1][1] > 0
      BY <3>1
    <3>3. r.procs > w.parts[1][1]
      BY <1>3, <2>4 DEF Beyond
    <3>4. Breaks(p, o, w, high(1), r)
      BY <2>2, <3>2, <3>3, BreaksAs
    <3> QED BY <3>1, <3>4
  <2> QED BY <2>3, <2>4
<1>4. CASE p = "nwstat"
  <2>1. SettingsOf(p, o) = IF o = "-c" THEN <<"criticalRx", "criticalTx">>
                           ELSE <<"warningRx", "warningTx">>
    BY <1>4 DEF SettingsOf
  <2> DEFINE rx == <<SettingsOf(p, o)[1], 1>>
             tx == <<SettingsOf(p, o)[2], 2>>
  <2>2. /\ HitOf(p, rx[1]) = "exceed" /\ FigureOf(p, rx[1]) = "Rx"
        /\ HitOf(p, tx[1]) = "exceed" /\ FigureOf(p, tx[1]) = "Tx"
    BY <1>4, <2>1 DEF HitOf, FigureOf
  <2>3. w.sep = "comma" /\ (r.Rx > w.parts[1][1] \/ r.Tx > w.parts[2][1])
    BY <1>4 DEF Beyond
  <2>4. rx \in Reads(Threshold(p, o), w) /\ tx \in Reads(Threshold(p, o), w)
    BY <1>4, <2>3, CompareReads
  <2>5. /\ w.parts[1][1] \in Int /\ w.parts[1][1] > 0
        /\ w.parts[2][1] \in Int /\ w.parts[2][1] > 0
    BY <2>4
  <2>6. r.Rx > w.parts[1][1] => Breaks(p, o, w, rx, r)
    BY <2>2, <2>5, BreaksAs
  <2>7. r.Tx > w.parts[2][1] => Breaks(p, o, w, tx, r)
    BY <2>2, <2>5, BreaksAs
  <2> QED BY <2>3, <2>4, <2>6, <2>7
<1>5. CASE p \in {"swap", "disk"}
  <2>1. SettingsOf(p, o) = IF o = "-c" THEN <<"criticalPercent", "criticalFree">>
                           ELSE <<"warningPercent", "warningFree">>
    BY <1>5 DEF SettingsOf
  <2> DEFINE rd == IF w.sep = "percent" THEN <<SettingsOf(p, o)[1], 1>>
                   ELSE <<SettingsOf(p, o)[2], 1>>
  <2>2. rd \in Reads(Threshold(p, o), w) /\ rd[2] = 1
    BY <1>5, CompareReads
  <2>3. w.parts[1][1] \in Int /\ w.parts[1][1] > 0
    BY <2>2
  <2>4. /\ HitOf(p, rd[1]) = IF w.sep = "percent" THEN "share" ELSE "below"
        /\ FigureOf(p, rd[1]) = IF w.sep = "percent" \/ p = "swap" THEN "free" ELSE "available"
    BY <1>5, <2>1 DEF HitOf, FigureOf, Shares
  <2>5. IF w.sep = "percent" THEN 100 * r.free < w.parts[1][1] * r.total
        ELSE IF p = "swap" THEN r.free < w.parts[1][1] ELSE r.available < w.parts[1][1]
    BY <1>5 DEF Beyond
  <2>6. Breaks(p, o, w, rd, r)
    <3> HIDE DEF rd
    <3> QED BY <1>5, <2>2, <2>3, <2>4, <2>5, BreaksAs
  <2> QED BY <2>2, <2>6
<1> QED BY <1>1, <1>2, <1>3, <1>4, <1>5 DEF Compared, Measuring

LEMMA BreaksBeyond ==
  ASSUME NEW p \in Compared, NEW o \in {"-c", "-w"}, NEW w, NEW r, WellFormed(Threshold(p, o), w),
         Comparable(p, r), NEW rd \in Reads(Threshold(p, o), w), Breaks(p, o, w, rd, r)
  PROVE  Beyond(p, w, r)
<1>1. CASE p = "load"
  <2>1. SettingsOf(p, o) = IF o = "-c" THEN <<"critical1", "critical5", "critical15">>
                           ELSE <<"warning1", "warning5", "warning15">>
    BY <1>1 DEF SettingsOf
  <2>2. Len(w.parts) \in Nat /\ DOMAIN w.parts = 1..Len(w.parts)
    BY DEF WellFormed
  <2>3. \A k \in 1..3 : /\ HitOf(p, SettingsOf(p, o)[k]) = "reach"
                        /\ FigureOf(p, SettingsOf(p, o)[k]) = <<"1", "5", "15">>[k]
    BY <1>1, <2>1 DEF HitOf, FigureOf
  <2>4. CASE w.sep = "comma"
    <3>1. PICK k \in 1..MinOf(3, Len(w.parts)) : rd = <<SettingsOf(p, o)[k], k>>
      BY <1>1, <2>4, CompareReads
    <3>2. k \in DOMAIN w.parts \cap 1..3
      BY <2>2, <3>1 DEF MinOf
    <3>3. r[<<"1", "5", "15">>[k]] >= w.parts[k][1]
      BY <2>3, <3>1, <3>2, BreaksAs
    <3> QED BY <1>1, <2>4, <3>2, <3>3 DEF Beyond
  <2>5. CASE w.sep # "comma"
    <3>1. rd = <<SettingsOf(p, o)[1], 1>>
      BY <1>1, <2>5, CompareReads
    <3>2. r[<<"1", "5", "15">>[1]] >= w.parts[1][1]
      BY <2>3, <3>1, BreaksAs
    <3> QED BY <1>1, <2>5, <3>2 DEF Beyond
  <2> QED BY <2>4, <2>5
<1>2. CASE p \in {"users", "uptime", "overcr"}
  <2>1. rd[1] = o /\ rd[2] = 1
    BY <1>2, CompareReads
  <2>3. CASE p = "users"
    BY <2>1, <2>3, BreaksAs DEF Beyond, HitOf, FigureOf
  <2>4. CASE p = "uptime"
    BY <2>1, <2>4, BreaksAs DEF Beyond, HitOf, FigureOf
  <2>5. CASE p = "overcr"
    BY <2>1, <2>5, BreaksAs DEF Beyond, HitOf, FigureOf
  <2> QED BY <1>2, <2>3, <2>4, <2>5
<1>3. CASE p = "procs"
  <2>1. SettingsOf(p, o) = IF o = "-c" THEN <<"criticalMin", "criticalMax">>
                           ELSE <<"warningMin", "warningMax">>
    BY <1>3 DEF SettingsOf
  <2>2. /\ HitOf(p, SettingsOf(p, o)[1]) = "below" /\ HitOf(p, SettingsOf(p, o)[2]) = "exceed"
        /\ FigureOf(p, SettingsOf(p, o)[1]) = "procs" /\ FigureOf(p, SettingsOf(p, o)[2]) = "procs"
    BY <1>3, <2>1 DEF HitOf, FigureOf
  <2>3. CASE w.sep = "colon"
    <3>1. rd = <<SettingsOf(p, o)[1], 1>> \/ rd = <<SettingsOf(p, o)[2], 2>>
      BY <1>3, <2>3, CompareReads
    <3>2. r.procs < w.parts[1][1] \/ r.procs > w.parts[2][1]
      BY <2>2, <3>1, BreaksAs
    <3> QED BY <1>3, <2>3, <3>2 DEF Beyond
  <2>4. CASE w.sep # "colon"
    <3>1. rd = <<SettingsOf(p, o)[2], 1>>
      BY <1>3, <2>4, CompareReads
    <3>2. r.procs > w.parts[1][1]
      BY <2>2, <3>1, BreaksAs
    <3> QED BY <1>3, <2>4, <3>2 DEF Beyond
  <2> QED BY <2>3, <2>4
<1>4. CASE p = "nwstat"
  <2>1. SettingsOf(p, o) = IF o = "-c" THEN <<"criticalRx", "criticalTx">>
                           ELSE <<"warningRx", "warningTx">>
    BY <1>4 DEF SettingsOf
  <2>2. /\ HitOf(p, SettingsOf(p, o)[1]) = "exceed" /\ HitOf(p, SettingsOf(p, o)[2]) = "exceed"
        /\ FigureOf(p, SettingsOf(p, o)[1]) = "Rx" /\ FigureOf(p, SettingsOf(p, o)[2]) = "Tx"
    BY <1>4, <2>1 DEF HitOf, FigureOf
  <2>3. w.sep = "comma" /\ (rd = <<SettingsOf(p, o)[1], 1>> \/ rd = <<SettingsOf(p, o)[2], 2>>)
    BY <1>4, CompareReads
  <2>4. r.Rx > w.parts[1][1] \/ r.Tx > w.parts[2][1]
    BY <2>2, <2>3, BreaksAs
  <2> QED BY <1>4, <2>3, <2>4 DEF Beyond
<1>5. CASE p \in {"swap", "disk"}
  <2>1. SettingsOf(p, o) = IF o = "-c" THEN <<"criticalPercent", "criticalFree">>
                           ELSE <<"warningPercent", "warningFree">>
    BY <1>5 DEF SettingsOf
  <2>2. rd = IF w.sep = "percent" THEN <<SettingsOf(p, o)[1], 1>> ELSE <<SettingsOf(p, o)[2], 1>>
    BY <1>5, CompareReads
  <2>3. /\ HitOf(p, rd[1]) = IF w.sep = "percent" THEN "share" ELSE "below"
        /\ FigureOf(p, rd[1]) = IF w.sep = "percent" \/ p = "swap" THEN "free" ELSE "available"
        /\ rd[2] = 1
    BY <1>5, <2>1, <2>2 DEF HitOf, FigureOf, Shares
  <2>4. IF w.sep = "percent" THEN 100 * r.free < w.parts[1][1] * r.total
        ELSE IF p = "swap" THEN r.free < w.parts[1][1] ELSE r.available < w.parts[1][1]
    BY <1>5, <2>3, BreaksAs
  <2> QED BY <1>5, <2>4 DEF Beyond, Comparable
<1> QED BY <1>1, <1>2, <1>3, <1>4, <1>5 DEF Compared, Measuring

\* The verdict of a check that compares, and the words of the line.
LEMMA ComparedVerdict ==
  ASSUME LineRead, pc \in ExitCode, plugin \in Compared, NEW r, Comparable(plugin, r)
  PROVE  /\ \A w \in LastGiven("-c") : Positive(w) /\ Beyond(plugin, w, r) =>
              Verdict(Limits(plugin, settings), r) = "CRITICAL"
         /\ Verdict(Limits(plugin, settings), r) \in {"WARNING", "CRITICAL"} =>
              \E o \in {"-w", "-c"} : \E w \in Given(o) \cup Default(plugin, o) :
                Beyond(plugin, w, r)
<1>1. plugin \in Measuring
  BY DEF Compared
<1>2. ASSUME NEW w \in LastGiven("-c"), Positive(w), Beyond(plugin, w, r)
      PROVE  Verdict(Limits(plugin, settings), r) = "CRITICAL"
  <2>1. /\ WellFormed(Threshold(plugin, "-c"), w)
        /\ \A rd \in Reads(Threshold(plugin, "-c"), w) :
              /\ rd[1] \in DOMAIN settings /\ settings[rd[1]] = w.parts[rd[2]][1]
              /\ w.parts[rd[2]][1] \in Int /\ w.parts[rd[2]][1] > 0
    BY <1>1, <1>2, ThresholdSet
  <2>2. PICK rd \in Reads(Threshold(plugin, "-c"), w) : Breaks(plugin, "-c", w, rd, r)
    BY <1>2, <2>1, BeyondBreaks
  <2>3. rd[1] \in Targets(Threshold(plugin, "-c"))
    BY <1>1, <2>1, ReadsApart
  <2>4. LimitOf(plugin, settings, "-c", rd[1]) \in Limits(plugin, settings)
    BY <2>3, LimitTable
  <2>5. Value(settings, rd[1], Fallback(plugin, rd[1])) = w.parts[rd[2]][1]
    BY <2>1 DEF Value
  <2>6. /\ Breached(LimitOf(plugin, settings, "-c", rd[1]), r)
        /\ LimitOf(plugin, settings, "-c", rd[1]).level = "CRITICAL"
    BY <2>2, <2>5 DEF Breaks, LimitOf, LimitAt, LevelOf, Limit
  <2> QED BY <2>4, <2>6, CriticalLimit
<1>3. ASSUME Verdict(Limits(plugin, settings), r) \in {"WARNING", "CRITICAL"}
      PROVE  \E o \in {"-w", "-c"} : \E w \in Given(o) \cup Default(plugin, o) :
               Beyond(plugin, w, r)
  <2>1. PICK l \in Limits(plugin, settings) : Breached(l, r)
    BY <1>3, AlarmLimit
  <2>2. PICK o \in {"-c", "-w"} : \E n \in Targets(Threshold(plugin, o)) :
          l = LimitOf(plugin, settings, o, n)
    BY <2>1, LimitTable
  <2>3. PICK n \in Targets(Threshold(plugin, o)) : l = LimitOf(plugin, settings, o, n)
    BY <2>2
  <2>4. CASE n \in DOMAIN settings
    <3>1. PICK w \in Given(o) : \E rd \in Reads(Threshold(plugin, o), w) :
            rd[1] = n /\ settings[n] = w.parts[rd[2]][1] /\ WellFormed(Threshold(plugin, o), w)
      BY <1>1, <2>4, ThresholdGiven
    <3>2. PICK rd \in Reads(Threshold(plugin, o), w) : 
            rd[1] = n /\ settings[n] = w.parts[rd[2]][1] /\ WellFormed(Threshold(plugin, o), w)
      BY <3>1
    <3>3. Breaks(plugin, o, w, rd, r)
      BY <2>1, <2>3, <2>4, <3>2 DEF Breaks, LimitOf, Value
    <3>4. Beyond(plugin, w, r)
      BY <3>2, <3>3, BreaksBeyond
    <3> QED BY <3>4
  <2>5. CASE n \notin DOMAIN settings
    <3>1. Breached(LimitAt(plugin, o, n, Fallback(plugin, n)), r)
      BY <2>1, <2>3, <2>5 DEF LimitOf, Value
    <3>2. Fallback(plugin, n) >= 1
      BY <3>1, BreachedAs DEF LimitAt
    <3>3. plugin = "disk" /\ n = (IF o = "-c" THEN "criticalPercent" ELSE "warningPercent")
          /\ Fallback(plugin, n) = (IF o = "-c" THEN 5 ELSE 10)
      BY <3>2, <2>3, CompareTargets DEF Fallback
    <3> DEFINE w == Percent(Fallback(plugin, n))
    <3>4. w \in Default(plugin, o)
      BY <3>3 DEF Default
    <3>5. 100 * r.free < Fallback(plugin, n) * r.total
      BY <3>1, <3>3, BreachedAs DEF LimitAt, HitOf, FigureOf, Shares
    <3>6. w.sep = "percent" /\ w.parts[1][1] = Fallback(plugin, n)
      BY DEF Percent, Word
    <3> HIDE DEF w
    <3>7. Beyond(plugin, w, r)
      BY <3>3, <3>5, <3>6 DEF Beyond, Comparable
    <3> QED BY <3>4, <3>7
  <2> QED BY <2>4, <2>5
<1> QED BY <1>2, <1>3

\* check_sensors: the highest temperature, and defaults.
LEMMA SensorsVerdict ==
  ASSUME LineRead, pc \in ExitCode, plugin = "sensors", NEW r, Readable(r.raw) # {}
  PROVE  /\ \A w \in LastGiven("-c") : Positive(w) /\ Beyond(plugin, w, r) =>
              Judged(plugin, settings, r) = "CRITICAL"
         /\ Judged(plugin, settings, r) \in {"WARNING", "CRITICAL"} =>
              \E o \in {"-w", "-c"} : \E w \in Given(o) \cup Default(plugin, o) :
                Beyond(plugin, w, r)
<1> DEFINE top == [max |-> Highest(Readable(r.raw))]
           at(o) == Value(settings, o, IF o = "-c" THEN 85 ELSE 70)
           level(o) == IF o = "-c" THEN "CRITICAL" ELSE "WARNING"
           l(o) == Limit(level(o), at(o), at(o), "reach", "max")
<1>1. Judged(plugin, settings, r) = Verdict(SensorsLimits(settings), top)
  BY DEF Judged, Highest, Remote
<1>2. SensorsLimits(settings) = {l("-c"), l("-w")}
  BY DEF SensorsLimits
<1>3. \A o : top.max >= at(o) /\ at(o) \in Int => Breached(l(o), top)
  BY DEF Breached, Limit
<1>4. \A o : Breached(l(o), top) => top.max >= at(o)
  BY DEF Breached, Limit
<1>5. plugin \in Numbered /\ top.max = Highest(Readable(r.raw))
  BY DEF Numbered
<1>6. ASSUME NEW w \in LastGiven("-c"), Positive(w), Beyond(plugin, w, r)
      PROVE  Judged(plugin, settings, r) = "CRITICAL"
  <2>1. at("-c") = w.parts[1][1] /\ at("-c") \in Int
    BY <1>5, <1>6, NumberSet DEF Value
  <2>2. top.max >= w.parts[1][1]
    BY <1>5, <1>6 DEF Beyond
  <2>3. l("-c").level = "CRITICAL"
    BY DEF Limit
  <2> HIDE DEF l, at, top
  <2> QED BY <1>1, <1>2, <1>3, <2>1, <2>2, <2>3, CriticalLimit
<1>7. ASSUME Judged(plugin, settings, r) \in {"WARNING", "CRITICAL"}
      PROVE  \E o \in {"-w", "-c"} : \E w \in Given(o) \cup Default(plugin, o) :
               Beyond(plugin, w, r)
  <2>1. PICK o \in {"-c", "-w"} : top.max >= at(o)
    <3> HIDE DEF l, at, top
    <3> QED BY <1>1, <1>2, <1>4, <1>7, AlarmLimit
  <2>2. PICK w \in Given(o) \cup Default(plugin, o) : w.parts[1][1] = at(o)
    <3>1. CASE o \in DOMAIN settings
      <4>1. PICK w \in Given(o) : settings[o] = w.parts[1][1]
        BY <1>5, <3>1, NumberGiven
      <4> QED BY <3>1, <4>1 DEF Value
    <3>2. CASE o \notin DOMAIN settings
      <4>1. NumberOf("default", at(o)) \in Default(plugin, o)
        BY <3>2 DEF Default, Value
      <4>2. NumberOf("default", at(o)).parts[1][1] = at(o)
        BY DEF NumberOf, Word
      <4> QED BY <4>1, <4>2
    <3> QED BY <3>1, <3>2
  <2>3. Beyond(plugin, w, r)
    <3> HIDE DEF at
    <3> QED BY <1>5, <2>1, <2>2 DEF Beyond
  <2> QED BY <2>3
<1> QED BY <1>6, <1>7

\* A certificate that is valid is so for no negative number of days, wherever the
\* host is.
LEMMA DaysPositive ==
  ASSUME NEW r, r.left \in Int, r.zone \in -23..23, r.openssl, r.left > 0
  PROVE  DaysLeft(r) \in Nat
<1> DEFINE h == r.left - r.zone
<1>1. h \in Int /\ h > -23
  OBVIOUS
<1>2. DaysLeft(r) = Days(h)
  BY DEF DaysLeft
<1> HIDE DEF h
<1>3. CASE h >= 0
  BY <1>1, <1>2, <1>3 DEF Days
<1>4. CASE h < 0
  <2>1. (-h) \div 24 = 0
    BY <1>1, <1>4
  <2> QED BY <1>1, <1>2, <1>4, <2>1 DEF Days
<1> QED BY <1>1, <1>3, <1>4

\* check_ssl_validity: the days that are left, and defaults.
LEMMA SslVerdict ==
  ASSUME LineRead, pc \in ExitCode, plugin = "ssl_validity", NEW r \in Readings["ssl_validity"],
         plugin \in DOMAIN Readings, Handshake(r)
  PROVE  LET verdict == Verdict(SslLimits(settings), [days |-> DaysLeft(r)]) IN
         /\ \A w \in LastGiven("-c") : Positive(w) /\ Beyond(plugin, w, r) => verdict = "CRITICAL"
         /\ verdict \in {"WARNING", "CRITICAL"} =>
              \E o \in {"-w", "-c"} : \E w \in Given(o) \cup Default(plugin, o) :
                Beyond(plugin, w, r)
<1> DEFINE left == [days |-> DaysLeft(r)]
           at(o) == Value(settings, o, IF o = "-c" THEN 7 ELSE 30)
           level(o) == IF o = "-c" THEN "CRITICAL" ELSE "WARNING"
           l(o) == Limit(level(o), at(o), 0, "within", "days")
<1>1. r.left \in Int /\ r.zone \in -23..23
  BY ZoneAssumption
<1>2. SslLimits(settings) = {l("-c"), l("-w")}
  BY DEF SslLimits
<1>3. \A o : Breached(l(o), left) <=> at(o) >= 0 /\ left.days \in 0..at(o)
  BY DEF Breached, Limit
<1>4. left.days = DaysLeft(r) /\ plugin \in Numbered
  BY DEF Numbered
<1>5. r.openssl => r.left > 0
  BY DEF Handshake
<1>6. r.openssl => DaysLeft(r) \in Nat
  BY <1>1, <1>5, DaysPositive
<1>7. ASSUME NEW w \in LastGiven("-c"), Positive(w), Beyond(plugin, w, r)
      PROVE  Verdict(SslLimits(settings), left) = "CRITICAL"
  <2>1. at("-c") = w.parts[1][1] /\ at("-c") \in Int /\ at("-c") > 0
    BY <1>4, <1>7, NumberSet DEF Value
  <2>2. r.openssl /\ DaysLeft(r) <= w.parts[1][1]
    BY <1>7 DEF Beyond
  <2>3. l("-c").level = "CRITICAL"
    BY DEF Limit
  <2> HIDE DEF l, at, left
  <2>4. left.days \in 0..at("-c")
    BY <1>4, <1>6, <2>1, <2>2
  <2> QED BY <1>2, <1>3, <2>1, <2>3, <2>4, CriticalLimit
<1>8. ASSUME Verdict(SslLimits(settings), left) \in {"WARNING", "CRITICAL"}
      PROVE  \E o \in {"-w", "-c"} : \E w \in Given(o) \cup Default(plugin, o) :
               Beyond(plugin, w, r)
  <2>1. PICK o \in {"-c", "-w"} : at(o) >= 0 /\ left.days \in 0..at(o)
    <3> HIDE DEF l, at, left
    <3> QED BY <1>2, <1>3, <1>8, AlarmLimit
  <2>2. PICK w \in Given(o) \cup Default(plugin, o) : w.parts[1][1] = at(o) /\ at(o) \in Int
    <3>1. CASE o \in DOMAIN settings
      <4>1. PICK w \in Given(o) : settings[o] = w.parts[1][1] /\ settings[o] \in Int
        BY <1>4, <3>1, NumberGiven
      <4> QED BY <3>1, <4>1 DEF Value
    <3>2. CASE o \notin DOMAIN settings
      <4>1. NumberOf("default", at(o)) \in Default(plugin, o) /\ at(o) \in Int
        BY <3>2 DEF Default, Value
      <4>2. NumberOf("default", at(o)).parts[1][1] = at(o)
        BY DEF NumberOf, Word
      <4> QED BY <4>1, <4>2
    <3> QED BY <3>1, <3>2
  <2>3. r.openssl
    BY <1>4, <2>1 DEF DaysLeft
  <2>4. Beyond(plugin, w, r)
    <3>1. DaysLeft(r) <= w.parts[1][1]
      <4> HIDE DEF at, left
      <4> QED BY <1>4, <1>6, <2>1, <2>2, <2>3
    <3> QED BY <2>3, <3>1 DEF Beyond
  <2> QED BY <2>4
<1> QED BY <1>7, <1>8

\* check_dns and check_dig: what was expected, if anything was, is not there.
LEMMA FoundVerdict ==
  ASSUME NEW answers, NEW expected
  PROVE  /\ answers = {} => Found(answers, expected) = "CRITICAL"
         /\ Found(answers, expected) \in {"WARNING", "CRITICAL"} => answers = {} \/ ~expected
BY DEF Found

LEMMA ExpectedGiven ==
  ASSUME LineRead, pc \in ExitCode, plugin \in {"dns", "dig"}, NEW o,
         o = IF plugin = "dns" THEN "-a" ELSE "-e", o \in DOMAIN settings
  PROVE  \E w \in LastGiven(o) : settings[o] = w.text
<1> DEFINE x == Plain(o, "text", <<o>>)
<1>1. plugin \in HostChecks /\ plugin \in {"dns", "dig"}
  BY DEF HostChecks, Remote
<1>2. x \in Deciding(plugin)
  BY <1>1 DEF Deciding, Measuring
<1>3. x.opt = o /\ x.kind = "text" /\ x.to = <<o>>
  BY DEF Plain
<1>4. o \in Targets(x)
  BY <1>3 DEF Targets
<1> HIDE DEF x
<1>5. PICK w \in LastGiven(o) : settings[o] = Valued(x, w)[o]
  BY <1>1, <1>2, <1>3, <1>4, SetIsGiven
<1>6. Valued(x, w)[o] = w.text
  BY <1>3 DEF Valued, Setting
<1> QED BY <1>5, <1>6

\* What one reading of a check makes of its words.
Honoured(r) ==
  /\ \A w \in LastGiven("-c") : Positive(w) /\ Beyond(plugin, w, r) => pc = "CRITICAL"
  /\ Missing(r) => pc = "CRITICAL"

Reasoned(r) ==
  pc \in {"WARNING", "CRITICAL"} =>
    \/ Missing(r) \/ Unexpected(r)
    \/ \E o \in {"-w", "-c"} : \E w \in Given(o) \cup Default(plugin, o) : Beyond(plugin, w, r)

LEMMA RemoteVerdict ==
  ASSUME LineRead, Judging, plugin \in Remote, plugin \in DOMAIN Readings,
         NEW r \in Readings[plugin], pc = Judged(plugin, settings, r)
  PROVE  Honoured(r) /\ Reasoned(r)
<1>1. pc \in ExitCode /\ pc = JudgedRemote(plugin, settings, r)
  BY DEF Judging, Judged, Remote
<1>2. CASE plugin = "dns"
  <2>1. pc = Found(r.addresses, "-a" \notin DOMAIN settings \/ settings["-a"] \in r.addresses)
    BY <1>1, <1>2 DEF JudgedRemote
  <2>2. Missing(r) <=> r.addresses = {}
    BY <1>2 DEF Missing
  <2>3. \A w : ~Beyond(plugin, w, r)
    BY <1>2 DEF Beyond
  <2>4. Honoured(r)
    BY <2>1, <2>2, <2>3, FoundVerdict DEF Honoured
  <2>5. "-a" \in DOMAIN settings /\ settings["-a"] \notin r.addresses => Unexpected(r)
    <3> SUFFICES ASSUME "-a" \in DOMAIN settings, settings["-a"] \notin r.addresses
                 PROVE  Unexpected(r)
      OBVIOUS
    <3>1. PICK w \in LastGiven("-a") : settings["-a"] = w.text
      BY <1>1, <1>2, ExpectedGiven
    <3> QED BY <1>2, <3>1 DEF Unexpected
  <2>6. Reasoned(r)
    BY <2>1, <2>2, <2>5, FoundVerdict DEF Reasoned
  <2> QED BY <2>4, <2>6
<1>3. CASE plugin = "dig"
  <2> DEFINE found == Records(r, Value(settings, "-t", "A"))
  <2>1. pc = Found(found, "-e" \notin DOMAIN settings \/ \E a \in found : settings["-e"] \in a)
    BY <1>1, <1>3 DEF JudgedRemote
  <2>2. Missing(r) <=> found = {}
    BY <1>3 DEF Missing
  <2>3. \A w : ~Beyond(plugin, w, r)
    BY <1>3 DEF Beyond
  <2>4. Honoured(r)
    <3> HIDE DEF found
    <3> QED BY <2>1, <2>2, <2>3, FoundVerdict DEF Honoured
  <2>5. "-e" \in DOMAIN settings /\ (\A a \in found : settings["-e"] \notin a) => Unexpected(r)
    <3> SUFFICES ASSUME "-e" \in DOMAIN settings, \A a \in found : settings["-e"] \notin a
                 PROVE  Unexpected(r)
      OBVIOUS
    <3>1. PICK w \in LastGiven("-e") : settings["-e"] = w.text
      BY <1>1, <1>3, ExpectedGiven
    <3> QED BY <1>3, <3>1 DEF Unexpected
  <2>6. Reasoned(r)
    <3> HIDE DEF found
    <3> QED BY <2>1, <2>2, <2>5, FoundVerdict DEF Reasoned
  <2> QED BY <2>4, <2>6
<1>4. CASE plugin = "rpc"
  <2>1. pc = IF r.answers THEN "OK" ELSE "CRITICAL"
    BY <1>1, <1>4 DEF JudgedRemote
  <2>2. Missing(r) <=> ~r.answers
    BY <1>4 DEF Missing
  <2>3. \A w : ~Beyond(plugin, w, r)
    BY <1>4 DEF Beyond
  <2> QED BY <2>1, <2>2, <2>3 DEF Honoured, Reasoned
<1>5. CASE plugin = "ssl_validity"
  <2>1. pc = IF Handshake(r) THEN Verdict(SslLimits(settings), [days |-> DaysLeft(r)]) ELSE "CRITICAL"
    BY <1>1, <1>5 DEF JudgedRemote
  <2>2. Missing(r) <=> ~r.answers
    BY <1>5 DEF Missing
  <2>3. CASE Handshake(r)
    <3>1. ~Missing(r)
      BY <2>2, <2>3 DEF Handshake
    <3> QED BY <1>1, <1>5, <2>1, <2>3, <3>1, SslVerdict DEF Honoured, Reasoned
  <2>4. CASE ~Handshake(r)
    <3>1. pc = "CRITICAL"
      BY <2>1, <2>4
    <3>2. r.left \in Int
      BY <1>5, ZoneAssumption
    <3>3. ~r.answers \/ (r.openssl /\ (~r.trusted \/ r.left <= 0))
      BY <2>4, <3>2 DEF Handshake
    <3>4. Missing(r) \/ Unexpected(r)
      BY <1>5, <2>2, <3>3 DEF Unexpected
    <3> QED BY <3>1, <3>4 DEF Honoured, Reasoned
  <2> QED BY <2>3, <2>4
<1> QED BY <1>2, <1>3, <1>4, <1>5 DEF Remote

LEMMA HostVerdict ==
  ASSUME LineRead, Judging, plugin \notin Remote, plugin # "disk", plugin \in DOMAIN Readings,
         NEW r \in Readings[plugin], pc = Judged(plugin, settings, r)
  PROVE  Honoured(r) /\ Reasoned(r)
<1>1. pc \in ExitCode /\ plugin \in HostChecks
  BY DEF Judging
<1>2. CASE plugin = "mrtg"
  <2>1. pc = IF r.opens THEN "OK" ELSE "CRITICAL"
    BY <1>2 DEF Judging, Judged, JudgedFile, Remote
  <2>2. Missing(r) <=> ~r.opens
    BY <1>2 DEF Missing
  <2>3. \A w : ~Beyond(plugin, w, r)
    BY <1>2 DEF Beyond
  <2> QED BY <2>1, <2>2, <2>3 DEF Honoured, Reasoned
<1>3. CASE plugin = "sensors"
  <2>1. ~Missing(r)
    BY <1>3 DEF Missing
  <2>2. CASE Readable(r.raw) = {}
    <3>1. pc = "UNKNOWN"
      BY <1>3, <2>2 DEF Judged, Remote
    <3>2. \A w : ~Beyond(plugin, w, r)
      BY <1>3, <2>2 DEF Beyond
    <3> QED BY <2>1, <3>1, <3>2 DEF Honoured, Reasoned
  <2>3. CASE Readable(r.raw) # {}
    BY <1>1, <1>3, <2>1, <2>3, SensorsVerdict DEF Honoured, Reasoned
  <2> QED BY <2>2, <2>3
<1>4. CASE plugin = "swap" /\ r.total = 0
  <2>1. pc = "OK"
    BY <1>4 DEF Judged, Remote
  <2>2. ~Missing(r) /\ \A w : ~Beyond(plugin, w, r)
    BY <1>4 DEF Missing, Beyond
  <2> QED BY <2>1, <2>2 DEF Honoured, Reasoned
<1>5. CASE plugin \in Compared /\ ~(plugin = "swap" /\ r.total = 0)
  <2>1. pc = Verdict(Limits(plugin, settings), r)
    BY <1>5 DEF Judged, Remote, Compared, Measuring
  <2>2. ~Missing(r)
    BY <1>5 DEF Missing, Compared, Measuring
  <2>3. Comparable(plugin, r)
    BY <1>5 DEF Comparable
  <2> QED BY <1>1, <1>5, <2>1, <2>2, <2>3, ComparedVerdict DEF Honoured, Reasoned
<1> QED BY <1>1, <1>2, <1>3, <1>4, <1>5 DEF HostChecks, Compared, Remote, Measuring

\* check_disk: the same of each path, and what it makes of the whole.
LEMMA DiskVerdict ==
  ASSUME LineRead, IInv, pc \in ExitCode, plugin = "disk"
  PROVE  CriticalHonoured /\ AlarmHasReason
<1>1. plugin \in Compared /\ Limits(plugin, settings) = DiskLimits(settings)
  BY DEF Compared, Measuring, Limits
<1>2. CoversSoFar /\ pc = overall
  BY DEF IInv
<1>3. \A r : ~Missing(r)
  BY DEF Missing
<1>4. ASSUME NEW k \in DOMAIN taken, NEW w \in LastGiven("-c"), Positive(w),
             Beyond(plugin, w, taken[k])
      PROVE  pc = "CRITICAL"
  <2>1. taken[k].readable
    BY <1>4 DEF Beyond
  <2>2. Comparable(plugin, taken[k])
    BY <2>1 DEF Comparable
  <2>3. Verdict(DiskLimits(settings), taken[k]) = "CRITICAL"
    BY <1>1, <1>4, <2>2, ComparedVerdict
  <2>4. PathVerdict(taken[k]) = "CRITICAL"
    BY <2>1, <2>3 DEF PathVerdict
  <2> QED BY <1>2, <2>4 DEF CoversSoFar
<1>5. ASSUME pc \in {"WARNING", "CRITICAL"}
      PROVE  \E k \in DOMAIN taken : \E o \in {"-w", "-c"} :
               \E w \in Given(o) \cup Default(plugin, o) : Beyond(plugin, w, taken[k])
  <2>1. PICK k \in DOMAIN taken : PathVerdict(taken[k]) \in {"WARNING", "CRITICAL"}
    BY <1>2, <1>5 DEF CoversSoFar
  <2>2. taken[k].readable /\ Verdict(DiskLimits(settings), taken[k]) \in {"WARNING", "CRITICAL"}
    BY <2>1 DEF PathVerdict
  <2>3. Comparable(plugin, taken[k])
    BY <2>2 DEF Comparable
  <2> QED BY <1>1, <2>2, <2>3, ComparedVerdict
<1> QED BY <1>3, <1>4, <1>5 DEF CriticalHonoured, AlarmHasReason

-----------------------------------------------------------------------------
\* When a check of one reading is done, it has judged it; the settings and the
\* status are never touched again.
JudgedOnce ==
  plugin \in HostChecks \ {"disk"} /\ pc \in ExitCode =>
    /\ plugin \in DOMAIN Readings
    /\ \E r \in Readings[plugin] : taken = <<r>> /\ pc = Judged(plugin, settings, r)

LEMMA StepJudges == LineRead /\ IInv /\ JudgedOnce /\ [Next]_vars => JudgedOnce'
<1> SUFFICES ASSUME LineRead, IInv, JudgedOnce, [Next]_vars PROVE JudgedOnce'
  OBVIOUS
<1>1. CASE Parse
  <2>1. plugin' = plugin /\ pc = "parse"
    BY <1>1 DEF Parse, ParserNext, Help, TakeFlag, TakeValue, Abort, MissingValue, LooseWord,
                Parsed, Parsing
  <2>2. plugin \in HostChecks => Parsers[plugin].stub = "none"
    BY DecidingAssumption DEF IInv
  <2>3. plugin \in HostChecks => pc' \notin ExitCode
    BY <1>1, <2>1, <2>2 DEF Parse, ParserNext, Help, TakeFlag, TakeValue, Abort, MissingValue,
                            LooseWord, Parsed, ExitCode
  <2> QED BY <2>1, <2>3 DEF JudgedOnce
<1>2. CASE Check
  BY <1>2 DEF Check, JudgedOnce
<1>3. CASE CheckDisk \/ DiskDone
  BY <1>3 DEF CheckDisk, DiskDone, parserVars, JudgedOnce
<1>4. CASE Ended \/ UNCHANGED vars
  BY <1>4 DEF Ended, vars, parserVars, JudgedOnce
<1> QED BY <1>1, <1>2, <1>3, <1>4 DEF Next

LEMMA SpecJudges == Spec => [](LineRead /\ IInv /\ JudgedOnce)
<1>1. Init => LineRead /\ IInv /\ JudgedOnce
  <2>1. Init => pc = "parse"
    BY DEF Init, ParserInit
  <2> QED BY <2>1, InitRead, InitImplies DEF JudgedOnce, ExitCode
<1>2. LineRead /\ IInv /\ JudgedOnce /\ [Next]_vars => LineRead' /\ IInv' /\ JudgedOnce'
  BY StepReads, StepPreserves, StepJudges
<1> QED BY <1>1, <1>2, PTL DEF Spec

LEMMA VerdictsMean == LineRead /\ IInv /\ JudgedOnce => CriticalHonoured /\ AlarmHasReason
<1> SUFFICES ASSUME LineRead, IInv, JudgedOnce, Judging PROVE CriticalHonoured /\ AlarmHasReason
  BY DEF CriticalHonoured, AlarmHasReason
<1>1. pc \in ExitCode /\ plugin \in HostChecks
  BY DEF Judging
<1>2. CASE plugin = "disk"
  BY <1>1, <1>2, DiskVerdict
<1>3. CASE plugin # "disk"
  <2>1. plugin \in DOMAIN Readings
    BY <1>1, <1>3 DEF JudgedOnce
  <2>2. PICK r \in Readings[plugin] : taken = <<r>> /\ pc = Judged(plugin, settings, r)
    BY <1>1, <1>3 DEF JudgedOnce
  <2>3. Honoured(r) /\ Reasoned(r)
    BY <1>3, <2>1, <2>2, RemoteVerdict, HostVerdict
  <2>4. DOMAIN taken = {1} /\ taken[1] = r
    BY <2>2
  <2> QED BY <2>3, <2>4 DEF Honoured, Reasoned, CriticalHonoured, AlarmHasReason
<1> QED BY <1>2, <1>3

\* A reading beyond the critical threshold of the command line is CRITICAL, and
\* so is a name without records and a host that does not answer.
THEOREM CriticalHonouredHolds == Spec => []CriticalHonoured
BY SpecJudges, VerdictsMean, PTL

\* WARNING and CRITICAL have a reason in the reading and the words of the line.
THEOREM AlarmHasReasonHolds == Spec => []AlarmHasReason
BY SpecJudges, VerdictsMean, PTL
=============================================================================
