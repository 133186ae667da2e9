----------------------------- MODULE LineMeaning -----------------------------
(***************************************************************************)
(* What a command line means, said of its groups and not of its words: a   *)
(* group is an option with its word, a flag, or a word by itself.  The     *)
(* loop of parseArguments() knows no groups: it must find out, word by     *)
(* word, where one ends and the next begins.                               *)
(***************************************************************************)
EXTENDS HostCheck, FiniteSets

CONSTANT
  Numbers    \* [plugin -> set of options that, by the usage, take numbers]

\* The options that a word names, and the one of a group, if it has its word.
Names(p, word) == {o \in Parsers[p].opts : o.opt = word.text}
OptionOf(p, g) == {o \in Names(p, g[1]) : o.kind = "flag" <=> Len(g) = 1}

\* A word by itself that goes to a setting.
IsLoose(p, g) == Len(g) = 1 /\ ~g[1].dash /\ Parsers[p].loose # "ignored"

\* A word that is no number, or one out of the range of its type, where the
\* usage asks for a number.
Garbled(p, g) ==
  Len(g) = 2 /\ g[1].text \in Numbers[p] /\ \E k \in DOMAIN g[2].parts : g[2].parts[k] = <<>>

\* What a group sets, as if it were alone; a flag has no word to look at.
Says(p, g) ==
  IF OptionOf(p, g) = {} THEN <<>>
  ELSE Assigns(CHOOSE o \in OptionOf(p, g) : TRUE, g[Len(g)], <<>>)
About(p, g) == DOMAIN Says(p, g)

-----------------------------------------------------------------------------
IsSequence(s) == s \in Seq({s[k] : k \in DOMAIN s})

\* Options have names of their own, none of them -h; without a check() a plugin
\* ends with a status.
ASSUME OptionAssumption ==
  \A p \in DOMAIN Parsers :
    /\ Parsers[p].stub \in {"none"} \cup ExitCode
    /\ \A o \in Parsers[p].opts :
         /\ o.opt # "-h"
         /\ \A other \in Parsers[p].opts : other.opt = o.opt => other = o

\* Group k of a line: an option with its word, a flag, a word that names no option,
\* or at the end an option without its word.
GroupOf(p, l, k) ==
  LET g == l.groups[k] IN
  /\ Len(g) \in {1, 2}
  /\ Len(g) = 2 => OptionOf(p, g) # {}
  /\ Len(g) = 1 /\ k < Len(l.groups) => OptionOf(p, g) = Names(p, g[1])
  /\ g[1].text = "-h" \/ Names(p, g[1]) # {} => g[1].dash

\* A line is its groups, one after the other.
InGroups(l) ==
  /\ IsSequence(l.words) /\ IsSequence(l.groups)
  /\ l.starts \in Seq(Nat \ {0}) /\ Len(l.starts) = Len(l.groups) + 1
  /\ l.starts[1] = 1 /\ l.starts[Len(l.starts)] = Len(l.words) + 1
  /\ \A k \in 1..Len(l.groups) :
       LET g == l.groups[k]
           n == l.starts[k]
       IN  /\ l.starts[k + 1] = n + Len(g) /\ n + Len(g) <= Len(l.words) + 1
           /\ g[1] = l.words[n]
           /\ Len(g) = 2 => g[2] = l.words[n + 1]

ASSUME LineAssumption ==
  \A p \in DOMAIN Parsers : \A l \in Lines[p] :
    InGroups(l) /\ \A k \in 1..Len(l.groups) : GroupOf(p, l, k)

\* The options of the usage that take numbers are those whose words are read so.
ASSUME NumberAssumption ==
  \A p \in DOMAIN Parsers : \A l \in Lines[p] : \A k \in 1..Len(l.groups) :
    LET g == l.groups[k] IN
    \A o \in OptionOf(p, g) : Len(g) = 2 => (Throws(o, g[2]) <=> Garbled(p, g))

\* The flag that moves the default port shares it with -p only, and no option is
\* about the paths.
ASSUME PortAssumption ==
  \A p \in DOMAIN Parsers :
    /\ \A o \in Parsers[p].opts :
         o.ports # <<>> => o.kind = "flag" /\ Parsers[p].loose # "-p"
    /\ \A l \in Lines[p] : \A k \in 1..Len(l.groups) :
         LET g == l.groups[k] IN ~Garbled(p, g) =>
           /\ "paths" \notin About(p, g)
           /\ "-p" \in About(p, g) =>
                \A o \in Parsers[p].opts : o.ports # <<>> => g[1].text \in {o.opt, "-p"}

-----------------------------------------------------------------------------
(* The first k groups of the line, and what they mean together. *)

Group(m) == line.groups[m]
To == Parsers[plugin].loose

Said(k) == UNION {About(plugin, Group(m)) : m \in 1..k}
LooseOf(k) == {m \in 1..k : IsLoose(plugin, Group(m))}

\* The last group about a setting decides it.
Decided(k) ==
  \A s \in Said(k) : \E m \in 1..k :
    /\ s \in About(plugin, Group(m))
    /\ settings[s] = Says(plugin, Group(m))[s]
    /\ \A later \in (m + 1)..k : s \notin About(plugin, Group(later))

\* check_disk takes all the words by themselves, in order; another the first, and
\* only where no option decides.
Listed(k) ==
  \A m \in LooseOf(k) :
    IF To = "paths"
    THEN /\ Len(settings[To]) = Cardinality(LooseOf(k))
         /\ settings[To][Cardinality(LooseOf(m))] = Group(m)[1].text
    ELSE To \notin Said(k) /\ LooseOf(m) = {m} => settings[To] = Group(m)[1].text

\* The settings are what the first k groups say.
AsSaid(k) ==
  /\ DOMAIN settings = Said(k) \cup {To : m \in LooseOf(k)}
  /\ Decided(k)
  /\ Listed(k)

\* -S of check_imap and check_pop moves a port that the user has given, when it
\* is the default one, and the order of the two matters.
PortMoved ==
  \E o \in Parsers[plugin].opts :
    o.ports # <<>> /\ {o.opt, "-p"} \subseteq {Group(m)[1].text : m \in 1..Len(line.groups)}

Ran == pc \in {"check"} \cup ExitCode

\* A command line means what its groups say, in whatever order they come: the
\* last of two for one setting counts, a value that looks like an option is a
\* value, and words that no option knows disturb nothing (parseArguments()).
MeansWhatItSays == Ran /\ ~PortMoved => AsSaid(Len(line.groups))

\* A process is only aborted for the word of an option that takes a number, when
\* that is none or out of range; and never once -h has been read, which ends the
\* loop (parseArguments()).
AbortedByGarbageOnly ==
  pc = "aborted" => \E m \in 1..Len(line.groups) :
    Garbled(plugin, Group(m)) /\ \A n \in 1..m : Group(n)[1].text # "-h"

-----------------------------------------------------------------------------
\* The loop stands before group k + 1, and has understood those before.
Before(k) ==
  /\ i = line.starts[k + 1]
  /\ \A m \in 1..k : ~Garbled(plugin, Group(m)) /\ Group(m)[1].text # "-h"
  /\ ~PortMoved => AsSaid(k)
  /\ To = "paths" /\ To \in DOMAIN settings =>
       settings[To] \in Seq({line.words[n].text : n \in 1..Len(line.words)})

\* check() begins when all the numbers have been read.
NumbersRead == Ran => \A m \in 1..Len(line.groups) : ~Garbled(plugin, Group(m))

\* The invariant behind the two: the index of the loop is always where a group
\* begins, whatever the words look like.
LineRead ==
  /\ plugin \in DOMAIN Parsers /\ line \in Lines[plugin]
  /\ pc = "parse" => \E k \in 0..Len(line.groups) : Before(k)
  /\ MeansWhatItSays /\ AbortedByGarbageOnly /\ NumbersRead
=============================================================================
