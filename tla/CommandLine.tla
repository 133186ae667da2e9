----------------------------- MODULE CommandLine -----------------------------
(***************************************************************************)
(* parseArguments(), which is the same loop in every plugin: it goes over  *)
(* the words, an option takes the next word whatever it is, and a word     *)
(* that is no option is skipped.  main() calls it before executePlugin(),  *)
(* so an exception of std::sto* ends the process by SIGABRT:               *)
(* std::invalid_argument for a word that does not begin with a number, and *)
(* std::out_of_range for a number that its type cannot hold.               *)
(***************************************************************************)
EXTENDS Integers, Sequences

CONSTANTS
  Parsers,   \* [plugin -> parser], see OptionTables
  Lines      \* [plugin -> set of command lines]: "words" is what the process
             \* gets, "groups" the same words as the user means them, "starts"
             \* where each group begins and, last, where the line ends

VARIABLES
  plugin,    \* which plugin is started
  line,      \* its command line
  i,         \* the index of the loop
  settings,  \* the members that an option has set
  pc         \* "parse", "check", how the process ended, or an exit code

parserVars == <<plugin, line, i, settings, pc>>

\* A word: "dash" when it begins with '-', "sep" the sign that tells its parts apart
\* (a comma, a colon, a percent sign at the end), and the numbers that std::sto*
\* finds at the beginning of the parts: <<>> for none, or for one out of range.
Word(text, dash, sep, parts) == [text |-> text, dash |-> dash, sep |-> sep, parts |-> parts]

-----------------------------------------------------------------------------
MinOf(a, b) == IF a <= b THEN a ELSE b

\* The settings a value goes to, each with the part it is read from.
Reads(option, value) ==
  LET to == option.to IN
  CASE option.kind = "number" -> {<<to[1], 1>>}
    [] option.kind = "list" ->
         IF value.sep = "comma" THEN {<<to[k], k>> : k \in 1..MinOf(Len(to), Len(value.parts))}
         ELSE {<<to[1], 1>>}
    [] option.kind = "range" ->
         IF value.sep = "colon" THEN {<<to[1], 1>>, <<to[2], 2>>} ELSE {<<to[2], 1>>}
    [] option.kind = "pair" ->
         IF value.sep = "comma" THEN {<<to[1], 1>>, <<to[2], 2>>} ELSE {}
    [] option.kind = "share" ->
         IF value.sep = "percent" THEN {<<to[1], 1>>} ELSE {<<to[2], 1>>}
    [] OTHER -> {}

\* std::sto* throws std::invalid_argument or std::out_of_range.
Throws(option, value) == \E r \in Reads(option, value) : value.parts[r[2]] = <<>>

\* One setting, and settings on top of those before.
Setting(name, value) == [s \in {name} |-> value]
Over(new, before) ==
  [s \in DOMAIN new \cup DOMAIN before |-> IF s \in DOMAIN new THEN new[s] ELSE before[s]]

\* What an option sets besides its value: also a flag of its own, and the port
\* as long as that is the plain one.
SetsAlso(option) == IF option.also = <<>> THEN <<>> ELSE Setting(option.also[1], option.also[2])
MovesPort(option, before) ==
  option.ports # <<>> /\ ("-p" \in DOMAIN before => before["-p"] = option.ports[1])
Besides(option, before) ==
  IF MovesPort(option, before) THEN Over(SetsAlso(option), Setting("-p", option.ports[2]))
  ELSE SetsAlso(option)

\* What an option sets.
Valued(option, value) ==
  IF option.kind = "text" THEN Setting(option.to[1], value.text)
  ELSE [s \in {r[1] : r \in Reads(option, value)} |->
          LET r == CHOOSE r \in Reads(option, value) : r[1] = s IN value.parts[r[2]][1]]
Assigns(option, value, before) == Over(Besides(option, before), Valued(option, value))

-----------------------------------------------------------------------------
Parsing == pc = "parse" /\ i <= Len(line.words)
Here == line.words[i]
HasNext == i < Len(line.words)

\* The option that a word names, or none.
Named(word) == {o \in Parsers[plugin].opts : o.opt = word.text}

ParserInit ==
  /\ plugin \in DOMAIN Parsers
  /\ line \in Lines[plugin]
  /\ i = 1
  /\ settings = <<>>
  /\ pc = "parse"

\* -h prints the usage and exits with 0, whatever else is on the line.
Help ==
  /\ Parsing
  /\ Here.text = "-h"
  /\ pc' = "usage"
  /\ UNCHANGED <<plugin, line, i, settings>>

TakeFlag ==
  /\ Parsing
  /\ \E o \in Named(Here) :
       /\ o.kind = "flag"
       /\ settings' = Over(Besides(o, settings), settings)
  /\ i' = i + 1
  /\ UNCHANGED <<plugin, line, pc>>

\* mutant: the word of an option is looked at again
TakeValueTwice ==
  /\ Parsing
  /\ HasNext
  /\ \E o \in Named(Here) :
       /\ o.kind # "flag"
       /\ ~Throws(o, line.words[i + 1])
       /\ settings' = Over(Assigns(o, line.words[i + 1], settings), settings)
  /\ i' = i + 1
  /\ UNCHANGED <<plugin, line, pc>>

TakeValue ==
  /\ Parsing
  /\ HasNext
  /\ \E o \in Named(Here) :
       /\ o.kind # "flag"
       /\ ~Throws(o, line.words[i + 1])
       /\ settings' = Over(Assigns(o, line.words[i + 1], settings), settings)
  /\ i' = i + 2
  /\ UNCHANGED <<plugin, line, pc>>

\* The exception leaves parseArguments() and main().
Abort ==
  /\ Parsing
  /\ HasNext
  /\ \E o \in Named(Here) : o.kind # "flag" /\ Throws(o, line.words[i + 1])
  /\ pc' = "aborted"
  /\ UNCHANGED <<plugin, line, i, settings>>

\* An option at the end of the line, without its word, is skipped.
MissingValue ==
  /\ Parsing
  /\ ~HasNext
  /\ \E o \in Named(Here) : o.kind # "flag"
  /\ i' = i + 1
  /\ UNCHANGED <<plugin, line, settings, pc>>

\* A word that is no option: check_disk adds it to its paths, the file checks
\* take it for the file if they have none yet, and the others skip it.
LooseWord ==
  LET to == Parsers[plugin].loose IN
  /\ Parsing
  /\ Here.text # "-h" /\ Named(Here) = {}
  /\ settings' =
       IF to = "ignored" \/ Here.dash THEN settings
       ELSE IF to = "paths"
            THEN Over(Setting(to, Append(IF to \in DOMAIN settings THEN settings[to] ELSE <<>>,
                                         Here.text)), settings)
       ELSE Over(settings, Setting(to, Here.text))
  /\ i' = i + 1
  /\ UNCHANGED <<plugin, line, pc>>

\* executePlugin() calls check(); of a plugin without a check, that is all.
Parsed ==
  /\ pc = "parse"
  /\ i > Len(line.words)
  /\ pc' = (IF Parsers[plugin].stub = "none" THEN "check" ELSE Parsers[plugin].stub)
  /\ UNCHANGED <<plugin, line, i, settings>>

ParserNext ==
  Help \/ TakeFlag \/ TakeValue \/ Abort \/ MissingValue \/ LooseWord \/ Parsed
=============================================================================
