------------------------------ MODULE MCNegate ------------------------------
(***************************************************************************)
(* Negate over every command line of up to five words that starts with     *)
(* check_negate, with options of the command, -c again, -h and quoted      *)
(* words among them, over commands that the user has quoted, and over the  *)
(* other programs by themselves; and its properties.                       *)
(***************************************************************************)
EXTENDS Negate

Programs == {"negate", "dummy", "disk"}
Plain    == Programs \cup {"-c", "-w", "-h", "-m", "5"}
Words    == {<<w>> : w \in Plain} \cup {<<"5", "-c">>}

UpTo(words, n) == UNION {[1..k -> words] : k \in 0..n}

\* A command in quotes: check_negate with up to n words, or another program.
Quoted(n) == {<<"negate">> \o q : q \in UpTo(Plain, n)} \cup
             {<<p>> \o q : p \in {"dummy", "disk"}, q \in UpTo(Plain, 1)}

\* check_negate with such a command, which may have one more word.
Around(quoted, more) ==
  {<<<<"negate">>>> \o c \o <<q>> \o l : c \in {<<>>, <<<<"-c">>>>}, q \in quoted, l \in more}

AllLines ==
  {<<<<"negate">>>> \o l : l \in UpTo(Words, 4)} \cup
  {<<<<p>>>> \o l : p \in {"dummy", "disk"}, l \in UpTo(Words, 2)} \cup
  Around(Quoted(3), {<<>>}) \cup Around(Quoted(2), UpTo(Words, 1))

-----------------------------------------------------------------------------
(* What the usage of check_negate says: check_negate [-c] <command>        *)
(* [command_args...] executes the command and inverts its exit code.       *)

\* The command of its words, if there is one, and what belongs to the command.
After(words) ==
  IF Len(words) > 1 /\ words[2] = <<"-c">> THEN Tail(Tail(words)) ELSE Tail(words)

\* The command line of the command: the user may quote the command and some of
\* its words together; each of the other words is one argument.
Commanded(words) == Shell(<<Head(After(words))>>) \o Tail(After(words))

Commands(words) ==
  words[1] = <<"negate">> /\ After(words) # <<>> /\ words[2] # <<"-h">>

Negated(code) == CASE code = 0 -> 2 [] code = 1 -> 1 [] code = 2 -> 0 [] OTHER -> 3

\* The statuses that a command line may end with when no signal interferes.
RECURSIVE Meant(_)
Meant(words) ==
  CASE Commands(words)          -> {Negated(m) : m \in Meant(Commanded(words))}
    [] words[1] = <<"negate">> /\ ~Commands(words)
                                -> IF Len(words) > 1 /\ words[2] = <<"-h">> THEN {0} ELSE {3}
    [] words[1] = <<"dummy">>   -> {DummyCode(Tail(words))}
    [] words[1] = <<"disk">>    -> CASE DiskArgs(Tail(words)) = "throws" -> {Signal}
                                     [] DiskArgs(Tail(words)) = "help"   -> {0}
                                     [] OTHER                            -> Codes
    [] OTHER                    -> {NotFound}

\* The command line has ended, and no signal has interfered.
EndedOfItself == status # Running /\ cause # "signal"

\* No argument of the command, at any depth, is in quotes or one of "taken".
RECURSIVE ArgsWithout(_, _)
ArgsWithout(taken, words) ==
  Commands(words) =>
    /\ \A k \in 2..Len(After(words)) : Len(After(words)[k]) = 1 /\ After(words)[k] \notin taken
    /\ ArgsWithout(taken, Commanded(words))

\* check_negate, also around itself, inverts the status of exactly the command
\* that was written after it, whatever that is: other plugins, one whose parser
\* aborts, one that is not there.  It does so as long as none of the arguments of
\* the command is -c or -h, which parseArguments() takes for its own.
NegationFaithful ==
  EndedOfItself /\ ArgsWithout({<<"-c">>, <<"-h">>}, line) => status \in Meant(line)

\* So does it whatever options the command has, but for the -h that shows the
\* help: the arguments of the command are those that follow it (getUsage()).
CommandArgsPassed ==
  EndedOfItself /\ ArgsWithout({<<"-h">>}, line) => status \in Meant(line)

\* Every command line comes to its end.
Terminates == <>(status # Running)
=============================================================================
