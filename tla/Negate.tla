------------------------------- MODULE Negate -------------------------------
(***************************************************************************)
(* The life of a plugin process and the wrapper check_negate: main() calls *)
(* parseArguments() (where nothing catches an exception), then             *)
(* executePlugin() calls check() and turns whatever it does into a status. *)
(* check_negate runs its command with std::system(), may itself be that    *)
(* command, and inverts the status it gets.  A command line is a sequence  *)
(* of words, and a word the sequence of what a shell would make of it:     *)
(* <<"-c">>, or <<"dummy", "-c">> where the user has quoted the two.       *)
(* "negate", "dummy" and "disk" are the programs, any other first word     *)
(* names none, and "5" is the word that begins with a number.              *)
(***************************************************************************)
EXTENDS Integers, Sequences, SequencesExt

CONSTANT CommandLines   \* what the monitoring system may run

VARIABLES
  line,     \* the command line of the outermost process
  stack,    \* the processes: each runs the one after it and waits for it
  status,   \* the status of the outermost process, or Running
  cause     \* "none", or how a process last ended abnormally: "abort", an exception
            \* of its parser, or "signal", one from outside

negateVars == <<line, stack, status, cause>>

\* What waitpid() tells of an ended process.
Codes    == {0, 1, 2, 3}
NotFound == 127
Signal   == 255   \* not WIFEXITED
Running  == -1    \* not ended

-----------------------------------------------------------------------------
(* The parsers: a fold over the words. *)

\* mutant: WEXITSTATUS without WIFEXITED
DecodeRaw(wait) == IF wait = Signal THEN 0 ELSE wait

\* How check() reads the result of std::system().
Decode(wait) == IF wait = Signal THEN 3 ELSE wait

\* invertExitCode()
Invert(code) ==
  CASE code = 0 -> 2 [] code = 1 -> 1 [] code = 2 -> 0 [] OTHER -> 3

\* mutant: the words after the command are dropped
NegateArgsDropped(words) ==
  LET step(p, w) ==
        IF p.help THEN p
        ELSE IF p.pending THEN [p EXCEPT !.command = <<w>>, !.pending = FALSE]
        ELSE CASE w = <<"-h">> -> [p EXCEPT !.help = TRUE]
               [] w = <<"-c">> -> [p EXCEPT !.pending = TRUE]
               [] OTHER    -> IF p.command = <<>> THEN [p EXCEPT !.command = <<w>>]
                              ELSE p
  IN  FoldLeft(step, [command |-> <<>>, args |-> <<>>, pending |-> FALSE, help |-> FALSE], words)

\* check_negate, parseArguments(): -h prints the usage and exits; -c takes the
\* next word, if there is one, for the command, wherever it stands.
NegateArgs(words) ==
  LET step(p, w) ==
        IF p.help THEN p
        ELSE IF p.pending THEN [p EXCEPT !.command = <<w>>, !.pending = FALSE]
        ELSE CASE w = <<"-h">> -> [p EXCEPT !.help = TRUE]
               [] w = <<"-c">> -> [p EXCEPT !.pending = TRUE]
               [] OTHER    -> IF p.command = <<>> THEN [p EXCEPT !.command = <<w>>]
                              ELSE [p EXCEPT !.args = Append(p.args, w)]
  IN  FoldLeft(step, [command |-> <<>>, args |-> <<>>, pending |-> FALSE, help |-> FALSE], words)

\* check_dummy, parseArguments(): the last of -o -w -c -u wins, -m takes a word.
DummyCode(words) ==
  LET step(p, w) ==
        IF p.help THEN p
        ELSE IF p.message THEN [p EXCEPT !.message = FALSE]
        ELSE CASE w = <<"-h">> -> [p EXCEPT !.help = TRUE, !.code = 0]
               [] w = <<"-m">> -> [p EXCEPT !.message = TRUE]
               [] w = <<"-o">> -> [p EXCEPT !.code = 0]
               [] w = <<"-w">> -> [p EXCEPT !.code = 1]
               [] w = <<"-c">> -> [p EXCEPT !.code = 2]
               [] w = <<"-u">> -> [p EXCEPT !.code = 3]
               [] OTHER    -> p
  IN  FoldLeft(step, [code |-> 0, message |-> FALSE, help |-> FALSE], words).code

\* check_disk, parseArguments(), for every plugin with numeric options:
\* std::stoll() and std::stod() throw, after -w or -c, on a word that does not
\* begin with a number (or with one out of their range); -h before it exits with 0.
DiskArgs(words) ==
  LET step(p, w) ==
        IF p.ends # "" THEN p
        ELSE IF p.number THEN IF w[1] = "5" THEN [p EXCEPT !.number = FALSE]
                                           ELSE [p EXCEPT !.ends = "throws"]
        ELSE CASE w = <<"-h">>                -> [p EXCEPT !.ends = "help"]
               [] w \in {<<"-w">>, <<"-c">>} -> [p EXCEPT !.number = TRUE]
               [] OTHER                      -> p
  IN  FoldLeft(step, [ends |-> "", number |-> FALSE], words).ends

-----------------------------------------------------------------------------
\* The words the shell of std::system() makes of a command and its arguments,
\* which check_negate joins with spaces: what was quoted is so no more.
Shell(words) ==
  LET split(made, w) == made \o [k \in DOMAIN w |-> <<w[k]>>]
  IN  FoldLeft(split, <<>>, words)

Process(words) == [words |-> words, pc |-> "parse", child |-> <<>>, got |-> 0]

NegateInit ==
  /\ line \in CommandLines
  /\ stack = <<Process(line)>>
  /\ status = Running
  /\ cause = "none"

Top  == Last(stack)
Innermost(program, stage) == stack # <<>> /\ Top.words[1] = <<program>> /\ Top.pc = stage

\* The innermost process ends; the one that runs it gets the wait status, or
\* the monitoring system does.
End(wait) ==
  LET outer == Front(stack)
  IN  IF outer = <<>>
      THEN stack' = <<>> /\ status' = wait
      ELSE /\ stack' = Append(Front(outer), [Last(outer) EXCEPT !.pc = "return", !.got = wait])
           /\ UNCHANGED status

\* main() and parseArguments() of check_negate.
ParseNegate ==
  /\ Innermost("negate", "parse")
  /\ LET p == NegateArgs(Tail(Top.words)) IN
     IF p.help
     THEN End(0)
     ELSE /\ stack' = Append(Front(stack), [Top EXCEPT !.pc = "check", !.child = Shell(p.command \o p.args)])
          /\ UNCHANGED status
  /\ UNCHANGED <<line, cause>>

\* check() of check_negate: without a command UNKNOWN, else std::system().
Spawn ==
  /\ Innermost("negate", "check")
  /\ IF Top.child = <<>>
     THEN End(3)
     ELSE /\ stack' = Append(Append(Front(stack), [Top EXCEPT !.pc = "wait"]), Process(Top.child))
          /\ UNCHANGED status
  /\ UNCHANGED <<line, cause>>

\* mutant: it waits again until the command has exited
CollectExited ==
  /\ Innermost("negate", "return")
  /\ Top.got # Signal
  /\ End(Invert(Decode(Top.got)))
  /\ UNCHANGED <<line, cause>>

\* std::system() has returned; the status is inverted.
Collect ==
  /\ Innermost("negate", "return")
  /\ End(Invert(Decode(Top.got)))
  /\ UNCHANGED <<line, cause>>

\* check_dummy.
RunDummy ==
  /\ Innermost("dummy", "parse")
  /\ End(DummyCode(Tail(Top.words)))
  /\ UNCHANGED <<line, cause>>

\* check_disk: an exception of the parser ends it by SIGABRT; executePlugin()
\* makes UNKNOWN of one that check() throws, and a status of its result.
RunDisk ==
  /\ Innermost("disk", "parse")
  /\ LET ends == DiskArgs(Tail(Top.words)) IN
     /\ CASE ends = "throws" -> End(Signal)
          [] ends = "help"   -> End(0)
          [] OTHER           -> \E code \in Codes : End(code)
     /\ cause' = IF ends = "throws" THEN "abort" ELSE cause
  /\ UNCHANGED line

\* The shell of std::system() finds no such program; nor for a command that
\* begins with '-', which the C library hands to the shell after "--".
RunNothing ==
  /\ stack # <<>>
  /\ Top.words[1] \notin {<<"negate">>, <<"dummy">>, <<"disk">>}
  /\ End(NotFound)
  /\ UNCHANGED <<line, cause>>

\* A signal ends the innermost process, or (a timeout of the monitoring
\* system) the outermost one, whose status is then that of the signal.
Interrupt ==
  /\ stack # <<>>
  /\ \/ End(Signal)
     \/ stack' = <<>> /\ status' = Signal
  /\ cause' = "signal"
  /\ UNCHANGED line

Finished == stack = <<>> /\ UNCHANGED negateVars

Run == ParseNegate \/ Spawn \/ Collect \/ RunDummy \/ RunDisk \/ RunNothing

NegateNext == Run \/ Interrupt \/ Finished

\* The processes are scheduled.
NegateSpec == NegateInit /\ [][NegateNext]_negateVars /\ WF_negateVars(Run)

-----------------------------------------------------------------------------
\* A process that ends abnormally, by a signal or by an exception of its parser,
\* is never turned into a verdict: every check_negate around it reports UNKNOWN
\* (or is itself the one that ended).
AbnormalIsUnknown == cause # "none" /\ status # Running => status \in {3, Signal}
=============================================================================
