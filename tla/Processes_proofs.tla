--------------------------- MODULE Processes_proofs ---------------------------
(***************************************************************************)
(* What the processes of MetricsExporter and Negate leave behind, whatever *)
(* ends them: what a scrape finds, for any number of runs of the exporter  *)
(* script, any number of checks, and any overlap, failure or kill; and the *)
(* status of a command line, however deep check_negate runs itself, once a *)
(* signal or an exception has ended one of its processes.                  *)
(***************************************************************************)
EXTENDS MetricsExporter, Negate, SequenceTheorems, TLAPS

-----------------------------------------------------------------------------
(* The exporter script. *)

Stages == {"idle", "check", "write", "move", "copy"} \cup Over

Lines == {Header} \cup
  [kind : {"sample"}, check : STRING, value : {0}, code : 0..3, run : Runs]

TypeOK ==
  /\ pc \in [Runs -> Stages]
  /\ next \in [Runs -> Nat \ {0}]
  /\ code \in [Runs -> 0..3]
  /\ temp \in [Runs -> {NoFile, <<Header>>}]
  /\ metrics \in Seq(Lines)
  /\ sameDisk \in BOOLEAN
  /\ disturbed \in BOOLEAN

\* A run that goes on has its temporary file, one that has ended has not, but
\* for the one that was killed.
Temporary ==
  \A r \in Runs :
    /\ Alive(r) => temp[r] = <<Header>>
    /\ pc[r] \in {"done", "failed"} => temp[r] = NoFile

\* Before a sample is written, its check is one of the script's.
Within == \A r \in Runs : pc[r] = "write" => next[r] <= Len(Checks)

\* While nothing disturbs them, one run goes on at a time; all the samples are
\* of checks it has passed, and there are none when no run goes on.
OneAtATime == \A q, r \in Runs : Alive(q) /\ Alive(r) => q = r
OfThisRun ==
  \A r \in Runs : Alive(r) =>
    \A i \in DOMAIN metrics : IsSample(i) =>
      \E k \in DOMAIN Checks : k < next[r] /\ metrics[i].check = Checks[k]
NoneLeft == (\A r \in Runs : ~Alive(r)) => \A i \in DOMAIN metrics : ~IsSample(i)
Undisturbed == ~disturbed => OneAtATime /\ OfThisRun /\ NoneLeft

\* NoDuplicates says nothing of the check that is written next, and TempRemoved
\* nothing of the runs that go on: the others are what makes them inductive.
IInv == TypeOK /\ Temporary /\ Within /\ Undisturbed /\ HeaderFirst /\ NoDuplicates

-----------------------------------------------------------------------------
LEMMA HeaderType == Header \in Lines /\ Header.kind = "header"
BY DEF Header, Lines

LEMMA InitImplies == Init => IInv
<1> SUFFICES ASSUME Init PROVE IInv
  OBVIOUS
<1>1. TypeOK
  <2>1. pc \in [Runs -> Stages] /\ next \in [Runs -> Nat \ {0}] /\ code \in [Runs -> 0..3]
    BY DEF Init, Stages
  <2>2. temp \in [Runs -> {NoFile, <<Header>>}]
    BY DEF Init
  <2>3. metrics \in Seq(Lines)
    BY DEF Init, NoFile
  <2> QED
    BY <2>1, <2>2, <2>3 DEF Init, TypeOK
<1>2. \A r \in Runs : ~Alive(r) /\ pc[r] = "idle"
  BY DEF Init, Alive
<1>3. Temporary /\ Within
  BY <1>2 DEF Temporary, Within
<1>4. DOMAIN metrics = {}
  BY DEF Init, NoFile
<1>5. Undisturbed /\ HeaderFirst /\ NoDuplicates
  BY <1>2, <1>4 DEF Undisturbed, OneAtATime, OfThisRun, NoneLeft, HeaderFirst, NoDuplicates
<1> QED
  BY <1>1, <1>3, <1>5 DEF IInv

\* A sample is no header.
LEMMA SampleType ==
  ASSUME TypeOK, NEW r \in Runs, next[r] <= Len(Checks)
  PROVE  /\ Sample(r, 0) \in Lines /\ Sample(r, 0) # Header
         /\ Sample(r, 0).kind = "sample" /\ Sample(r, 0).check = Checks[next[r]]
<1>1. Checks[next[r]] \in STRING /\ code[r] \in 0..3
  BY ChecksAssumption DEF TypeOK
<1>2. Sample(r, 0) \in Lines
  BY <1>1 DEF Sample, Lines
<1>3. Sample(r, 0).kind = "sample" /\ Sample(r, 0).check = Checks[next[r]]
  BY DEF Sample
<1> QED
  BY <1>2, <1>3, HeaderType

LEMMA HeaderOnly ==
  ASSUME metrics' \in {NoFile, <<Header>>}
  PROVE  /\ metrics' \in Seq(Lines)
         /\ \A i \in DOMAIN metrics' : i = 1 /\ metrics'[i].kind # "sample"
<1>1. CASE metrics' = NoFile
  BY <1>1 DEF NoFile
<1>2. CASE metrics' = <<Header>>
  BY <1>2, HeaderType
<1> QED
  BY <1>1, <1>2

\* A step that leaves the metrics file alone, or makes it the header alone.
LEMMA OthersPreserve ==
  ASSUME IInv, TypeOK', Temporary', Within',
         metrics' = metrics \/ metrics' \in {NoFile, <<Header>>},
         ~disturbed' => ~disturbed /\ OneAtATime' /\ OfThisRun' /\ NoneLeft'
  PROVE  IInv'
<1>1. CASE metrics' = metrics
  BY <1>1 DEF IInv, Undisturbed, HeaderFirst, NoDuplicates, IsSample
<1>2. CASE metrics' \in {NoFile, <<Header>>}
  BY <1>2, HeaderOnly DEF IInv, Undisturbed, HeaderFirst, NoDuplicates, IsSample
<1> QED
  BY <1>1, <1>2

LEMMA StartPreserves == ASSUME IInv, NEW r \in Runs, Start(r) PROVE IInv'
<1>1. TypeOK'
  BY DEF Start, Goes, At, IInv, TypeOK, Stages, Over
<1>2. Temporary' /\ Within'
  BY DEF Start, Goes, At, IInv, TypeOK, Temporary, Within, Alive, Over, Stages
<1>3. ~disturbed' => ~disturbed /\ OneAtATime' /\ OfThisRun' /\ NoneLeft'
  <2> SUFFICES ASSUME ~disturbed' PROVE ~disturbed /\ OneAtATime' /\ OfThisRun' /\ NoneLeft'
    OBVIOUS
  <2>1. ~disturbed /\ \A q \in Runs : ~Alive(q)
    BY DEF Start, IInv, TypeOK
  <2>2. \A i \in DOMAIN metrics : ~IsSample(i)
    BY <2>1 DEF IInv, Undisturbed, NoneLeft
  <2>3. OneAtATime'
    BY <2>1 DEF Start, Goes, At, IInv, TypeOK, OneAtATime, Alive
  <2>4. OfThisRun' /\ NoneLeft'
    BY <2>2 DEF Start, OfThisRun, NoneLeft, IsSample
  <2> QED
    BY <2>1, <2>3, <2>4
<1> QED
  BY <1>1, <1>2, <1>3, OthersPreserve DEF Start

LEMMA CheckPreserves == ASSUME IInv, NEW r \in Runs, Check(r) PROVE IInv'
<1> USE DEF IInv, TypeOK, Goes, At
<1>1. TypeOK'
  <2>1. CASE next[r] > Len(Checks)
    BY <2>1 DEF Check, Stages
  <2>2. ASSUME NEW c \in 0..3, code' = [code EXCEPT ![r] = c], Goes(r, "write"), UNCHANGED next
        PROVE  TypeOK'
    BY <2>2 DEF Check, Stages
  <2>3. CASE next' = [next EXCEPT ![r] = @ + 1] /\ UNCHANGED <<pc, code>>
    BY <2>3 DEF Check
  <2> QED
    BY <2>1, <2>2, <2>3 DEF Check
<1>2. /\ pc[r] = "check" /\ pc'[r] \in {"check", "write", "move"}
      /\ \A q \in Runs \ {r} : pc'[q] = pc[q] /\ next'[q] = next[q]
      /\ next'[r] \in {next[r], next[r] + 1}
      /\ pc'[r] = "write" => next'[r] = next[r] /\ ~(next[r] > Len(Checks))
      /\ temp' = temp
  BY DEF Check
<1>3. \A q \in Runs : (Alive(q)' <=> Alive(q)) /\ next[q] <= next'[q]
  <2> SUFFICES ASSUME NEW q \in Runs PROVE (Alive(q)' <=> Alive(q)) /\ next[q] <= next'[q]
    OBVIOUS
  <2>1. next[q] \in Nat
    OBVIOUS
  <2>2. CASE q = r
    BY <1>2, <2>1, <2>2 DEF Alive, Over
  <2>3. CASE q # r
    BY <1>2, <2>1, <2>3 DEF Alive, Over
  <2> QED
    BY <2>2, <2>3
<1>5. Temporary'
  BY <1>2, <1>3 DEF Temporary, Alive, Over
<1>6. Within'
  <2>1. \A q \in Runs : next[q] \in Nat
    OBVIOUS
  <2> QED
    BY <1>2, <2>1, ChecksAssumption, SMTT(60) DEF Within
<1>4. ~disturbed' => ~disturbed /\ OneAtATime' /\ OfThisRun' /\ NoneLeft'
  <2> SUFFICES ASSUME ~disturbed' PROVE ~disturbed /\ OneAtATime' /\ OfThisRun' /\ NoneLeft'
    OBVIOUS
  <2>1. ~disturbed /\ metrics' = metrics
    BY DEF Check
  <2>2. OneAtATime' /\ NoneLeft'
    BY <1>3, <2>1 DEF IInv, Undisturbed, OneAtATime, NoneLeft, IsSample
  <2>3. OfThisRun'
    BY <1>1, <1>3, <2>1, ChecksAssumption DEF IInv, TypeOK, Undisturbed, OfThisRun, IsSample
  <2> QED
    BY <2>1, <2>2, <2>3
<1> QED
  BY <1>1, <1>4, <1>5, <1>6, OthersPreserve DEF Check

\* The new sample is of a check that has none yet: the others are of earlier ones.
LEMMA WritePreserves == ASSUME IInv, NEW r \in Runs, Write(r) PROVE IInv'
<1> DEFINE s == Sample(r, 0)
<1>1. next[r] <= Len(Checks) /\ next[r] \in DOMAIN Checks /\ pc[r] = "write"
  BY ChecksAssumption DEF Write, At, IInv, Within, TypeOK
<1>2. s \in Lines /\ s # Header /\ s.kind = "sample" /\ s.check = Checks[next[r]]
  BY <1>1, SampleType DEF IInv
<1> HIDE DEF s
<1>3. /\ metrics \in Seq(Lines) /\ metrics' = Append(metrics, s)
      /\ DOMAIN metrics' = 1..(Len(metrics) + 1)
      /\ metrics'[Len(metrics) + 1] = s
      /\ \A i \in DOMAIN metrics : metrics'[i] = metrics[i]
  BY <1>2 DEF Write, s, IInv, TypeOK
<1>4. TypeOK'
  BY <1>2, <1>3 DEF Write, Goes, IInv, TypeOK, Stages, Over
<1>5. Temporary' /\ Within'
  BY DEF Write, Goes, At, IInv, TypeOK, Temporary, Within, Alive, Over
<1>6. HeaderFirst'
  BY <1>2, <1>3 DEF IInv, HeaderFirst
<1>7. ~disturbed' => OneAtATime' /\ OfThisRun' /\ NoneLeft' /\ NoDuplicates'
  <2> SUFFICES ASSUME ~disturbed' PROVE OneAtATime' /\ OfThisRun' /\ NoneLeft' /\ NoDuplicates'
    OBVIOUS
  <2>1. ~disturbed
    BY DEF Write
  <2>2. \A q \in Runs : Alive(q)' <=> Alive(q)
    BY DEF Write, Goes, At, IInv, TypeOK, Alive, Over
  <2>3. Alive(r) /\ \A q \in Runs : Alive(q) => q = r
    BY <1>1, <2>1 DEF Alive, Over, IInv, Undisturbed, OneAtATime
  <2>4. \A i \in DOMAIN metrics : IsSample(i) =>
          \E k \in DOMAIN Checks : k < next[r] /\ metrics[i].check = Checks[k]
    BY <2>1, <2>3 DEF IInv, Undisturbed, OfThisRun
  <2>5. next'[r] = next[r] + 1 /\ next[r] \in Nat
    BY DEF Write, IInv, TypeOK
  <2>6. OneAtATime' /\ NoneLeft'
    BY <2>2, <2>3 DEF OneAtATime, NoneLeft
  <2>7. OfThisRun'
    <3> SUFFICES ASSUME NEW i \in DOMAIN metrics', IsSample(i)'
                 PROVE  \E k \in DOMAIN Checks : k < next[r] + 1 /\ metrics'[i].check = Checks[k]
      BY <2>2, <2>3, <2>5 DEF OfThisRun
    <3>1. CASE i = Len(metrics) + 1
      BY <3>1, <1>1, <1>2, <1>3, <2>5, ChecksAssumption
    <3>2. CASE i \in DOMAIN metrics
      BY <3>2, <1>3, <2>4, <2>5, ChecksAssumption DEF IsSample
    <3> QED
      BY <3>1, <3>2, <1>3
  <2>8. NoDuplicates'
    <3>1. \A i \in DOMAIN metrics : IsSample(i) => metrics[i].check # s.check
      BY <2>4, <2>5, <1>1, <1>2, ChecksAssumption
    <3>2. \A i, j \in DOMAIN metrics :
            IsSample(i) /\ IsSample(j) /\ metrics[i].check = metrics[j].check => i = j
      BY <2>1 DEF IInv, NoDuplicates
    <3> QED
      BY <3>1, <3>2, <1>3 DEF NoDuplicates, IsSample
  <2> QED
    BY <2>6, <2>7, <2>8
<1> QED
  BY <1>4, <1>5, <1>6, <1>7 DEF IInv, Undisturbed, NoDuplicates

\* The file is the header alone, or gone, and so are the samples.
LEMMA ReplacedPreserves ==
  ASSUME IInv, NEW r \in Runs, Move(r) \/ Unlink(r) \/ Copy(r) PROVE IInv'
<1>1. TypeOK'
  <2>1. <<Header>> \in Seq(Lines) /\ <<>> \in Seq(Lines)
    BY HeaderType
  <2>2. /\ pc' \in [Runs -> Stages] /\ temp' \in [Runs -> {NoFile, <<Header>>}]
        /\ disturbed' \in BOOLEAN
    BY DEF Move, Unlink, Copy, Goes, IInv, TypeOK, Stages, Over
  <2>3. metrics' \in Seq(Lines)
    <3>1. temp[r] \in Seq(Lines)
      BY <2>1 DEF IInv, TypeOK, NoFile
    <3> QED
      BY <2>1, <3>1 DEF Move, Unlink, Copy, IInv, TypeOK, NoFile
  <2> QED
    BY <2>2, <2>3 DEF Move, Unlink, Copy, IInv, TypeOK
<1>2. Temporary' /\ Within'
  BY ZenonT(60) DEF Move, Unlink, Copy, Goes, At, IInv, TypeOK, Temporary, Within, Alive, Over, NoFile
<1>3. temp[r] = <<Header>> /\ \A q \in Runs : Alive(q)' => Alive(q)
  BY DEF Move, Unlink, Copy, Goes, At, IInv, TypeOK, Temporary, Alive, Over
<1>4. metrics' = metrics \/ metrics' \in {NoFile, <<Header>>}
  BY <1>3 DEF Move, Unlink, Copy
<1>5. ~disturbed' => ~disturbed /\ OneAtATime' /\ OfThisRun' /\ NoneLeft'
  <2> SUFFICES ASSUME ~disturbed' PROVE ~disturbed /\ OneAtATime' /\ OfThisRun' /\ NoneLeft'
    OBVIOUS
  <2>1. ~disturbed /\ metrics' \in {NoFile, <<Header>>}
    BY <1>3 DEF Move, Unlink, Copy
  <2>2. OneAtATime'
    BY <2>1, <1>3 DEF IInv, Undisturbed, OneAtATime
  <2>3. OfThisRun' /\ NoneLeft'
    BY <2>1, HeaderOnly DEF OfThisRun, NoneLeft, IsSample
  <2> QED
    BY <2>1, <2>2, <2>3
<1> QED
  BY <1>1, <1>2, <1>4, <1>5, OthersPreserve

LEMMA StoppedPreserves == ASSUME IInv, NEW r \in Runs, Fail(r) \/ Kill(r) PROVE IInv'
<1>1. TypeOK'
  BY DEF Fail, Kill, Goes, IInv, TypeOK, Stages, Over, NoFile
<1>2. Temporary' /\ Within'
  BY DEF Fail, Kill, Goes, IInv, TypeOK, Temporary, Within, Alive, Over
<1>3. disturbed' /\ metrics' = metrics
  BY DEF Fail, Kill
<1> QED
  BY <1>1, <1>2, <1>3, OthersPreserve

LEMMA StepPreserves == IInv /\ [Next]_vars => IInv'
<1> SUFFICES ASSUME IInv, [Next]_vars PROVE IInv'
  OBVIOUS
<1>1. ASSUME NEW r \in Runs, Start(r) PROVE IInv'
  BY <1>1, StartPreserves
<1>2. ASSUME NEW r \in Runs, Check(r) PROVE IInv'
  BY <1>2, CheckPreserves
<1>3. ASSUME NEW r \in Runs, Write(r) PROVE IInv'
  BY <1>3, WritePreserves
<1>4. ASSUME NEW r \in Runs, Move(r) \/ Unlink(r) \/ Copy(r) PROVE IInv'
  BY <1>4, ReplacedPreserves
<1>5. ASSUME NEW r \in Runs, Fail(r) \/ Kill(r) PROVE IInv'
  BY <1>5, StoppedPreserves
<1>6. CASE Exited \/ UNCHANGED vars
  <2> USE <1>6 DEF Exited, vars
  <2>1. TypeOK' /\ Temporary' /\ Within'
    BY DEF IInv, TypeOK, Temporary, Within, Alive
  <2>2. Undisturbed'
    BY DEF IInv, Undisturbed, OneAtATime, OfThisRun, NoneLeft, Alive, IsSample
  <2>3. HeaderFirst' /\ NoDuplicates'
    BY DEF IInv, HeaderFirst, NoDuplicates, IsSample
  <2> QED
    BY <2>1, <2>2, <2>3 DEF IInv
<1> QED
  BY <1>1, <1>2, <1>3, <1>4, <1>5, <1>6 DEF Next

-----------------------------------------------------------------------------
LEMMA IInvHolds == Spec => []IInv
BY InitImplies, StepPreserves, PTL DEF Spec

\* A scrape finds the headers first, or not at all, for any runs of the script.
THEOREM HeaderFirstHolds == Spec => []HeaderFirst
<1>1. IInv => HeaderFirst
  BY DEF IInv
<1> QED
  BY IInvHolds, <1>1, PTL

\* Only a killed run leaves its temporary file behind.
THEOREM TempRemovedHolds == Spec => []TempRemoved
<1>1. IInv => TempRemoved
  BY DEF IInv, Temporary, TempRemoved
<1> QED
  BY IInvHolds, <1>1, PTL

\* While runs do not overlap and none fails or is killed, no scrape finds two
\* samples of one check.
THEOREM NoDuplicatesHolds == Spec => []NoDuplicates
<1>1. IInv => NoDuplicates
  BY DEF IInv
<1> QED
  BY IInvHolds, <1>1, PTL

-----------------------------------------------------------------------------
(* check_negate, of which the exporter knows nothing. *)

\* The processes whose words and statuses are in W.  What they are, a fold over
\* the words of the command line, does not matter.
Processes(W) == [words : W, pc : {"parse", "check", "wait", "return"}, child : W, got : W]

StackOK == \E W : stack \in Seq(Processes(W))

\* All but the innermost process wait in std::system(), which only check_negate
\* calls; so only check_negate returns from it.
Waiting ==
  \A i \in DOMAIN stack :
    i < Len(stack) \/ stack[i].pc = "return" => stack[i].words[1] = <<"negate">>

\* After an abnormal end, the innermost process that is left has seen a signal, or
\* the UNKNOWN of a process that has.
Unwinding ==
  cause # "none" /\ stack # <<>> => stack[Len(stack)].pc = "return" /\ stack[Len(stack)].got \in {3, Signal}

Ended ==
  /\ stack # <<>> => status = Running
  /\ cause # "none" /\ stack = <<>> => status \in {3, Signal}

NegateInv == StackOK /\ Waiting /\ Unwinding /\ Ended

-----------------------------------------------------------------------------
LEMMA ProcessType ==
  ASSUME NEW W, NEW w \in W, <<>> \in W, 0 \in W
  PROVE  Process(w) \in Processes(W) /\ Process(w).words = w /\ Process(w).pc = "parse"
BY DEF Process, Processes

LEMMA NegateStarts == NegateInit => NegateInv
<1> SUFFICES ASSUME NegateInit PROVE NegateInv
  OBVIOUS
<1> DEFINE W == {line, <<>>, 0}
           p == Process(line)
<1>1. p \in Processes(W) /\ p.pc = "parse"
  BY ProcessType
<1> HIDE DEF p, W
<1>2. stack = <<p>> /\ stack \in Seq(Processes(W)) /\ Len(stack) = 1 /\ stack[1] = p
  BY <1>1 DEF NegateInit, p
<1>3. StackOK
  BY <1>2 DEF StackOK
<1>4. Waiting /\ Unwinding /\ Ended
  BY <1>1, <1>2, SMTT(60) DEF NegateInit, Waiting, Unwinding, Ended
<1> QED
  BY <1>3, <1>4 DEF NegateInv

\* What is left when the innermost process is taken off the stack, and what
\* becomes of it when another process takes its place.
LEMMA Stacked ==
  ASSUME NEW P, NEW s \in Seq(P), s # <<>>, NEW q \in P
  PROVE  /\ Front(s) \in Seq(P) /\ Len(Front(s)) = Len(s) - 1 /\ Len(s) \in Nat \ {0}
         /\ \A i \in 1..(Len(s) - 1) : Front(s)[i] = s[i]
         /\ Last(s) = s[Len(s)] /\ Last(s) \in P
         /\ Append(Front(s), q) \in Seq(P) /\ Append(Front(s), q) # <<>>
         /\ Len(Append(Front(s), q)) = Len(s) /\ Append(Front(s), q)[Len(s)] = q
         /\ \A i \in 1..(Len(s) - 1) : Append(Front(s), q)[i] = s[i]
<1>1. Len(s) \in Nat \ {0} /\ DOMAIN s = 1..Len(s)
  OBVIOUS
<1>2. Front(s) = SubSeq(s, 1, Len(s) - 1) /\ Last(s) = s[Len(s)]
  BY DEF Front, Last
<1>3. /\ Front(s) \in Seq(P) /\ Len(Front(s)) = Len(s) - 1
      /\ \A i \in 1..(Len(s) - 1) : Front(s)[i] = s[i]
  BY <1>1, <1>2
<1> DEFINE f == Front(s)
<1> HIDE DEF f
<1>4. /\ Append(f, q) \in Seq(P) /\ Len(Append(f, q)) = Len(f) + 1
      /\ Append(f, q)[Len(f) + 1] = q
      /\ \A i \in 1..Len(f) : Append(f, q)[i] = f[i]
  BY <1>3 DEF f
<1> QED
  <2>1. Last(s) \in P /\ Len(f) + 1 = Len(s)
    BY <1>1, <1>2, <1>3, ElementOfSeq DEF f
  <2>3. Append(f, q) # <<>>
    BY <1>1, <1>4, <2>1
  <2>2. \A i \in 1..(Len(s) - 1) : Append(f, q)[i] = s[i]
    BY <1>1, <1>3, <1>4 DEF f
  <2> QED
    BY <1>1, <1>2, <1>3, <1>4, <2>1, <2>2, <2>3, Zenon DEF f

\* The innermost process has ended: what goes on is a check_negate that returns.
LEMMA EndPreserves ==
  ASSUME NegateInv, stack # <<>>, NEW wait, End(wait), cause' # "none" => wait \in {3, Signal}
  PROVE  NegateInv'
<1> PICK V : stack \in Seq(Processes(V))
  BY DEF NegateInv, StackOK
<1> DEFINE W == V \cup {wait}
           outer == Front(stack)
           q == [Last(outer) EXCEPT !.pc = "return", !.got = wait]
<1>0. stack \in Seq(Processes(W)) /\ wait \in W
  <2>1. Processes(V) \subseteq Processes(W)
    BY DEF Processes
  <2> QED
    BY <2>1, SeqMonotonic
<1> HIDE DEF W
<1>1. /\ outer \in Seq(Processes(W)) /\ Len(outer) = Len(stack) - 1 /\ Len(stack) \in Nat \ {0}
      /\ \A i \in 1..(Len(stack) - 1) : outer[i] = stack[i]
  <2>1. Last(stack) \in Processes(W)
    BY <1>0, ElementOfSeq DEF Last
  <2> QED
    BY <1>0, <2>1, Stacked
<1>2. CASE outer = <<>>
  <2>1. stack' = <<>> /\ status' = wait
    BY <1>2 DEF End
  <2> QED
    BY <2>1 DEF NegateInv, StackOK, Waiting, Unwinding, Ended
<1>3. CASE outer # <<>>
  <2>1. Len(outer) \in Nat \ {0} /\ Last(outer) = stack[Len(outer)] /\ Last(outer) \in Processes(W)
    BY <1>1, <1>3, ElementOfSeq DEF Last
  <2>2. /\ q \in Processes(W) /\ q.pc = "return" /\ q.got = wait
        /\ q.words = stack[Len(outer)].words
    BY <1>0, <2>1 DEF Processes
  <2>3. stack' = Append(Front(outer), q) /\ status' = status
    BY <1>3 DEF End
  <2> HIDE DEF outer, q
  <2>4. /\ stack' \in Seq(Processes(W)) /\ Len(stack') = Len(outer) /\ stack' # <<>>
        /\ stack'[Len(outer)] = q /\ \A i \in 1..(Len(outer) - 1) : stack'[i] = outer[i]
    <3>1. /\ Append(Front(outer), q) \in Seq(Processes(W)) /\ Append(Front(outer), q) # <<>>
          /\ Len(Append(Front(outer), q)) = Len(outer) /\ Append(Front(outer), q)[Len(outer)] = q
          /\ \A i \in 1..(Len(outer) - 1) : Append(Front(outer), q)[i] = outer[i]
      <4> DEFINE P == Processes(W)
      <4>1. outer \in Seq(P) /\ outer # <<>> /\ q \in P
        BY <1>1, <1>3, <2>2
      <4> HIDE DEF P
      <4>2. Append(Front(outer), q) \in Seq(P) /\ Append(Front(outer), q) # <<>>
        BY <4>1, Stacked
      <4>3. Len(Append(Front(outer), q)) = Len(outer) /\ Append(Front(outer), q)[Len(outer)] = q
        BY <4>1, Stacked
      <4>4. \A i \in 1..(Len(outer) - 1) : Append(Front(outer), q)[i] = outer[i]
        BY <4>1, Stacked
      <4> QED
        BY <4>2, <4>3, <4>4 DEF P
    <3> QED
      BY <2>3, <3>1
  <2>5. Waiting'
    <3>1. \A i \in 1..(Len(stack) - 1) : stack[i].words[1] = <<"negate">>
      <4>1. DOMAIN stack = 1..Len(stack)
        BY <1>0
      <4>2. \A i \in DOMAIN stack : i < Len(stack) => stack[i].words[1] = <<"negate">>
        BY DEF Waiting, NegateInv
      <4> QED
        BY <1>1, <4>1, <4>2, SMTT(60)
    <3>2. \A i \in 1..(Len(outer) - 1) : stack'[i].words[1] = <<"negate">>
      BY <1>1, <2>1, <2>4, <3>1, SMTT(60)
    <3>3. Len(outer) \in 1..(Len(stack) - 1) /\ stack'[Len(outer)].words[1] = <<"negate">>
      BY <1>1, <2>1, <2>2, <2>4, <3>1
    <3>4. DOMAIN stack' = 1..Len(outer)
      BY <2>4
    <3>5. \A i \in 1..Len(outer) : i \in 1..(Len(outer) - 1) \/ i = Len(outer)
      BY <2>1
    <3> QED
      BY <3>2, <3>3, <3>4, <3>5 DEF Waiting
  <2>6. Unwinding' /\ Ended'
    BY <2>2, <2>3, <2>4 DEF Unwinding, Ended, NegateInv
  <2> QED
    BY <2>4, <2>5, <2>6 DEF NegateInv, StackOK
<1> QED
  BY <1>2, <1>3

\* check_negate has read its command line.
LEMMA ParsePreserves == ASSUME NegateInv, ParseNegate PROVE NegateInv'
<1> DEFINE p == NegateArgs(Tail(Top.words))
           c == Shell(p.command \o p.args)
<1>1. stack # <<>> /\ Top = stack[Len(stack)] /\ Top.pc = "parse" /\ Top.words[1] = <<"negate">>
  BY DEF ParseNegate, Innermost, Top, Last
<1>2. cause = "none" /\ cause' = cause
  BY <1>1 DEF ParseNegate, NegateInv, Unwinding
<1>3. CASE End(0)
  BY <1>1, <1>2, <1>3, EndPreserves
<1>4. CASE /\ stack' = Append(Front(stack), [Top EXCEPT !.pc = "check", !.child = c])
           /\ UNCHANGED status
  <2> HIDE DEF c
  <2> PICK W : stack \in Seq(Processes(W))
    BY DEF NegateInv, StackOK
  <2> DEFINE X == W \cup {c}
             q == [Top EXCEPT !.pc = "check", !.child = c]
  <2>1. Processes(W) \subseteq Processes(X)
    BY DEF Processes
  <2>2. stack \in Seq(Processes(X)) /\ Top \in Processes(X)
    <3>1. stack \in Seq(Processes(X))
      BY <2>1, SeqMonotonic
    <3> QED
      BY <1>1, <3>1, ElementOfSeq
  <2>3. q \in Processes(X) /\ q.pc = "check" /\ q.words = Top.words
    BY <2>2 DEF Processes
  <2> HIDE DEF q, X
  <2>4. /\ stack' \in Seq(Processes(X)) /\ Len(stack') = Len(stack) /\ stack' # <<>>
        /\ stack'[Len(stack)] = q /\ \A i \in 1..(Len(stack) - 1) : stack'[i] = stack[i]
        /\ Len(stack) \in Nat \ {0}
    BY <1>1, <1>4, <2>2, <2>3, Stacked, SMTT(60) DEF q
  <2>5. Waiting'
    BY <1>1, <2>3, <2>4, SMTT(60) DEF Waiting, NegateInv
  <2> QED
    BY <1>1, <1>2, <1>4, <2>4, <2>5 DEF NegateInv, StackOK, Unwinding, Ended
<1> QED
  BY <1>3, <1>4 DEF ParseNegate

\* std::system() has started the command on top of check_negate.
LEMMA SpawnPreserves == ASSUME NegateInv, Spawn PROVE NegateInv'
<1>1. stack # <<>> /\ Top = stack[Len(stack)] /\ Top.pc = "check" /\ Top.words[1] = <<"negate">>
  BY DEF Spawn, Innermost, Top, Last
<1>2. cause = "none" /\ cause' = cause
  BY <1>1 DEF Spawn, NegateInv, Unwinding
<1>3. CASE End(3)
  BY <1>1, <1>2, <1>3, EndPreserves
<1>4. CASE /\ stack' = Append(Append(Front(stack), [Top EXCEPT !.pc = "wait"]), Process(Top.child))
           /\ UNCHANGED status
  <2> PICK W : stack \in Seq(Processes(W))
    BY DEF NegateInv, StackOK
  <2> DEFINE X == W \cup {<<>>, 0}
             q == [Top EXCEPT !.pc = "wait"]
             n == Process(Top.child)
             t == Append(Front(stack), q)
  <2>1. Processes(W) \subseteq Processes(X)
    BY DEF Processes
  <2>2. stack \in Seq(Processes(X)) /\ Top \in Processes(X)
    <3>1. stack \in Seq(Processes(X))
      BY <2>1, SeqMonotonic
    <3> QED
      BY <1>1, <3>1, ElementOfSeq
  <2>3. q \in Processes(X) /\ q.pc = "wait" /\ q.words = Top.words /\ Top.child \in X
    BY <2>2 DEF Processes
  <2>4. n \in Processes(X) /\ n.pc = "parse"
    BY <2>3, ProcessType
  <2>5. stack' = Append(t, n) /\ UNCHANGED status
    BY <1>4
  <2> HIDE DEF q, X, n
  <2>6. /\ t \in Seq(Processes(X)) /\ Len(t) = Len(stack) /\ Len(stack) \in Nat \ {0}
        /\ t[Len(stack)] = q /\ \A i \in 1..(Len(stack) - 1) : t[i] = stack[i]
    BY <1>1, <2>2, <2>3, Stacked
  <2> HIDE DEF t
  <2>7. /\ stack' \in Seq(Processes(X)) /\ Len(stack') = Len(stack) + 1 /\ stack' # <<>>
        /\ stack'[Len(stack) + 1] = n /\ \A i \in 1..Len(stack) : stack'[i] = t[i]
    BY <2>4, <2>5, <2>6
  <2>8. Waiting'
    BY <1>1, <2>3, <2>4, <2>6, <2>7, SMTT(60) DEF Waiting, NegateInv
  <2> QED
    BY <1>1, <1>2, <2>5, <2>7, <2>8 DEF NegateInv, StackOK, Unwinding, Ended
<1> QED
  BY <1>3, <1>4 DEF Spawn

\* invertExitCode() makes UNKNOWN of what a signal, or UNKNOWN, came to.
LEMMA CollectPreserves == ASSUME NegateInv, Collect PROVE NegateInv'
<1> DEFINE wait == Invert(Decode(Top.got))
<1>1. stack # <<>> /\ Top = stack[Len(stack)] /\ End(wait) /\ cause' = cause
  BY DEF Collect, Innermost, Top, Last
<1>2. cause' # "none" => wait \in {3, Signal}
  BY <1>1 DEF NegateInv, Unwinding, Decode, Invert, Signal
<1> QED
  BY <1>1, <1>2, EndPreserves

\* A plugin has ended of itself, before any signal, or its parser has aborted.
LEMMA RunPreserves ==
  ASSUME NegateInv, RunDummy \/ RunDisk \/ RunNothing PROVE NegateInv'
<1>1. stack # <<>> /\ Top = stack[Len(stack)]
  BY DEF RunDummy, RunDisk, RunNothing, Innermost, Top, Last
<1>2. cause = "none"
  <2>1. Top.words[1] # <<"negate">> \/ Top.pc # "return"
    BY DEF RunDummy, RunDisk, RunNothing, Innermost
  <2> QED
    BY <1>1, <2>1 DEF NegateInv, Unwinding, Waiting, StackOK
<1>3. CASE RunDummy \/ RunNothing
  <2>1. \E wait : End(wait)
    BY <1>3 DEF RunDummy, RunNothing
  <2>2. cause' = "none"
    BY <1>2, <1>3 DEF RunDummy, RunNothing
  <2> QED
    BY <1>1, <2>1, <2>2, EndPreserves
<1>4. CASE RunDisk
  <2> DEFINE ends == DiskArgs(Tail(Top.words))
  <2>1. CASE ends = "throws"
    <3>1. End(Signal)
      BY <1>4, <2>1 DEF RunDisk
    <3> QED
      BY <1>1, <3>1, EndPreserves
  <2>2. CASE ends # "throws"
    <3>1. \E wait : End(wait)
      BY <1>4, <2>2 DEF RunDisk
    <3>2. cause' = "none"
      BY <1>2, <1>4, <2>2 DEF RunDisk
    <3> QED
      BY <1>1, <3>1, <3>2, EndPreserves
  <2> QED
    BY <2>1, <2>2
<1> QED
  BY <1>3, <1>4

LEMMA InterruptPreserves == ASSUME NegateInv, Interrupt PROVE NegateInv'
<1>1. CASE End(Signal)
  BY <1>1, EndPreserves DEF Interrupt, Signal
<1>2. CASE stack' = <<>> /\ status' = Signal
  BY <1>2 DEF NegateInv, StackOK, Waiting, Unwinding, Ended
<1> QED
  BY <1>1, <1>2 DEF Interrupt

LEMMA NegateStep == NegateInv /\ [NegateNext]_negateVars => NegateInv'
<1> SUFFICES ASSUME NegateInv, [NegateNext]_negateVars PROVE NegateInv'
  OBVIOUS
<1>1. CASE Finished \/ UNCHANGED negateVars
  BY <1>1 DEF Finished, negateVars, NegateInv, StackOK, Waiting, Unwinding, Ended
<1>2. CASE Run
  BY <1>2, ParsePreserves, SpawnPreserves, CollectPreserves, RunPreserves DEF Run
<1>3. CASE Interrupt
  BY <1>3, InterruptPreserves
<1> QED
  BY <1>1, <1>2, <1>3 DEF NegateNext

-----------------------------------------------------------------------------
\* For any command lines, and any number of check_negate around each other, a
\* signal or an exception of a parser that ends any of the processes ends as
\* UNKNOWN, or as the signal when it ends the outermost one: never as OK, WARNING
\* or CRITICAL.
THEOREM AbnormalIsUnknownHolds == NegateSpec => []AbnormalIsUnknown
<1>1. NegateInv => AbnormalIsUnknown
  BY DEF NegateInv, Ended, AbnormalIsUnknown
<1> QED
  BY NegateStarts, NegateStep, <1>1, PTL DEF NegateSpec
=============================================================================
