---------------------------- MODULE ShellWrapper ----------------------------
(***************************************************************************)
(* task1/shell-wrapper: the shell reads a line of commands from its        *)
(* standard input, a script, and runs it as a pipeline: it makes a pipe    *)
(* and a child for each command and then waits for as many children as it  *)
(* has made.  Pipe i lies behind command i; the last one is made too.      *)
(*                                                                         *)
(* The programs are the environment: "gen" writes one unit and ends, "yes" *)
(* writes for ever, "cat" copies to the end of file, "head" copies one     *)
(* unit, "bad" is not found by execvp, and a command without words, "",    *)
(* crashes in it.  What a child does between fork and exec is one step,    *)
(* for it touches nothing of the other processes.                          *)
(*                                                                         *)
(* The script is text: one unit of it is a command and the character       *)
(* behind it, "|" or, where last holds, the end of the line.  The offset   *)
(* of the file can come to lie in the middle of a line, and what is read   *)
(* from there is the rest of that line.  The script fits into one buffer   *)
(* of stdio, and so do the prompts, which nothing flushes before exit, for *)
(* the standard input is no terminal.  malloc and fork succeed.            *)
(***************************************************************************)
EXTENDS Integers, Sequences, FiniteSets

CONSTANTS
  Scripts,   \* what the standard input may hold
  PipeCap,   \* the units a pipe holds
  OpenMax,   \* the descriptors a process may have open
  MaxSize    \* bound: the commands of a line

Programs == {"gen", "yes", "cat", "head", "bad", ""}

Text == [program : Programs, last : BOOLEAN]

(* The last line is ended too.                                              *)
ASSUME ScriptsAssumption ==
  \A s \in Scripts :
    /\ s \in Seq(Text)
    /\ Len(s) > 0 => s[Len(s)].last
    /\ \A p \in 1 .. Len(s) - MaxSize + 1 : \E q \in p .. p + MaxSize - 1 : s[q].last
ASSUME PipeCapAssumption == PipeCap \in Nat \ {0}
ASSUME OpenMaxAssumption == OpenMax \in Nat /\ OpenMax >= 3

VARIABLES
  script,    \* the standard input
  offset,    \* the file offset that all processes share
  start,     \* the line at hand is start + 1 .. next
  next, end, \* stdin of the shell: next + 1 .. end is buffered
  ppc,       \* where the shell is
  i,         \* the children made for this line; while it waits, those to come
  held,      \* the pipe ends that the shell has open for this line
  leaked,    \* the descriptors of earlier lines that it still has open
  cpc,       \* where each child of this line is
  cheld,     \* the pipe ends that each child has open
  have,      \* the units a program has in hand, or exit has to flush
  chan,      \* the units in each pipe
  wrote,     \* history: the units each program has written, 0, 1 or 2 for more
  ran        \* history: where the lines run so far began and ended

shell == <<script, start, next, end, ppc, i, held, leaked, ran>>
vars == <<shell, offset, cpc, cheld, have, chan, wrote>>

size == next - start
Children == 1 .. size
Line == [c \in Children |-> script[start + c].program]

Init ==
  /\ script \in Scripts
  /\ offset = 0
  /\ start = 0 /\ next = 0 /\ end = 0
  /\ ppc = "scan"
  /\ i = 0
  /\ held = {}
  /\ leaked = 0
  /\ cpc = << >> /\ cheld = << >> /\ have = << >> /\ chan = << >> /\ wrote = << >>
  /\ ran = << >>

(***************************************************************************)
(* The shell.                                                              *)
(***************************************************************************)

(* fgets takes what lies between place p and the next end of a line: the    *)
(* commands of scan_cmds, and the start of run_cmd.                         *)
Take(p) ==
  /\ \E q \in (p + 1) .. Len(script) :
       /\ script[q].last
       /\ \A r \in (p + 1) .. (q - 1) : ~ script[r].last
       /\ next' = q
       /\ ran' = Append(ran, [from |-> p, to |-> q])
  /\ start' = p
  /\ ppc' = "pipe"
  /\ i' = 0
  /\ cpc' = << >> /\ cheld' = << >> /\ have' = << >> /\ chan' = << >> /\ wrote' = << >>
  /\ UNCHANGED <<script, held, leaked>>

ScanBuffered ==
  /\ ppc = "scan"
  /\ next < end
  /\ Take(next)
  /\ UNCHANGED <<end, offset>>

(* fgets finds its buffer empty and reads the rest of the script.           *)
ScanRead ==
  /\ ppc = "scan"
  /\ next = end
  /\ offset < Len(script)
  /\ Take(offset)
  /\ end' = Len(script)
  /\ offset' = Len(script)

ScanEOF ==
  /\ ppc = "scan"
  /\ next = end
  /\ offset = Len(script)
  /\ ppc' = "eof"
  /\ UNCHANGED <<script, start, next, end, i, held, leaked, ran, offset, cpc, cheld,
                 have, chan, wrote>>

OpenFds == 3 + leaked + Cardinality(held)

(* pipe and fork; the child gets what the shell has open, and a copy of     *)
(* what its stdio holds: the prompt in stdout, which counts as one unit,    *)
(* and the rest of the script in stdin.                                     *)
PipeFork ==
  /\ ppc = "pipe"
  /\ i < size
  /\ OpenFds + 2 <= OpenMax
  /\ i' = i + 1
  /\ held' = held \union ({i'} \X {"r", "w"})
  /\ cpc' = Append(cpc, "forked")
  /\ cheld' = Append(cheld, held')
  /\ have' = Append(have, IF Line[i'] \in {"gen", "bad"} THEN 1 ELSE 0)
  /\ chan' = Append(chan, 0)
  /\ wrote' = Append(wrote, 0)
  /\ ppc' = "close"
  /\ UNCHANGED <<script, start, next, end, leaked, ran, offset>>

(* exit gives back what stdin has buffered and not used: it moves the       *)
(* shared offset back by as much as that, from wherever it is.  lseek does  *)
(* not go before the start.                                                 *)
unread == end - next
GivenBack == IF unread <= offset THEN offset - unread ELSE offset

(* pipe fails: the shell exits.  What runs already is left alone, but for   *)
(* the offset of the script, which a first command may still be reading.    *)
PipeFails ==
  /\ ppc = "pipe"
  /\ i < size
  /\ OpenFds + 2 > OpenMax
  /\ ppc' = "failed"
  /\ held' = {}
  /\ offset' = GivenBack
  /\ UNCHANGED <<script, start, next, end, i, leaked, ran, cpc, cheld, have, chan, wrote>>

(* Mutant: the read end of the pipe before stays open.                      *)
ClosedWrite == {<<i, "w">>}

(* close(fd[1]), and close(fd_in) but for the first command.                *)
Closed == {<<i, "w">>, <<i - 1, "r">>}

ParentClose ==
  /\ ppc = "close"
  /\ held' = held \ Closed
  /\ ppc' = "pipe"
  /\ UNCHANGED <<script, start, next, end, i, leaked, ran, offset, cpc, cheld, have,
                 chan, wrote>>

(* Mutant: the shell waits for one child.                                   *)
WaitStartOne ==
  /\ ppc = "pipe"
  /\ i = size
  /\ ppc' = "wait"
  /\ i' = 1
  /\ UNCHANGED <<script, start, next, end, held, leaked, ran, offset, cpc, cheld,
                 have, chan, wrote>>

WaitStart ==
  /\ ppc = "pipe"
  /\ i = size
  /\ ppc' = "wait"
  /\ UNCHANGED <<script, start, next, end, i, held, leaked, ran, offset, cpc, cheld,
                 have, chan, wrote>>

(* wait takes any child that has ended.                                     *)
Wait ==
  /\ ppc = "wait"
  /\ i > 0
  /\ \E c \in Children :
       cpc[c] = "zombie" /\ cpc' = [cpc EXCEPT ![c] = "reaped"]
  /\ i' = i - 1
  /\ UNCHANGED <<script, start, next, end, ppc, held, leaked, ran, offset, cheld,
                 have, chan, wrote>>

(* Back to the prompt; the read end of the last pipe is closed by nobody.   *)
WaitEnd ==
  /\ ppc = "wait"
  /\ i = 0
  /\ ppc' = "scan"
  /\ leaked' = leaked + Cardinality(held)
  /\ held' = {}
  /\ UNCHANGED <<script, start, next, end, i, ran, offset, cpc, cheld, have, chan, wrote>>

(***************************************************************************)
(* The children.                                                           *)
(***************************************************************************)
Ends(c) ==
  /\ cpc' = [cpc EXCEPT ![c] = "zombie"]
  /\ cheld' = [cheld EXCEPT ![c] = {}]

(* Mutant: the child keeps the read end of its own pipe.                    *)
ClosedByNobody(c) == {}

(* dup2 of fd_in and fd[1] makes copies; close(fd[0]).                      *)
ClosedByChild(c) == {<<c, "r">>}

(* execvp starts the program; if there is none the child goes on to exit.   *)
Exec(c) ==
  /\ cpc[c] = "forked"
  /\ Line[c] # ""
  /\ cpc' = [cpc EXCEPT ![c] = "run"]
  /\ cheld' = [cheld EXCEPT ![c] = @ \ ClosedByChild(c)]
  /\ UNCHANGED <<shell, offset, have, chan, wrote>>

(* execvp(NULL, ...) is a segmentation fault.                               *)
ExecCrashes(c) ==
  /\ cpc[c] = "forked"
  /\ Line[c] = ""
  /\ Ends(c)
  /\ UNCHANGED <<shell, offset, have, chan, wrote>>

Open(pipeend) == pipeend \in held \/ \E c \in DOMAIN cheld : pipeend \in cheld[c]

Reads(c) == cpc[c] = "run" /\ Line[c] \in {"cat", "head"} /\ have[c] = 0

(* The first command reads what is left of the script, the others a pipe.   *)
Read(c) ==
  /\ Reads(c)
  /\ IF c = 1
       THEN /\ offset < Len(script)
            /\ offset' = Len(script)
            /\ UNCHANGED chan
       ELSE /\ chan[c - 1] > 0
            /\ chan' = [chan EXCEPT ![c - 1] = @ - 1]
            /\ UNCHANGED offset
  /\ have' = [have EXCEPT ![c] = 1]
  /\ UNCHANGED <<shell, cpc, cheld, wrote>>

ReadEOF(c) ==
  /\ Reads(c)
  /\ IF c = 1 THEN offset = Len(script)
              ELSE chan[c - 1] = 0 /\ ~ Open(<<c - 1, "w">>)
  /\ Ends(c)
  /\ UNCHANGED <<shell, offset, have, chan, wrote>>

Writes(c) == cpc[c] = "run" /\ (have[c] = 1 \/ Line[c] = "yes")

Sat(n) == IF n < 2 THEN n ELSE 2

(* Mutant: the commands behind the first keep the script as their input.    *)
OffsetAfterAny(c) == IF Line[c] = "bad" THEN GivenBack ELSE offset

(* When the flush has passed, exit of a child gives back its copy of stdin, *)
(* unless dup2 has put a pipe in the place of the script.                   *)
OffsetAfter(c) == IF c = 1 /\ Line[c] = "bad" THEN GivenBack ELSE offset

AfterWrite(c) ==
  /\ wrote' = [wrote EXCEPT ![c] = Sat(@ + 1)]
  /\ have' = [have EXCEPT ![c] = 0]
  /\ offset' = OffsetAfter(c)
  /\ IF Line[c] \in {"gen", "head", "bad"} THEN Ends(c) ELSE UNCHANGED <<cpc, cheld>>

WriteTerminal(c) ==
  /\ Writes(c)
  /\ c = size
  /\ AfterWrite(c)
  /\ UNCHANGED <<shell, chan>>

WritePipe(c) ==
  /\ Writes(c)
  /\ c < size
  /\ Open(<<c, "r">>)
  /\ chan[c] < PipeCap
  /\ chan' = [chan EXCEPT ![c] = @ + 1]
  /\ AfterWrite(c)
  /\ UNCHANGED shell

(* SIGPIPE.                                                                 *)
WriteKilled(c) ==
  /\ Writes(c)
  /\ c < size
  /\ ~ Open(<<c, "r">>)
  /\ Ends(c)
  /\ UNCHANGED <<shell, offset, have, chan, wrote>>

(***************************************************************************)
(* The specification: every process is scheduled again and again.          *)
(***************************************************************************)
Shell ==
  \/ ScanBuffered \/ ScanRead \/ ScanEOF \/ PipeFork \/ PipeFails
  \/ ParentClose \/ WaitStart \/ Wait \/ WaitEnd

Child(c) ==
  \/ Exec(c) \/ ExecCrashes(c) \/ Read(c) \/ ReadEOF(c)
  \/ WriteTerminal(c) \/ WritePipe(c) \/ WriteKilled(c)

Next == Shell \/ \E c \in DOMAIN cpc : Child(c)

Spec == Init /\ [][Next]_vars

FairSpec ==
  /\ Spec
  /\ WF_vars(Shell)
  /\ \A c \in 1 .. MaxSize : WF_vars(c \in DOMAIN cpc /\ Child(c))

(***************************************************************************)
(* Properties.                                                             *)
(***************************************************************************)
PipeEnds == (1 .. size) \X {"r", "w"}

TypeOK ==
  /\ script \in Scripts
  /\ offset \in 0 .. Len(script)
  /\ start \in 0 .. next /\ next \in 0 .. end /\ end \in 0 .. Len(script)
  /\ ppc \in {"scan", "pipe", "close", "wait", "eof", "failed"}
  /\ i \in 0 .. size
  /\ held \subseteq PipeEnds
  /\ leaked \in Nat
  /\ OpenFds <= OpenMax
  /\ cpc \in Seq({"forked", "run", "zombie", "reaped"})
  /\ cheld \in Seq(SUBSET PipeEnds)
  /\ have \in Seq({0, 1})
  /\ chan \in Seq(0 .. PipeCap)
  /\ wrote \in Seq(0 .. 2)
  /\ ran \in Seq([from : 0 .. Len(script), to : 0 .. Len(script)])

(* What run_cmd keeps open: one descriptor for each line run to its end,    *)
(* and never more than three for the line at hand.  So the shell runs       *)
(* OpenMax - 5 lines at least before pipe fails.                            *)
FdsAccounted ==
  /\ TypeOK
  /\ Cardinality(held) <= 3
  /\ ppc = "scan" => leaked = Len(ran)
  /\ ppc = "failed" => Len(ran) - 1 > OpenMax - 6

(* What the line puts on the terminal, given the units of the script that   *)
(* its first command finds there; exit of a child without a program puts    *)
(* the prompt out.                                                          *)
Through(units, program) ==
  CASE program \in {"gen", "bad"} -> 1
    [] program = "yes" -> 2
    [] program = "cat" -> units
    [] program = "head" -> IF units > 1 THEN 1 ELSE units
    [] program = "" -> 0

Output(units) ==
  LET flow[n \in 0 .. size] == IF n = 0 THEN units ELSE Through(flow[n - 1], Line[n])
  IN flow[size]

(* The output of each command goes to the next one, whole: when the shell   *)
(* is back at its prompt, the terminal has got what the pipeline makes, no  *)
(* end of file came early and no unit was lost in a pipe.                   *)
OutputWhole == ppc = "scan" /\ size > 0 => wrote[size] \in {Output(0), Output(1)}

(* The shell runs the script in order, each line from where the one before  *)
(* has ended, and ends behind the last one unless it runs out of            *)
(* descriptors.  It goes back only at the end of what it has buffered, and  *)
(* only because a first command of the lines since it last filled its       *)
(* buffer could not be executed.  If there was one such command it goes on  *)
(* behind the line of that one; if there were more the places given back    *)
(* add up, but it never skips anything.                                     *)
FirstFails(k) == script[ran[k].from + 1].program = "bad"
Follows(k) == k > 1 /\ ran[k].from = ran[k - 1].to

FailedSince(n) ==
  { k \in 1 .. n - 1 : FirstFails(k) /\ \A m \in k + 1 .. n - 1 : Follows(m) }

GoesBack(place, failed) ==
  \E k \in failed :
    /\ place <= ran[k].to
    /\ failed = {k} => place = ran[k].to

InputOrder ==
  /\ \A k \in 1 .. Len(ran) :
       \/ k = 1 /\ ran[k].from = 0
       \/ Follows(k)
       \/ k > 1 /\ ran[k - 1].to = Len(script) /\ GoesBack(ran[k].from, FailedSince(k))
  /\ ppc = "eof" => next = Len(script)

(***************************************************************************)
(* The inductive invariant: which pipe ends the shell has open where, what *)
(* the lines before have cost it, where the two offsets of the script, its *)
(* own and the shared one, can be, and where the units of a line are.      *)
(***************************************************************************)
ChildrenMade ==
  /\ Len(cpc) <= size
  /\ Len(cheld) = Len(cpc) /\ Len(have) = Len(cpc) /\ Len(chan) = Len(cpc)
  /\ Len(wrote) = Len(cpc)
  /\ ppc \in {"pipe", "close"} => Len(cpc) = i
  /\ ppc = "close" => i >= 1

HeldThere ==
  /\ ppc \in {"scan", "eof", "failed"} => held = {}
  /\ ppc = "pipe" => held = IF i = 0 THEN {} ELSE {<<i, "r">>}
  /\ ppc = "close" => held = {<<i, "r">>, <<i, "w">>} \union
                             (IF i = 1 THEN {} ELSE {<<i - 1, "r">>})
  /\ ppc = "wait" => held = {<<size, "r">>}

LinesRun ==
  /\ ran = << >> => start = 0 /\ next = 0
  /\ ran # << >> => ran[Len(ran)] = [from |-> start, to |-> next] /\ start < next
  /\ ppc \notin {"scan", "eof"} => ran # << >>
  /\ leaked = IF ppc \in {"scan", "eof"} THEN Len(ran) ELSE Len(ran) - 1
  /\ ppc = "failed" => Len(ran) - 1 > OpenMax - 6

HasEnded(c) == cpc[c] \in {"zombie", "reaped"}

(* The lines since the buffer was filled whose first command has failed.    *)
FailedNow ==
  { k \in FailedSince(Len(ran) + 1) :
      k = Len(ran) => 1 \in DOMAIN cpc /\ HasEnded(1) }

Offsets ==
  /\ end \in {0, Len(script)}
  /\ end = 0 => offset = 0
  /\ end > 0 /\ offset < Len(script) /\ ppc # "failed" => GoesBack(offset, FailedNow)

(* What a child holds until it ends: its output, and the pipe before it.    *)
EndsKept ==
  \A c \in DOMAIN cpc : ~ HasEnded(c) =>
    <<c, "w">> \in cheld[c] /\ (c > 1 => <<c - 1, "r">> \in cheld[c])

(* The shell waits for as many children as it has made, and for all of them.*)
ChildrenAwaited ==
  LET unreaped == { c \in DOMAIN cpc : cpc[c] # "reaped" }
  IN /\ ppc \in {"pipe", "close"} => unreaped = DOMAIN cpc
     /\ ppc = "wait" => Len(cpc) = size /\ i = Cardinality(unreaped)
     /\ ppc \in {"scan", "eof"} => Len(cpc) = size /\ unreaped = {}

(* What a program has in hand and has written, at each point of its life.   *)
Taken(c) == IF Line[c] \in {"cat", "head"} THEN have[c] + wrote[c] ELSE 0

ProgramKept(c) ==
  /\ cpc[c] = "forked" =>
       wrote[c] = 0 /\ have[c] = IF Line[c] \in {"gen", "bad"} THEN 1 ELSE 0
  /\ cpc[c] = "run" => Line[c] # ""
  /\ Line[c] = "" => wrote[c] = 0 /\ have[c] = 0
  /\ Line[c] \in {"gen", "bad"} => have[c] + wrote[c] = 1 /\ (cpc[c] = "run" => have[c] = 1)
  /\ Line[c] = "head" => have[c] + wrote[c] <= 1 /\ (cpc[c] = "run" => wrote[c] = 0)
  /\ Line[c] = "yes" => have[c] = 0
  /\ c = 1 /\ ppc # "failed" => Taken(c) <= 1 /\ (Taken(c) = 1 => offset = Len(script))

ProgramsKept == \A c \in DOMAIN cpc : ProgramKept(c)

(* No unit is lost between two programs.                                    *)
UnitsKept ==
  \A c \in DOMAIN cpc : c < size =>
    wrote[c] = Sat(chan[c] + IF c < Len(cpc) THEN Taken(c + 1) ELSE 0)

(* SIGPIPE took a program with its unit, and no other reads its pipe; or it *)
(* has met the end of file, and then the program before had come to an end. *)
Killed(c) == HasEnded(c) /\ (have[c] = 1 \/ Line[c] = "yes")

MetEOF(c) ==
  /\ HasEnded(c)
  /\ have[c] = 0
  /\ Line[c] = "cat" \/ (Line[c] = "head" /\ wrote[c] = 0)

EndsInOrder ==
  \A c \in DOMAIN cpc :
    /\ Killed(c) =>
         c < size /\ (IF c < Len(cpc) THEN HasEnded(c + 1) ELSE ppc = "failed")
    /\ MetEOF(c) /\ c > 1 => HasEnded(c - 1) /\ ~ Killed(c - 1) /\ chan[c - 1] = 0

LineInv ==
  /\ EndsKept
  /\ ChildrenAwaited
  /\ ProgramsKept
  /\ UnitsKept
  /\ EndsInOrder

IInv ==
  /\ TypeOK
  /\ ChildrenMade
  /\ HeldThere
  /\ LinesRun
  /\ Offsets
  /\ InputOrder

(* README.md, task 1: the programs of a line are run, and the shell gets    *)
(* its next line cyclically.  A line that holds an endless program ends     *)
(* too, provided that a program behind it does not read to the end of file: *)
(* an end of file and SIGPIPE are noticed all along the pipeline.  When the *)
(* shell ends for want of descriptors the children it has made end as well. *)
Endless ==
  \E k \in Children :
    /\ Line[k] = "yes"
    /\ \A m \in (k + 1) .. size : Line[m] = "cat"

ShellReturns ==
  ppc \in {"pipe", "close", "wait"} /\ ~ Endless ~>
    \/ ppc = "scan"
    \/ ppc = "failed" /\ \A c \in DOMAIN cpc : cpc[c] = "zombie"
=============================================================================
