------------------------------ MODULE JobPool -------------------------------
(***************************************************************************)
(* What the server of task 7 expects of its thread pool: jobs are taken in *)
(* the order they were added, each by one of Size threads, and every job   *)
(* is run.  Jobs are numbered in the order of the calls that add them.     *)
(***************************************************************************)
EXTENDS Integers, Sequences, FiniteSets

CONSTANT Size   \* the number of threads

VARIABLES
  pending,   \* the jobs added and not taken, oldest first
  running,   \* the jobs taken by a thread and not finished
  finished   \* how many jobs have been run

vars == <<pending, running, finished>>

Init ==
  /\ pending = << >>
  /\ running = {}
  /\ finished = 0

Added == Len(pending) + Cardinality(running) + finished

Submit ==
  /\ pending' = Append(pending, Added + 1)
  /\ UNCHANGED <<running, finished>>

Take ==
  /\ pending # << >>
  /\ Cardinality(running) < Size
  /\ running' = running \union {Head(pending)}
  /\ pending' = Tail(pending)
  /\ UNCHANGED finished

Finish ==
  /\ \E j \in running : running' = running \ {j}
  /\ finished' = finished + 1
  /\ UNCHANGED pending

Next == Submit \/ Take \/ Finish

Spec == Init /\ [][Next]_vars

(* No thread rests for ever beside a job, and no job runs for ever.         *)
FairSpec == Spec /\ WF_vars(Take) /\ WF_vars(Finish)
=============================================================================
