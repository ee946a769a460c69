----------------------------- MODULE MonteCarlo -----------------------------
(***************************************************************************)
(* task4/integral-mk: in each of TEST_NUM rounds the program forks a child *)
(* whose threads generate points and add what they counted to a shared     *)
(* memory segment; the parent waits in Receive until shm[0] says that all  *)
(* threads have reported, reads shm[1], and goes on to the next round with *)
(* the same segment.  It never waits for a child, so the threads of an old *)
(* round may still be at work in a new one.                                *)
(*                                                                         *)
(* pmutex is a process's own: each child has one of its round, the parent  *)
(* uses none.  The build is -O0: an increment is a load and a store.  The  *)
(* counts are any integers, and their sums stay within an int.             *)
(***************************************************************************)
EXTENDS Integers, FiniteSets

CONSTANTS
  Threads,   \* the threads of a child, THREADS_NUM of them
  None,      \* no thread, and no result
  Rounds,    \* TEST_NUM (20 in the source)
  Counts     \* the values s may have when a thread has generated its points

ASSUME ThreadsAssumption == IsFiniteSet(Threads) /\ Threads # {}
ASSUME NoneAssumption == None \notin Threads \union Int
ASSUME RoundsAssumption == Rounds \in Nat \ {0}
ASSUME CountsAssumption == Counts \subseteq Int

VARIABLES
  round,     \* i of main, from 1
  ppc,       \* where the parent is
  shm0,      \* shm[0], how many threads have reported
  shm1,      \* shm[1], the points they counted
  result,    \* shm[1] as Receive read it, per round
  tpc,       \* where the threads of each round's child are
  s,         \* what each thread has counted
  pmutex,    \* the holder of the mutex of each round's child
  reg        \* the value a thread has loaded and not yet stored

vars == <<round, ppc, shm0, shm1, result, tpc, s, pmutex, reg>>

RoundIds == 1 .. Rounds
ParentPC == {"status", "points", "fork", "wait", "read", "done"}
ThreadPC == {"none", "generate", "lock", "load0", "store0", "load1", "store1",
             "unlock", "exit"}

Init ==
  /\ round = 1
  /\ ppc = "status"
  /\ shm0 = 0
  /\ shm1 = 0
  /\ result = [r \in RoundIds |-> None]
  /\ tpc = [r \in RoundIds |-> [t \in Threads |-> "none"]]
  /\ s = [r \in RoundIds |-> [t \in Threads |-> 0]]
  /\ pmutex = [r \in RoundIds |-> None]
  /\ reg = [r \in RoundIds |-> [t \in Threads |-> 0]]

(***************************************************************************)
(* The parent: the body of main's loop and Receive.                        *)
(***************************************************************************)
ParentGoes(from, to) == ppc = from /\ ppc' = to

children == <<s, pmutex, reg>>

(* Mutant: the count of the last round is kept.                             *)
KeepStatus ==
  /\ ParentGoes("status", "points")
  /\ UNCHANGED <<round, shm0, shm1, result, tpc, children>>

ResetStatus ==
  /\ ParentGoes("status", "points")
  /\ shm0' = 0
  /\ UNCHANGED <<round, shm1, result, tpc, children>>

ResetPoints ==
  /\ ParentGoes("points", "fork")
  /\ shm1' = 0
  /\ UNCHANGED <<round, shm0, result, tpc, children>>

(* fork; the child's Send creates its threads one by one, which start when  *)
(* they are scheduled.                                                      *)
Fork ==
  /\ ParentGoes("fork", "wait")
  /\ tpc' = [tpc EXCEPT ![round] = [t \in Threads |-> "generate"]]
  /\ UNCHANGED <<round, shm0, shm1, result, children>>

(* Mutant: one thread too few is waited for.                                *)
AllButOneReported ==
  /\ ParentGoes("wait", "read")
  /\ shm0 >= Cardinality(Threads) - 1
  /\ UNCHANGED <<round, shm0, shm1, result, tpc, children>>

(* Receive's busy wait, without pmutex.                                     *)
AllReported ==
  /\ ParentGoes("wait", "read")
  /\ shm0 = Cardinality(Threads)
  /\ UNCHANGED <<round, shm0, shm1, result, tpc, children>>

ReadPoints ==
  /\ ppc = "read"
  /\ result' = [result EXCEPT ![round] = shm1]
  /\ IF round < Rounds THEN ppc' = "status" /\ round' = round + 1
                       ELSE ppc' = "done" /\ UNCHANGED round
  /\ UNCHANGED <<shm0, shm1, tpc, children>>

(***************************************************************************)
(* GeneratePoints in thread t of the child of round r.                     *)
(***************************************************************************)
ThreadGoes(r, t, from, to) ==
  tpc[r][t] = from /\ tpc' = [tpc EXCEPT ![r][t] = to]

parent == <<round, ppc, result>>

(* s is not initialised in the source: what it held, which may be negative, *)
(* is part of the count.                                                    *)
Generate(r, t) ==
  /\ ThreadGoes(r, t, "generate", "lock")
  /\ \E n \in Counts : s' = [s EXCEPT ![r][t] = n]
  /\ UNCHANGED <<parent, shm0, shm1, pmutex, reg>>

(* Mutant: the critical section without its mutex.                          *)
Enter(r, t) ==
  /\ ThreadGoes(r, t, "lock", "load0")
  /\ UNCHANGED <<parent, shm0, shm1, s, pmutex, reg>>

Lock(r, t) ==
  /\ ThreadGoes(r, t, "lock", "load0")
  /\ pmutex[r] = None
  /\ pmutex' = [pmutex EXCEPT ![r] = t]
  /\ UNCHANGED <<parent, shm0, shm1, s, reg>>

LoadStatus(r, t) ==
  /\ ThreadGoes(r, t, "load0", "store0")
  /\ reg' = [reg EXCEPT ![r][t] = shm0]
  /\ UNCHANGED <<parent, shm0, shm1, s, pmutex>>

StoreStatus(r, t) ==
  /\ ThreadGoes(r, t, "store0", "load1")
  /\ shm0' = reg[r][t] + 1
  /\ UNCHANGED <<parent, shm1, children>>

LoadPoints(r, t) ==
  /\ ThreadGoes(r, t, "load1", "store1")
  /\ reg' = [reg EXCEPT ![r][t] = shm1]
  /\ UNCHANGED <<parent, shm0, shm1, s, pmutex>>

StorePoints(r, t) ==
  /\ ThreadGoes(r, t, "store1", "unlock")
  /\ shm1' = reg[r][t] + s[r][t]
  /\ UNCHANGED <<parent, shm0, children>>

(* Mutant: the mutex is not released.                                       *)
Leave(r, t) ==
  /\ ThreadGoes(r, t, "unlock", "exit")
  /\ UNCHANGED <<parent, shm0, shm1, s, pmutex, reg>>

Unlock(r, t) ==
  /\ ThreadGoes(r, t, "unlock", "exit")
  /\ pmutex' = [pmutex EXCEPT ![r] = None]
  /\ UNCHANGED <<parent, shm0, shm1, s, reg>>

(***************************************************************************)
(* The specification: the parent and every thread that exists are          *)
(* scheduled again and again.                                              *)
(***************************************************************************)
Parent == ResetStatus \/ ResetPoints \/ Fork \/ AllReported \/ ReadPoints

Thread(r, t) ==
  \/ Generate(r, t) \/ Lock(r, t) \/ LoadStatus(r, t) \/ StoreStatus(r, t)
  \/ LoadPoints(r, t) \/ StorePoints(r, t) \/ Unlock(r, t)

Next == Parent \/ \E r \in RoundIds, t \in Threads : Thread(r, t)

Spec == Init /\ [][Next]_vars

FairSpec ==
  /\ Spec
  /\ WF_vars(Parent)
  /\ \A r \in RoundIds, t \in Threads : WF_vars(Thread(r, t))

(***************************************************************************)
(* Properties.                                                             *)
(***************************************************************************)

(* The types of the variables.                                              *)
TypeOK ==
  /\ round \in RoundIds
  /\ ppc \in ParentPC
  /\ shm0 \in 0 .. Cardinality(Threads)
  /\ shm1 \in Int
  /\ result \in [RoundIds -> Int \union {None}]
  /\ tpc \in [RoundIds -> [Threads -> ThreadPC]]
  /\ s \in [RoundIds -> [Threads -> Int]]
  /\ pmutex \in [RoundIds -> Threads \union {None}]
  /\ reg \in [RoundIds -> [Threads -> Int]]

(* The threads of round r that have counted themselves in shm[0], and those *)
(* that have added their points to shm[1].                                  *)
Reported(r) ==
  { t \in Threads : tpc[r][t] \in {"load1", "store1", "unlock", "exit"} }
Added(r) == { t \in Threads : tpc[r][t] \in {"unlock", "exit"} }

(* While Receive waits, shm[0] counts exactly the reports of this round: no *)
(* increment is lost and no late thread of an old round adds one.           *)
StatusExact ==
  /\ ppc = "wait" => shm0 = Cardinality(Reported(round))
  /\ ppc = "read" => Reported(round) = Threads

(* Whatever comes after the wait, at most one thread of the round has yet   *)
(* to add its points: the others released pmutex before it reported.        *)
AtMostOneLate ==
  \A r \in RoundIds :
    r < round \/ (r = round /\ ppc \in {"read", "done"}) =>
      Cardinality(Threads \ Added(r)) <= 1

(* What the threads of T have counted in round r: the points of those whose *)
(* count is positive, less what the others owe.                             *)
Pairs(n, T) == UNION { {t} \X (1 .. n[t]) : t \in T }
Points(r, T) == Pairs(s[r], T)
Owed(r, T) == Pairs([t \in Threads |-> - s[r][t]], T)
Sum(r, T) == Cardinality(Points(r, T)) - Cardinality(Owed(r, T))

(* What Receive reads in the first round is the counts of all threads, but  *)
(* possibly that of one: it does not take the mutex, and a thread counts   *)
(* itself before it adds its points.                                        *)
FirstResultMissesOne ==
  result[1] # None =>
    \E T \in SUBSET Threads :
      Cardinality(Threads \ T) <= 1 /\ result[1] = Sum(1, T)

(***************************************************************************)
(* The inductive invariant: what StatusExact and AtMostOneLate rest on.    *)
(***************************************************************************)
InSection == {"load0", "store0", "load1", "store1", "unlock"}

MutexHeld ==
  \A r \in RoundIds, t \in Threads : pmutex[r] = t <=> tpc[r][t] \in InSection

(* The threads of a round exist from its fork on.                           *)
NotForked ==
  \A r \in RoundIds :
    r > round \/ (r = round /\ ppc \in {"status", "points", "fork"}) =>
      \A t \in Threads : tpc[r][t] = "none"

(* No thread of a round that is over will write shm[0] again.               *)
Passed(r) == r < round \/ (r = round /\ ppc \in {"read", "done"})

PassedReported == \A r \in RoundIds : Passed(r) => Reported(r) = Threads

(* shm[0] from the start of a round to the end of its wait.                 *)
StatusCounts ==
  /\ ppc \in {"points", "fork"} => shm0 = 0
  /\ ppc = "wait" =>
       /\ shm0 = Cardinality(Reported(round))
       /\ \A t \in Threads : tpc[round][t] = "store0" => reg[round][t] = shm0

IInv ==
  /\ TypeOK
  /\ MutexHeld
  /\ NotForked
  /\ PassedReported
  /\ StatusCounts

(* FirstResultMissesOne: in the first round shm[1] counts exactly what the  *)
(* threads of this round have added, for there are no others yet.           *)
FirstSum ==
  /\ FirstResultMissesOne
  /\ round = 1 /\ ppc # "done" => result[1] = None
  /\ round = 1 /\ ppc = "fork" => shm1 = 0
  /\ round = 1 /\ ppc \in {"wait", "read"} =>
       /\ IsFiniteSet(Points(1, Added(1))) /\ IsFiniteSet(Owed(1, Added(1)))
       /\ shm1 = Sum(1, Added(1))
       /\ \A t \in Threads : tpc[1][t] = "store1" => reg[1][t] = shm1

(* Every round ends, and with them the program: the busy wait is answered.  *)
AllRoundsEnd == <>(ppc = "done")
=============================================================================
