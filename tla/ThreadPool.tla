----------------------------- MODULE ThreadPool -----------------------------
(***************************************************************************)
(* task7/multiplex-io/server/src/thpool.c as the server uses it: main()    *)
(* creates the pool and keeps adding jobs to it, the worker threads take   *)
(* them from a queue.  The queue is guarded by rwmutex; has_jobs, a binary *)
(* semaphore made of a flag v and a condition variable, says that it may   *)
(* hold a job.  The calls the server never makes (waiting for the pool,    *)
(* pausing and destroying it) are added by ThreadPoolLife.                 *)
(*                                                                         *)
(* The critical sections of bsem.mutex and thcount_lock are one step each; *)
(* rwmutex, under which the semaphore is posted, has an explicit holder.   *)
(* A job stands for its number in the order of the calls that add it.      *)
(***************************************************************************)
EXTENDS Integers, Sequences, FiniteSets

CONSTANTS
  Workers,   \* the threads of the pool
  Main,      \* the thread that adds jobs
  None,      \* nobody, and no job
  MaxJobs    \* bound: the jobs the server adds in a behaviour

ASSUME WorkersAssumption == IsFiniteSet(Workers) /\ Workers # {}
ASSUME MainAssumption == Main \notin Workers
ASSUME NoneAssumption == None \notin Workers \union {Main} \union Nat
ASSUME MaxJobsAssumption == MaxJobs \in Nat

VARIABLES
  mpc,       \* where main() is
  wpc,       \* where each worker is
  alive,     \* num_threads_alive
  working,   \* num_threads_working
  added,     \* the number of jobs pushed so far
  queue,     \* the jobs from front to rear
  rwmutex,   \* the holder of rwmutex
  v,         \* has_jobs->v
  job,       \* job_p of each worker
  ran        \* how often each job's function has been called

vars == <<mpc, wpc, alive, working, added, queue, rwmutex, v, job, ran>>

MainPC == {"init", "serve", "push"}
WorkerPC == {"start", "wait", "asleep", "token", "pull", "pulled", "run", "leave"}
JobIds == 1 .. MaxJobs

(* jobqueue_init and bsem_init(has_jobs, 0), then the threads are created.  *)
Init ==
  /\ mpc = "init"
  /\ wpc = [w \in Workers |-> "start"]
  /\ alive = 0
  /\ working = 0
  /\ added = 0
  /\ queue = << >>
  /\ rwmutex = None
  /\ v = 0
  /\ job = [w \in Workers |-> None]
  /\ ran = [j \in JobIds |-> 0]

WorkerGoes(w, from, to) == wpc[w] = from /\ wpc' = [wpc EXCEPT ![w] = to]

(***************************************************************************)
(* bsem_post sets the flag and wakes one of the threads that sleep on the  *)
(* condition, if any; the woken thread looks at the flag again.  others is *)
(* wpc as the caller's own step leaves it.                                 *)
(***************************************************************************)
Asleep == { w \in Workers : wpc[w] = "asleep" }

(* Mutant: the flag is set and nobody is signalled.                         *)
bsem_set(others) == v' = 1 /\ wpc' = others

bsem_post(others) ==
  /\ v' = 1
  /\ IF Asleep = {} THEN wpc' = others
     ELSE \E w \in Asleep : wpc' = [others EXCEPT ![w] = "wait"]

(***************************************************************************)
(* main(): thpool_init, then thpool_add_work for each event.               *)
(***************************************************************************)

(* The busy wait of thpool_init.                                            *)
InitDone ==
  /\ mpc = "init"
  /\ alive = Cardinality(Workers)
  /\ mpc' = "serve"
  /\ UNCHANGED <<wpc, alive, working, added, queue, rwmutex, v, job, ran>>

(* jobqueue_push: the lock is taken and the job linked behind the rear.     *)
PushLink ==
  /\ mpc = "serve"
  /\ added < MaxJobs
  /\ rwmutex = None
  /\ mpc' = "push"
  /\ rwmutex' = Main
  /\ added' = added + 1
  /\ queue' = Append(queue, added')
  /\ UNCHANGED <<wpc, alive, working, v, job, ran>>

(* The post that jobqueue_push ends with, and the release of the lock.      *)
PushPost ==
  /\ mpc = "push"
  /\ mpc' = "serve"
  /\ bsem_post(wpc)
  /\ rwmutex' = None
  /\ UNCHANGED <<alive, working, added, queue, job, ran>>

(***************************************************************************)
(* thread_do of worker w.                                                  *)
(***************************************************************************)
Start(w) ==
  /\ WorkerGoes(w, "start", "wait")
  /\ alive' = alive + 1
  /\ UNCHANGED <<mpc, working, added, queue, rwmutex, v, job, ran>>

(* bsem_wait with the flag set takes it.                                    *)
TakeToken(w) ==
  /\ WorkerGoes(w, "wait", "token")
  /\ v = 1
  /\ v' = 0
  /\ UNCHANGED <<mpc, alive, working, added, queue, rwmutex, job, ran>>

(* bsem_wait with the flag clear sleeps on the condition variable.          *)
Sleep(w) ==
  /\ WorkerGoes(w, "wait", "asleep")
  /\ v # 1
  /\ UNCHANGED <<mpc, alive, working, added, queue, rwmutex, v, job, ran>>

(* pthread_cond_wait may return without a signal.                           *)
WakeSpuriously(w) ==
  /\ WorkerGoes(w, "asleep", "wait")
  /\ UNCHANGED <<mpc, alive, working, added, queue, rwmutex, v, job, ran>>

(* Mutant: the worker does not count itself.                                *)
StartUncounted(w) ==
  /\ WorkerGoes(w, "token", "pull")
  /\ UNCHANGED <<mpc, alive, working, added, queue, rwmutex, v, job, ran>>

StartWork(w) ==
  /\ WorkerGoes(w, "token", "pull")
  /\ working' = working + 1
  /\ UNCHANGED <<mpc, alive, added, queue, rwmutex, v, job, ran>>

(* Mutant: the last job stays linked.                                       *)
PullKeepsLast(w) ==
  /\ WorkerGoes(w, "pull", "pulled")
  /\ rwmutex = None
  /\ rwmutex' = w
  /\ job' = [job EXCEPT ![w] = IF queue = << >> THEN None ELSE Head(queue)]
  /\ queue' = IF Len(queue) > 1 THEN Tail(queue) ELSE queue
  /\ UNCHANGED <<mpc, alive, working, added, v, ran>>

(* jobqueue_pull: the lock is taken and the front unlinked; another worker  *)
(* may have emptied the queue since this one took the flag.                 *)
PullUnlink(w) ==
  /\ WorkerGoes(w, "pull", "pulled")
  /\ rwmutex = None
  /\ rwmutex' = w
  /\ IF queue = << >>
       THEN UNCHANGED <<queue, job>>
       ELSE /\ job' = [job EXCEPT ![w] = Head(queue)]
            /\ queue' = Tail(queue)
  /\ UNCHANGED <<mpc, alive, working, added, v, ran>>

(* Mutant: the jobs left behind are not posted.                             *)
PullSilently(w) ==
  /\ WorkerGoes(w, "pulled", IF job[w] = None THEN "leave" ELSE "run")
  /\ rwmutex' = None
  /\ UNCHANGED <<mpc, alive, working, added, queue, v, job, ran>>

(* jobqueue_pull posts when it leaves a job behind, and unlocks; without a  *)
(* job the worker has nothing to run.                                       *)
PullPost(w) ==
  LET here == [wpc EXCEPT ![w] = IF job[w] = None THEN "leave" ELSE "run"]
  IN
  /\ wpc[w] = "pulled"
  /\ IF queue # << >> THEN bsem_post(here) ELSE wpc' = here /\ UNCHANGED v
  /\ rwmutex' = None
  /\ UNCHANGED <<mpc, alive, working, added, queue, job, ran>>

(* func_buff(arg_buff) returns and the job is freed.                        *)
Run(w) ==
  /\ WorkerGoes(w, "run", "leave")
  /\ ran' = [ran EXCEPT ![job[w]] = @ + 1]
  /\ job' = [job EXCEPT ![w] = None]
  /\ UNCHANGED <<mpc, alive, working, added, queue, rwmutex, v>>

EndWork(w) ==
  /\ WorkerGoes(w, "leave", "wait")
  /\ working' = working - 1
  /\ UNCHANGED <<mpc, alive, added, queue, rwmutex, v, job, ran>>

(***************************************************************************)
(* The specification.  Every thread is scheduled again and again and every *)
(* job's function returns; nothing says that a further job is added or     *)
(* that a sleeping thread is woken without a signal.                       *)
(***************************************************************************)
Worker(w) ==
  \/ Start(w) \/ TakeToken(w) \/ Sleep(w) \/ StartWork(w) \/ PullUnlink(w)
  \/ PullPost(w) \/ Run(w) \/ EndWork(w)

Next ==
  \/ InitDone
  \/ PushLink
  \/ PushPost
  \/ \E w \in Workers : Worker(w) \/ WakeSpuriously(w)

Spec == Init /\ [][Next]_vars

FairSpec ==
  /\ Spec
  /\ WF_vars(InitDone)
  /\ WF_vars(PushPost)
  /\ \A w \in Workers : WF_vars(Worker(w))

(***************************************************************************)
(* Properties.                                                             *)
(***************************************************************************)

(* The types of the variables; num_threads_working never goes below zero    *)
(* and rwmutex is held by exactly the thread between its lock and unlock.   *)
TypeOK ==
  /\ mpc \in MainPC
  /\ wpc \in [Workers -> WorkerPC]
  /\ alive \in Nat
  /\ working \in Nat
  /\ added \in 0 .. MaxJobs
  /\ queue \in Seq(JobIds)
  /\ rwmutex \in Workers \union {Main, None}
  /\ v \in {0, 1}
  /\ job \in [Workers -> JobIds \union {None}]
  /\ ran \in [JobIds -> Nat]

(* While the queue holds a job and nobody is changing it, a wakeup is not   *)
(* lost: the flag is set and a worker is awake to see it, or a worker that  *)
(* took the flag has yet to look at the queue (bsem_post, jobqueue_pull).   *)
NoLostWakeup ==
  queue # << >> /\ rwmutex = None =>
    \/ v = 1 /\ \E w \in Workers : wpc[w] # "asleep"
    \/ \E w \in Workers : wpc[w] \in {"token", "pull"}

(* Exactly once and in order: the queue holds the latest jobs, oldest in    *)
(* front, and each job that has left it is in the hands of one worker or    *)
(* has been run once (jobqueue_push, jobqueue_pull, thread_do).             *)
Holders(j) == { w \in Workers : job[w] = j }

JobsAccounted ==
  /\ Len(queue) <= added
  /\ \A i \in 1 .. Len(queue) : queue[i] = added - Len(queue) + i
  /\ \A j \in 1 .. (added - Len(queue)) :
       \/ ran[j] = 0 /\ \E w \in Workers : Holders(j) = {w}
       \/ ran[j] = 1 /\ Holders(j) = {}
  /\ \A j \in JobIds : j > added - Len(queue) => ran[j] = 0 /\ Holders(j) = {}

(* What the pool's users may conclude from the two numbers that thpool_wait *)
(* tests: an empty queue and no working thread mean that every job is done, *)
(* for a worker counts itself before it takes the job out of the queue.     *)
IdleMeansDone ==
  queue = << >> /\ working = 0 => \A j \in 1 .. added : ran[j] = 1

(* The pool implements the abstract one, its fairness included: every job   *)
(* is taken in order and run.                                               *)
Pool == INSTANCE JobPool WITH
          Size <- Cardinality(Workers),
          pending <- queue,
          running <- { job[w] : w \in Workers } \ {None},
          finished <- Cardinality({ j \in JobIds : ran[j] > 0 })

PoolSpec == Pool!FairSpec

(***************************************************************************)
(* The inductive invariant: the parts that NoLostWakeup and IdleMeansDone  *)
(* rest on.                                                                *)
(***************************************************************************)
InWork == { w \in Workers : wpc[w] \in {"pull", "pulled", "run", "leave"} }

WorkersCounted == working = Cardinality(InWork)

LockHeld ==
  /\ rwmutex = Main <=> mpc = "push"
  /\ \A w \in Workers : rwmutex = w <=> wpc[w] = "pulled"

JobsHeld ==
  \A w \in Workers :
    /\ wpc[w] = "run" => job[w] # None
    /\ wpc[w] \notin {"pulled", "run"} => job[w] = None

FlagSeen == v = 1 => \E w \in Workers : wpc[w] # "asleep"

IInv ==
  /\ TypeOK
  /\ WorkersCounted
  /\ LockHeld
  /\ JobsHeld
  /\ JobsAccounted
  /\ FlagSeen
  /\ NoLostWakeup
=============================================================================
