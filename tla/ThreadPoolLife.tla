--------------------------- MODULE ThreadPoolLife ---------------------------
(***************************************************************************)
(* The whole interface of thpool.h: besides adding jobs, the user of the   *)
(* pool waits for it, pauses it, resumes it and destroys it, in any order. *)
(* One thread makes all the calls, as in the examples of the header.       *)
(*                                                                         *)
(* A paused worker sits in the handler thread_hold wherever SIGUSR1 met    *)
(* it, with the locks it has there: rwmutex shows in ThreadPool, the other *)
(* two, whose sections are single steps, in  locked.  The condition of the *)
(* loop of thread_do is read with the step before it.                      *)
(***************************************************************************)
EXTENDS ThreadPool

VARIABLES
  keepalive, \* threads_keepalive
  thcount,   \* the worker that holds thcount_lock to leave, if any
  on_hold,   \* threads_on_hold
  pending,   \* the workers that have SIGUSR1 pending
  paused,    \* the workers in thread_hold
  locked     \* the lock a paused worker was caught with: bsem or thcount

pause == <<on_hold, pending, paused, locked>>
life == <<keepalive, thcount, pause>>
allVars == <<vars, life>>

LifeInit ==
  /\ Init
  /\ keepalive = 1
  /\ thcount = None
  /\ on_hold = 0
  /\ pending = {}
  /\ paused = {}
  /\ locked = [w \in Workers |-> "none"]

Free(lock) ==
  /\ \A w \in Workers : locked[w] # lock
  /\ lock = "thcount" => thcount = None

(***************************************************************************)
(* The user's thread.                                                      *)
(***************************************************************************)
CallAdd ==
  /\ mpc = "serve"
  /\ added < MaxJobs
  /\ mpc' = "add"
  /\ UNCHANGED <<wpc, alive, working, added, queue, rwmutex, v, job, ran, life>>

(* jobqueue_push waits for rwmutex, then for the lock of the semaphore.     *)
AddLink ==
  /\ mpc = "add"
  /\ rwmutex = None
  /\ mpc' = "push"
  /\ rwmutex' = Main
  /\ added' = added + 1
  /\ queue' = Append(queue, added')
  /\ UNCHANGED <<wpc, alive, working, v, job, ran, life>>

AddPost == Free("bsem") /\ PushPost /\ UNCHANGED life

CallWait ==
  /\ mpc = "serve"
  /\ mpc' = "wait"
  /\ UNCHANGED <<wpc, alive, working, added, queue, rwmutex, v, job, ran, life>>

(* Mutant: thpool_wait does not ask for the workers.                        *)
WaitTestsQueue ==
  /\ mpc = "wait"
  /\ Free("thcount")
  /\ mpc' = IF queue = << >> THEN "serve" ELSE "waiting"
  /\ UNCHANGED <<wpc, alive, working, added, queue, rwmutex, v, job, ran, life>>

(* The condition of thpool_wait; it sleeps on threads_all_idle.             *)
WaitTests ==
  /\ mpc = "wait"
  /\ Free("thcount")
  /\ mpc' = IF queue = << >> /\ working = 0 THEN "serve" ELSE "waiting"
  /\ UNCHANGED <<wpc, alive, working, added, queue, rwmutex, v, job, ran, life>>

WaitWakesSpuriously ==
  /\ mpc = "waiting"
  /\ mpc' = "wait"
  /\ UNCHANGED <<wpc, alive, working, added, queue, rwmutex, v, job, ran, life>>

(* thpool_pause: a signal to every thread that is alive.                    *)
Pause ==
  /\ mpc = "serve"
  /\ pending' = { w \in Workers : wpc[w] # "gone" }
  /\ UNCHANGED <<vars, keepalive, thcount, on_hold, paused, locked>>

Resume ==
  /\ mpc = "serve"
  /\ on_hold' = 0
  /\ UNCHANGED <<vars, keepalive, thcount, pending, paused, locked>>

Destroy ==
  /\ mpc = "serve"
  /\ mpc' = "destroy"
  /\ keepalive' = 0
  /\ UNCHANGED <<wpc, alive, working, added, queue, rwmutex, v, job, ran,
                 thcount, pause>>

(* Both loops of thpool_destroy: bsem_post_all while threads are alive.     *)
PostAll ==
  /\ mpc = "destroy"
  /\ alive # 0
  /\ Free("bsem")
  /\ v' = 1
  /\ wpc' = [w \in Workers |-> IF wpc[w] = "asleep" THEN "wait" ELSE wpc[w]]
  /\ UNCHANGED <<mpc, alive, working, added, queue, rwmutex, job, ran, life>>

(* Mutant: the pool is freed after the first second.                        *)
FreeAfterTimeout ==
  /\ mpc = "destroy"
  /\ mpc' = "destroyed"
  /\ queue' = << >>
  /\ v' = 0
  /\ UNCHANGED <<wpc, alive, working, added, rwmutex, job, ran, life>>

(* jobqueue_destroy frees the jobs that are left, then the pool is freed.   *)
FreePool ==
  /\ mpc = "destroy"
  /\ alive = 0
  /\ mpc' = "destroyed"
  /\ queue' = << >>
  /\ v' = 0
  /\ UNCHANGED <<wpc, alive, working, added, rwmutex, job, ran, life>>

(***************************************************************************)
(* Worker w.                                                               *)
(***************************************************************************)

(* bsem_wait, and the rest of the loop while the pool is kept alive.        *)
Loop(w) ==
  /\ \/ Free("thcount") /\ Start(w)
     \/ Free("bsem") /\ (TakeToken(w) \/ Sleep(w))
     \/ Free("thcount") /\ keepalive = 1 /\ StartWork(w)
     \/ PullUnlink(w)
     \/ Free("bsem") /\ PullPost(w)
     \/ Run(w)
  /\ UNCHANGED life

(* A woken worker leaves the job to the others when the pool is destroyed.  *)
SkipWork(w) ==
  /\ WorkerGoes(w, "token", "exit")
  /\ keepalive = 0
  /\ UNCHANGED <<mpc, alive, working, added, queue, rwmutex, v, job, ran, life>>

(* Mutant: the worker that leaves the loop does not signal.                 *)
FinishSilently(w) ==
  /\ Free("thcount")
  /\ WorkerGoes(w, "leave", IF keepalive = 1 THEN "wait" ELSE "exit")
  /\ working' = working - 1
  /\ UNCHANGED <<mpc, alive, added, queue, rwmutex, v, job, ran, life>>

(* The last worker at work wakes thpool_wait.                               *)
Finish(w) ==
  /\ Free("thcount")
  /\ WorkerGoes(w, "leave", IF keepalive = 1 THEN "wait" ELSE "exit")
  /\ working' = working - 1
  /\ mpc' = IF working' = 0 /\ mpc = "waiting" THEN "wait" ELSE mpc
  /\ UNCHANGED <<alive, added, queue, rwmutex, v, job, ran, life>>

(* num_threads_alive goes down before thcount_lock is released.             *)
ExitCount(w) ==
  /\ Free("thcount")
  /\ WorkerGoes(w, "exit", "unlock")
  /\ alive' = alive - 1
  /\ thcount' = w
  /\ UNCHANGED <<mpc, working, added, queue, rwmutex, v, job, ran, keepalive, pause>>

ExitUnlock(w) ==
  /\ WorkerGoes(w, "unlock", "gone")
  /\ thcount' = None
  /\ UNCHANGED <<mpc, alive, working, added, queue, rwmutex, v, job, ran,
                 keepalive, pause>>

(* The locks whose section begins or ends where a worker is.                *)
LocksAt(where) ==
  { lock \in {"bsem", "thcount"} :
      where \in IF lock = "bsem" THEN {"wait", "token", "pulled"}
                ELSE {"wait", "token", "pull", "leave", "exit"} }

(* The handler starts; SIGUSR1 is blocked until it returns.                 *)
Hold(w) ==
  /\ w \in pending \ paused
  /\ wpc[w] # "gone"
  /\ pending' = pending \ {w}
  /\ paused' = paused \union {w}
  /\ on_hold' = 1
  /\ \E lock \in {"none"} \union { l \in LocksAt(wpc[w]) : Free(l) } :
       locked' = [locked EXCEPT ![w] = lock]
  /\ UNCHANGED <<vars, keepalive, thcount>>

(* The handler sees threads_on_hold cleared and returns.                    *)
Unhold(w) ==
  /\ w \in paused
  /\ on_hold = 0
  /\ paused' = paused \ {w}
  /\ locked' = [locked EXCEPT ![w] = "none"]
  /\ UNCHANGED <<vars, keepalive, thcount, on_hold, pending>>

(***************************************************************************)
(* The specification.  A call that has begun goes on; nothing says that    *)
(* the user makes a call or that a signal is delivered.                    *)
(***************************************************************************)
Calls == CallAdd \/ CallWait \/ Pause \/ Resume \/ Destroy

Goes ==
  \/ InitDone /\ UNCHANGED life
  \/ AddLink \/ AddPost \/ WaitTests \/ PostAll \/ FreePool

Steps(w) ==
  /\ w \notin paused
  /\ Loop(w) \/ SkipWork(w) \/ Finish(w) \/ ExitCount(w) \/ ExitUnlock(w)

Wakes(w) == WakeSpuriously(w) /\ UNCHANGED life

LifeNext ==
  \/ Calls \/ Goes \/ WaitWakesSpuriously
  \/ \E w \in Workers : Steps(w) \/ Wakes(w) \/ Hold(w) \/ Unhold(w)

LifeSpec ==
  /\ LifeInit /\ [][LifeNext]_allVars
  /\ WF_allVars(Goes)
  /\ \A w \in Workers : WF_allVars(Steps(w)) /\ WF_allVars(Unhold(w))

(***************************************************************************)
(* Properties.                                                             *)
(***************************************************************************)
LifeTypeOK ==
  /\ mpc \in MainPC \union {"add", "wait", "waiting", "destroy", "destroyed"}
  /\ wpc \in [Workers -> WorkerPC \union {"exit", "unlock", "gone"}]
  /\ alive \in 0 .. Cardinality(Workers)
  /\ working \in 0 .. Cardinality(Workers)
  /\ queue \in Seq(JobIds)
  /\ keepalive \in {0, 1}
  /\ thcount \in Workers \union {None}
  /\ on_hold \in {0, 1}
  /\ pending \subseteq Workers /\ paused \subseteq Workers
  /\ locked \in [Workers -> {"none", "bsem", "thcount"}]

(* What thpool_destroy leaves: nobody touches the freed pool but for one    *)
(* worker that has still to release thcount_lock (thpool.c:380 counts it    *)
(* out before), and the jobs that were taken have been run to their end,    *)
(* the others, the latest ones, not at all.                                 *)
DestroyedClean ==
  /\ LifeTypeOK
  /\ mpc = "destroyed" =>
       /\ \A w \in Workers : wpc[w] = "gone" \/ <<wpc[w], thcount>> = <<"unlock", w>>
       /\ rwmutex = None
       /\ \E last \in 0 .. added :
            \A j \in 1 .. added : ran[j] = IF j <= last THEN 1 ELSE 0

(* thpool.h of thpool_wait: "Will wait for all jobs - both queued and       *)
(* currently running to finish", whoever is paused or woken meanwhile.      *)
WaitMeansDone ==
  [][mpc = "wait" /\ mpc' = "serve" => \A j \in 1 .. added : ran[j] = 1]_allVars

(***************************************************************************)
(* The inductive invariant behind both: the two counters count what the    *)
(* program counters say, a lock has the holder they say, and workers leave *)
(* only a pool that is being destroyed.                                    *)
(***************************************************************************)
JobTypes ==
  /\ added \in 0 .. MaxJobs
  /\ queue \in Seq(JobIds)
  /\ job \in [Workers -> JobIds \union {None}]
  /\ ran \in [JobIds -> Nat]

LockTypes == v \in {0, 1} /\ rwmutex \in Workers \union {Main, None}

AddBounded == mpc = "add" => added < MaxJobs

Alive == { w \in Workers : wpc[w] \notin {"start", "unlock", "gone"} }

AliveCounted ==
  /\ alive = Cardinality(Alive)
  /\ mpc # "init" => \A w \in Workers : wpc[w] # "start"

LeaveLocked == \A w \in Workers : thcount = w <=> wpc[w] = "unlock"

LeaveDestroyed ==
  /\ keepalive = 0 <=> mpc \in {"destroy", "destroyed"}
  /\ \A w \in Workers : wpc[w] \in {"exit", "unlock", "gone"} => keepalive = 0

(* The bookkeeping of the jobs, until the queue is freed.                   *)
JobsKept ==
  /\ mpc # "destroyed" => JobsAccounted
  /\ mpc = "destroyed" =>
       /\ alive = 0
       /\ \E last \in 0 .. added :
            \A j \in 1 .. added : ran[j] = IF j <= last THEN 1 ELSE 0

LifeInv ==
  /\ LifeTypeOK /\ JobTypes /\ LockTypes /\ AddBounded
  /\ WorkersCounted
  /\ AliveCounted
  /\ LockHeld
  /\ JobsHeld
  /\ LeaveLocked
  /\ LeaveDestroyed
  /\ JobsKept

(* Calls come to an end and resumed workers go on: adding a job, unless a   *)
(* worker has been paused with one of the locks it takes; waiting and       *)
(* destroying, unless a worker is paused, for then the call waits for it;   *)
(* and resuming, when no signal of the pause is still to come.              *)
CallsReturn ==
  /\ mpc \in {"add", "push"} ~> mpc = "serve" \/ rwmutex \in paused \/ ~ Free("bsem")
  /\ mpc \in {"wait", "waiting", "destroy"} ~>
       mpc \in {"serve", "destroyed"} \/ paused # {}
  /\ on_hold = 0 /\ pending = {} ~> paused = {} \/ pending # {}
=============================================================================
