-------------------------- MODULE ThreadPoolProofs --------------------------
(***************************************************************************)
(* Proofs about ThreadPool, and, in the last part, about ThreadPoolLife,   *)
(* for any number of workers and jobs.                                     *)
(***************************************************************************)
EXTENDS ThreadPoolLife, FiniteSetTheorems, TLAPS

(* What a post does to the semaphore and to the threads: the flag is set,   *)
(* at most sleeping threads are moved, and somebody is awake to see it.     *)
(* PC are the places where a worker can be.                                 *)
LEMMA PostWakes ==
  ASSUME NEW PC, "wait" \in PC,
         wpc \in [Workers -> PC],
         NEW others \in [Workers -> PC],
         \A w \in Workers : others[w] = "asleep" <=> wpc[w] = "asleep",
         bsem_post(others)
  PROVE  /\ v' = 1
         /\ wpc' \in [Workers -> PC]
         /\ \A w \in Workers :
              wpc'[w] = others[w] \/ (wpc[w] = "asleep" /\ wpc'[w] = "wait")
         /\ \E w \in Workers : wpc'[w] # "asleep"
<1>1. v' = 1
  BY DEF bsem_post
<1>2. CASE Asleep = {}
  <2>1. wpc' = others
    BY <1>2 DEF bsem_post
  <2>2. PICK w \in Workers : TRUE
    BY WorkersAssumption
  <2>3. wpc[w] # "asleep"
    BY <1>2 DEF Asleep
  <2>4. QED
    BY <1>1, <2>1, <2>2, <2>3
<1>3. CASE Asleep # {}
  <2>1. PICK w \in Asleep : wpc' = [others EXCEPT ![w] = "wait"]
    BY <1>3 DEF bsem_post
  <2>2. w \in Workers /\ wpc[w] = "asleep"
    BY DEF Asleep
  <2>3. QED
    BY <1>1, <2>1, <2>2
<1>4. QED
  BY <1>2, <1>3

(* The threads between the two updates of num_threads_working.              *)
LEMMA InWorkFinite ==
  /\ IsFiniteSet(InWork)
  /\ Cardinality(InWork) \in Nat
<1>1. InWork \subseteq Workers
  BY DEF InWork
<1>2. QED
  BY <1>1, WorkersAssumption, FS_Subset, FS_CardinalityType

LEMMA InitIInv == Init => IInv
<1> SUFFICES ASSUME Init PROVE IInv
  OBVIOUS
<1>1. TypeOK
  BY MaxJobsAssumption DEF Init, TypeOK, MainPC, WorkerPC, JobIds
<1>2. WorkersCounted
  <2>1. InWork = {}
    BY DEF Init, InWork
  <2>2. QED
    BY <2>1, FS_EmptySet DEF Init, WorkersCounted
<1>3. LockHeld
  BY NoneAssumption DEF Init, LockHeld
<1>4. JobsHeld
  BY DEF Init, JobsHeld
<1>5. JobsAccounted
  BY NoneAssumption, MaxJobsAssumption
     DEF Init, JobsAccounted, JobIds, Holders
<1>6. NoLostWakeup /\ FlagSeen
  BY DEF Init, NoLostWakeup, FlagSeen
<1>7. QED
  BY <1>1, <1>2, <1>3, <1>4, <1>5, <1>6 DEF IInv

LEMMA PlacesKnown ==
  /\ "wait" \in WorkerPC
  /\ {"wait", "run", "leave"} \subseteq WorkerPC
BY DEF WorkerPC

(* What jobqueue_push's post does to the threads and to the flag.           *)
LEMMA PushPostWakes ==
  ASSUME NEW PC, "wait" \in PC, wpc \in [Workers -> PC], PushPost
  PROVE  /\ v' = 1
         /\ wpc' \in [Workers -> PC]
         /\ \A w \in Workers :
              wpc'[w] = wpc[w] \/ (wpc[w] = "asleep" /\ wpc'[w] = "wait")
         /\ \E w \in Workers : wpc'[w] # "asleep"
<1> DEFINE here == wpc
<1>1. here = wpc /\ here \in [Workers -> PC] /\ bsem_post(here)
  BY DEF PushPost
<1> HIDE DEF here
<1>2. \A w \in Workers : here[w] = "asleep" <=> wpc[w] = "asleep"
  BY <1>1
<1>3. QED
  BY <1>1, <1>2, PostWakes

(* What jobqueue_pull's second half does to the threads and to the flag.    *)
LEMMA PullPostMoves ==
  ASSUME NEW PC, {"wait", "run", "leave"} \subseteq PC,
         wpc \in [Workers -> PC], v \in {0, 1},
         NEW w \in Workers, PullPost(w)
  PROVE  /\ wpc[w] = "pulled"
         /\ wpc'[w] = IF job[w] = None THEN "leave" ELSE "run"
         /\ wpc' \in [Workers -> PC]
         /\ v' \in {0, 1}
         /\ \A u \in Workers \ {w} :
              wpc'[u] = wpc[u] \/ (wpc[u] = "asleep" /\ wpc'[u] = "wait")
         /\ queue # << >> => v' = 1
         /\ queue = << >> => v' = v
<1> DEFINE here == [wpc EXCEPT ![w] = IF job[w] = None THEN "leave" ELSE "run"]
<1>1. wpc[w] = "pulled" /\ here \in [Workers -> PC]
  BY DEF PullPost
<1>2. \A u \in Workers : here[u] = "asleep" <=> wpc[u] = "asleep"
  BY <1>1
<1>3. CASE queue # << >>
  <2>1. bsem_post(here)
    BY <1>3 DEF PullPost
  <2> HIDE DEF here
<2>2. /\ v' = 1 /\ wpc' \in [Workers -> PC]
        /\ \A u \in Workers :
             wpc'[u] = here[u] \/ (wpc[u] = "asleep" /\ wpc'[u] = "wait")
    BY <1>1, <1>2, <2>1, PostWakes
  <2>3. QED
    BY <1>1, <1>3, <2>2 DEF here
<1>4. CASE queue = << >>
  BY <1>1, <1>4 DEF PullPost
<1>5. QED
  BY <1>3, <1>4

(* num_threads_working counts the threads at work; it is positive when one  *)
(* of them takes itself off.                                                *)
LEMMA CountedStep ==
  ASSUME IInv, Next
  PROVE  /\ WorkersCounted'
         /\ working' \in Nat
<1>1. /\ wpc \in [Workers -> WorkerPC] /\ v \in {0, 1}
      /\ working = Cardinality(InWork) /\ working \in Nat
  BY DEF IInv, TypeOK, WorkersCounted
<1>2. ASSUME InWork' = InWork, working' = working
      PROVE  WorkersCounted' /\ working' \in Nat
  BY <1>1, <1>2 DEF WorkersCounted
<1>3. CASE InitDone \/ PushLink
  BY <1>2, <1>3 DEF InitDone, PushLink, InWork
<1>4. CASE PushPost
  <2>1. \A w \in Workers :
              wpc'[w] = wpc[w] \/ (wpc[w] = "asleep" /\ wpc'[w] = "wait")
    BY <1>1, <1>4, PlacesKnown, PushPostWakes
  <2>2. InWork' = InWork
    BY <2>1 DEF InWork
  <2>3. QED
    BY <1>2, <1>4, <2>2 DEF PushPost
<1>5. ASSUME NEW w \in Workers,
             \/ Start(w) \/ TakeToken(w) \/ Sleep(w) \/ WakeSpuriously(w)
             \/ PullUnlink(w) \/ Run(w)
      PROVE  WorkersCounted' /\ working' \in Nat
  <2>1. InWork' = InWork
    BY <1>1, <1>5
       DEF InWork, WorkerGoes, Start, TakeToken, Sleep, WakeSpuriously,
           PullUnlink, Run
  <2>2. QED
    BY <1>2, <1>5, <2>1
       DEF Start, TakeToken, Sleep, WakeSpuriously, PullUnlink, Run
<1>6. ASSUME NEW w \in Workers, PullPost(w)
      PROVE  WorkersCounted' /\ working' \in Nat
  <2>1. \A u \in Workers : u \in InWork <=> u \in InWork'
    BY <1>1, <1>6, PlacesKnown, PullPostMoves DEF InWork
  <2>2. InWork' = InWork
    BY <2>1 DEF InWork
  <2>3. QED
    BY <1>2, <1>6, <2>2 DEF PullPost
<1>7. ASSUME NEW w \in Workers, StartWork(w)
      PROVE  WorkersCounted' /\ working' \in Nat
  <2>1. w \notin InWork /\ InWork' = InWork \union {w}
    BY <1>1, <1>7 DEF InWork, StartWork, WorkerGoes
  <2>2. Cardinality(InWork') = Cardinality(InWork) + 1
    BY <2>1, InWorkFinite, FS_AddElement
  <2>3. QED
    BY <1>1, <1>7, <2>2 DEF WorkersCounted, StartWork
<1>8. ASSUME NEW w \in Workers, EndWork(w)
      PROVE  WorkersCounted' /\ working' \in Nat
  <2>1. w \in InWork /\ InWork' = InWork \ {w}
    BY <1>1, <1>8 DEF InWork, EndWork, WorkerGoes
  <2>2. Cardinality(InWork') = Cardinality(InWork) - 1
    BY <2>1, InWorkFinite, FS_RemoveElement
  <2>3. Cardinality(InWork) # 0
    BY <2>1, InWorkFinite, FS_EmptySet
  <2>4. QED
    BY <1>1, <1>8, <2>2, <2>3, InWorkFinite DEF WorkersCounted, EndWork
<1>9. QED
  BY <1>3, <1>4, <1>5, <1>6, <1>7, <1>8 DEF Next, Worker

LEMMA TypeStep ==
  ASSUME IInv, Next
  PROVE  TypeOK'
<1>1. TypeOK /\ working' \in Nat /\ LockHeld /\ JobsHeld
  BY CountedStep DEF IInv
<1>2. CASE InitDone
  BY <1>1, <1>2 DEF InitDone, TypeOK, MainPC
<1>3. CASE PushLink
  <2>1. added' \in JobIds /\ added' \in 0 .. MaxJobs
    BY <1>1, <1>3, MaxJobsAssumption DEF PushLink, TypeOK, JobIds
  <2>2. queue' \in Seq(JobIds)
    BY <1>1, <1>3, <2>1 DEF PushLink, TypeOK
  <2>3. QED
    BY <1>1, <1>3, <2>1, <2>2 DEF PushLink, TypeOK, MainPC
<1>4. CASE PushPost
  <2>1. v' = 1 /\ wpc' \in [Workers -> WorkerPC]
    BY <1>1, <1>4, PlacesKnown, PushPostWakes DEF TypeOK
  <2>2. QED
    BY <1>1, <1>4, <2>1 DEF PushPost, TypeOK, MainPC
<1>5. ASSUME NEW w \in Workers,
             \/ Start(w) \/ TakeToken(w) \/ Sleep(w) \/ WakeSpuriously(w)
             \/ StartWork(w) \/ EndWork(w)
      PROVE  TypeOK'
  <2>1. wpc' \in [Workers -> WorkerPC]
    BY <1>1, <1>5
       DEF TypeOK, WorkerPC, WorkerGoes, Start, TakeToken, Sleep,
           WakeSpuriously, StartWork, EndWork
  <2>2. alive' \in Nat /\ v' \in {0, 1}
    BY <1>1, <1>5
       DEF TypeOK, Start, TakeToken, Sleep, WakeSpuriously, StartWork, EndWork
  <2>3. UNCHANGED <<mpc, added, queue, rwmutex, job, ran>>
    BY <1>5
       DEF Start, TakeToken, Sleep, WakeSpuriously, StartWork, EndWork
  <2>4. QED
    BY <1>1, <2>1, <2>2, <2>3 DEF TypeOK
<1>6. ASSUME NEW w \in Workers, PullUnlink(w)
      PROVE  TypeOK'
  <2>1. queue' \in Seq(JobIds) /\ job' \in [Workers -> JobIds \union {None}]
    <3>1. CASE queue = << >>
      BY <1>1, <1>6, <3>1 DEF PullUnlink, TypeOK
    <3>2. CASE queue # << >>
      <4>1. Head(queue) \in JobIds /\ Tail(queue) \in Seq(JobIds)
        BY <1>1, <3>2 DEF TypeOK
      <4>2. QED
        BY <1>1, <1>6, <3>2, <4>1 DEF PullUnlink, TypeOK
    <3>3. QED
      BY <3>1, <3>2
  <2>2. QED
    BY <1>1, <1>6, <2>1 DEF PullUnlink, TypeOK, WorkerGoes, WorkerPC
<1>7. ASSUME NEW w \in Workers, PullPost(w)
      PROVE  TypeOK'
  BY <1>1, <1>7, PlacesKnown, PullPostMoves DEF TypeOK, PullPost
<1>8. ASSUME NEW w \in Workers, Run(w)
      PROVE  TypeOK'
  <2>1. job[w] \in JobIds
    BY <1>1, <1>8 DEF TypeOK, JobsHeld, Run, WorkerGoes
  <2>2. QED
    BY <1>1, <1>8, <2>1 DEF TypeOK, WorkerPC, WorkerGoes, Run
<1>9. QED
  BY <1>2, <1>3, <1>4, <1>5, <1>6, <1>7, <1>8 DEF Next, Worker

(* rwmutex has the holder that the program counters say, and a worker holds *)
(* a job only between its pull and the end of the job's function.           *)
LEMMA LockStep ==
  ASSUME IInv, Next
  PROVE  LockHeld' /\ JobsHeld'
<1>1. TypeOK /\ LockHeld /\ JobsHeld
  BY DEF IInv
<1>2. wpc \in [Workers -> WorkerPC] /\ v \in {0, 1}
      /\ job \in [Workers -> JobIds \union {None}]
  BY <1>1 DEF TypeOK
<1>3. Main \notin Workers /\ None \notin Workers /\ None # Main
  BY MainAssumption, NoneAssumption
<1>4. CASE InitDone
  BY <1>1, <1>4 DEF InitDone, LockHeld, JobsHeld
<1>5. CASE PushLink
  BY <1>1, <1>3, <1>5 DEF PushLink, LockHeld, JobsHeld
<1>6. CASE PushPost
  <2>1. \A w \in Workers :
          wpc'[w] = wpc[w] \/ (wpc[w] = "asleep" /\ wpc'[w] = "wait")
    BY <1>2, <1>6, PlacesKnown, PushPostWakes
  <2>2. mpc = "push" /\ mpc' = "serve" /\ rwmutex = Main /\ rwmutex' = None
        /\ job' = job
    BY <1>1, <1>6 DEF PushPost, LockHeld
  <2>3. LockHeld'
    BY <1>1, <1>3, <2>1, <2>2 DEF LockHeld
  <2>4. JobsHeld'
    BY <1>1, <2>1, <2>2 DEF JobsHeld
  <2>5. QED
    BY <2>3, <2>4
<1>7. ASSUME NEW w \in Workers,
             \/ Start(w) \/ TakeToken(w) \/ Sleep(w) \/ WakeSpuriously(w)
             \/ StartWork(w) \/ EndWork(w)
      PROVE  LockHeld' /\ JobsHeld'
  BY <1>1, <1>2, <1>7
     DEF LockHeld, JobsHeld, WorkerGoes, Start, TakeToken, Sleep,
         WakeSpuriously, StartWork, EndWork
<1>8. ASSUME NEW w \in Workers, PullUnlink(w)
      PROVE  LockHeld' /\ JobsHeld'
  <2>1. mpc # "push" /\ \A u \in Workers : wpc[u] # "pulled"
    BY <1>1, <1>3, <1>8 DEF PullUnlink, LockHeld
  <2>2. LockHeld'
    BY <1>2, <1>3, <1>8, <2>1 DEF PullUnlink, WorkerGoes, LockHeld
  <2>3. \A u \in Workers \ {w} : job'[u] = job[u] /\ wpc'[u] = wpc[u]
    BY <1>2, <1>8 DEF PullUnlink, WorkerGoes
  <2>4. wpc'[w] = "pulled"
    BY <1>2, <1>8 DEF PullUnlink, WorkerGoes
  <2>5. JobsHeld'
    BY <1>1, <2>3, <2>4 DEF JobsHeld
  <2>6. QED
    BY <2>2, <2>5
<1>9. ASSUME NEW w \in Workers, PullPost(w)
      PROVE  LockHeld' /\ JobsHeld'
  <2>1. /\ wpc[w] = "pulled"
        /\ wpc'[w] = IF job[w] = None THEN "leave" ELSE "run"
        /\ \A u \in Workers \ {w} :
             wpc'[u] = wpc[u] \/ (wpc[u] = "asleep" /\ wpc'[u] = "wait")
    BY <1>2, <1>9, PlacesKnown, PullPostMoves
  <2>2. mpc' = mpc /\ rwmutex' = None /\ job' = job /\ rwmutex = w
    BY <1>1, <1>9, <2>1 DEF PullPost, LockHeld
  <2>3. LockHeld'
    BY <1>1, <1>3, <2>1, <2>2 DEF LockHeld
  <2>4. JobsHeld'
    BY <1>1, <2>1, <2>2 DEF JobsHeld
  <2>5. QED
    BY <2>3, <2>4
<1>10. ASSUME NEW w \in Workers, Run(w)
       PROVE  LockHeld' /\ JobsHeld'
  BY <1>1, <1>2, <1>10 DEF LockHeld, JobsHeld, WorkerGoes, Run
<1>11. QED
  BY <1>4, <1>5, <1>6, <1>7, <1>8, <1>9, <1>10 DEF Next, Worker

(* A job is linked once, unlinked by one worker and run by that worker.     *)
LinkJob ==
  /\ added < MaxJobs
  /\ added' = added + 1
  /\ queue' = Append(queue, added + 1)
  /\ UNCHANGED <<job, ran>>

LEMMA AccountedMoves ==
  ASSUME JobTypes, JobsHeld, JobsAccounted,
         \/ LinkJob
         \/ \E w \in Workers : PullUnlink(w) \/ Run(w)
         \/ UNCHANGED <<added, queue, job, ran>>
  PROVE  JobsAccounted'
<1>1. JobTypes /\ JobsHeld /\ JobsAccounted
  OBVIOUS
<1>2. /\ added \in Nat /\ queue \in Seq(JobIds) /\ Len(queue) \in Nat
      /\ Len(queue) <= added
      /\ job \in [Workers -> JobIds \union {None}]
      /\ ran \in [JobIds -> Nat]
      /\ JobIds \subseteq Nat /\ None \notin Nat
  BY <1>1, MaxJobsAssumption, NoneAssumption DEF JobTypes, JobIds, JobsAccounted
<1>3. PICK g \in Nat : g = added - Len(queue)
  BY <1>2
<1>4. \A i \in 1 .. Len(queue) : queue[i] = g + i
  BY <1>1, <1>3 DEF JobsAccounted
<1>5. \A j \in 1 .. g :
        \/ ran[j] = 0 /\ \E u \in Workers : Holders(j) = {u}
        \/ ran[j] = 1 /\ Holders(j) = {}
  BY <1>1, <1>3 DEF JobsAccounted
<1>6. \A j \in JobIds : j > g => ran[j] = 0 /\ Holders(j) = {}
  BY <1>1, <1>3 DEF JobsAccounted
<1>7. CASE LinkJob
  <2>1. /\ added' = added + 1 /\ queue' = Append(queue, added + 1)
        /\ UNCHANGED <<job, ran>>
    BY <1>7 DEF LinkJob
  <2>2. added + 1 \in JobIds
    BY <1>2, <1>7, MaxJobsAssumption DEF LinkJob, JobIds
  <2>3. /\ Len(queue') = Len(queue) + 1
        /\ queue'[Len(queue) + 1] = added + 1
        /\ \A i \in 1 .. Len(queue) : queue'[i] = queue[i]
    BY <1>2, <2>1, <2>2
  <2>4. added' - Len(queue') = g /\ Len(queue') <= added'
    BY <1>2, <1>3, <2>1, <2>3
  <2>5. ASSUME NEW i \in 1 .. Len(queue')
        PROVE  queue'[i] = g + i
    <3>1. CASE i = Len(queue) + 1
      BY <1>2, <1>3, <2>3, <3>1
    <3>2. CASE i # Len(queue) + 1
      BY <1>2, <1>4, <2>3, <3>2
    <3>3. QED
      BY <3>1, <3>2
  <2>6. \A j : Holders(j)' = Holders(j)
    BY <2>1 DEF Holders
  <2>7. QED
    BY <1>5, <1>6, <2>1, <2>4, <2>5, <2>6 DEF JobsAccounted
<1>8. ASSUME NEW w \in Workers, PullUnlink(w)
      PROVE  JobsAccounted'
  <2>1. CASE queue = << >>
    BY <1>1, <1>8, <2>1 DEF PullUnlink, JobsAccounted, Holders
  <2>2. CASE queue # << >>
    <3>1. PICK h \in JobIds : h = Head(queue)
      <4>1. queue \in Seq(JobIds)
        BY <1>2
      <4>2. Head(queue) \in JobIds
        BY <2>2, <4>1
      <4>3. QED
        BY <4>2
    <3>2. /\ job' = [job EXCEPT ![w] = h] /\ queue' = Tail(queue)
          /\ UNCHANGED <<added, ran>> /\ job[w] = None
      BY <1>1, <1>8, <2>2, <3>1 DEF PullUnlink, WorkerGoes, JobsHeld
    <3>3. /\ Len(queue) > 0 /\ Len(queue') = Len(queue) - 1
          /\ h = queue[1]
          /\ \A i \in 1 .. Len(queue') : queue'[i] = queue[i + 1]
      BY <1>2, <2>2, <3>1, <3>2
    <3>4. h = g + 1 /\ Holders(h) = {} /\ ran[h] = 0
      BY <1>2, <1>4, <1>6, <3>3
    <3>5. Holders(h)' = {w}
      <4>1. \A u \in Workers : job'[u] = h <=> u = w
        BY <1>2, <3>2, <3>4 DEF Holders
      <4>2. QED
        BY <4>1 DEF Holders
    <3>6. ASSUME NEW j \in Nat, j # h
          PROVE  Holders(j)' = Holders(j)
      <4>1. \A u \in Workers : job'[u] = j <=> job[u] = j
        BY <1>2, <3>2, <3>6
      <4>2. QED
        BY <4>1 DEF Holders
    <3>7. added' - Len(queue') = h /\ Len(queue') <= added'
      <4>1. added' = added
        BY <3>2
      <4>2. QED
        BY <1>2, <1>3, <3>3, <3>4, <4>1
    <3>8. \A i \in 1 .. Len(queue') : queue'[i] = h + i
      BY <1>2, <1>4, <3>3, <3>4
    <3>9. ASSUME NEW j \in 1 .. h
          PROVE  \/ ran'[j] = 0 /\ \E u \in Workers : Holders(j)' = {u}
                 \/ ran'[j] = 1 /\ Holders(j)' = {}
      <4>1. CASE j = h
        BY <3>2, <3>4, <3>5, <4>1
      <4>2. CASE j # h
        <5>1. j \in 1 .. g /\ j \in Nat
          BY <1>2, <3>4, <4>2
        <5>2. QED
          BY <1>5, <3>2, <3>6, <4>2, <5>1
      <4>3. QED
        BY <4>1, <4>2
    <3>10. ASSUME NEW j \in JobIds, j > h
           PROVE  ran'[j] = 0 /\ Holders(j)' = {}
      BY <1>2, <1>6, <3>2, <3>4, <3>6, <3>10
    <3>11. QED
      BY <3>7, <3>8, <3>9, <3>10 DEF JobsAccounted
  <2>3. QED
    BY <2>1, <2>2
<1>9. ASSUME NEW w \in Workers, Run(w)
      PROVE  JobsAccounted'
  <2>1. PICK h \in JobIds : h = job[w]
    BY <1>1, <1>2, <1>9 DEF Run, WorkerGoes, JobsHeld
  <2>2. /\ ran' = [ran EXCEPT ![h] = @ + 1]
        /\ job' = [job EXCEPT ![w] = None]
        /\ UNCHANGED <<added, queue>>
    BY <1>9, <2>1 DEF Run
  <2>3. w \in Holders(h)
    BY <2>1 DEF Holders
  <2>4. h \in 1 .. g /\ ran[h] = 0 /\ Holders(h) = {w}
    BY <1>2, <1>3, <1>5, <1>6, <2>3 DEF JobIds
  <2>5. ran'[h] = 1 /\ \A j \in JobIds \ {h} : ran'[j] = ran[j]
    BY <1>2, <2>2, <2>4
  <2>6. Holders(h)' = {}
    <3>1. \A u \in Workers : job'[u] # h
      BY <1>2, <2>2, <2>4 DEF Holders
    <3>2. QED
      BY <3>1 DEF Holders
  <2>7. ASSUME NEW j \in Nat, j # h
        PROVE  Holders(j)' = Holders(j)
    <3>1. \A u \in Workers : job'[u] = j <=> job[u] = j
      BY <1>2, <2>1, <2>2, <2>7
    <3>2. QED
      BY <3>1 DEF Holders
  <2>8. g \leq MaxJobs
    BY <1>1, <1>2, <1>3, MaxJobsAssumption DEF JobTypes
  <2>9. ASSUME NEW j \in 1 .. g
        PROVE  \/ ran'[j] = 0 /\ \E u \in Workers : Holders(j)' = {u}
               \/ ran'[j] = 1 /\ Holders(j)' = {}
    <3>1. j \in JobIds /\ j \in Nat
      BY <2>8, MaxJobsAssumption DEF JobIds
    <3>2. QED
      BY <1>5, <2>5, <2>6, <2>7, <3>1
  <2>10. ASSUME NEW j \in JobIds, j > g
         PROVE  ran'[j] = 0 /\ Holders(j)' = {}
    BY <1>2, <1>6, <2>4, <2>5, <2>7, <2>10
  <2>11. added' - Len(queue') = g /\ queue' = queue /\ Len(queue') <= added'
    BY <1>2, <1>3, <2>2
  <2>12. QED
    BY <1>4, <2>9, <2>10, <2>11 DEF JobsAccounted
<1>10. CASE UNCHANGED <<added, queue, job, ran>>
  BY <1>1, <1>10 DEF JobsAccounted, Holders
<1>11. QED
  BY <1>7, <1>8, <1>9, <1>10

LEMMA AccountedStep ==
  ASSUME IInv, Next
  PROVE  JobsAccounted'
<1>1. JobTypes /\ JobsHeld /\ JobsAccounted
  BY DEF IInv, TypeOK, JobTypes
<1>2. \/ LinkJob
      \/ \E w \in Workers : PullUnlink(w) \/ Run(w)
      \/ UNCHANGED <<added, queue, job, ran>>
  BY DEF Next, Worker, InitDone, PushLink, LinkJob, PushPost, Start, TakeToken,
         Sleep, WakeSpuriously, StartWork, PullPost, EndWork
<1>3. QED
  BY <1>1, <1>2, AccountedMoves

(* A wakeup passes from the flag to a worker that takes it, and from that   *)
(* worker, when it leaves a job behind, back to the flag.                   *)
LEMMA WakeupStep ==
  ASSUME IInv, Next
  PROVE  FlagSeen' /\ NoLostWakeup'
<1>1. FlagSeen /\ NoLostWakeup /\ LockHeld
  BY DEF IInv
<1>2. /\ wpc \in [Workers -> WorkerPC] /\ v \in {0, 1}
      /\ Main # None /\ None \notin Workers
  BY NoneAssumption DEF IInv, TypeOK
<1>3. CASE InitDone
  BY <1>1, <1>3 DEF InitDone, FlagSeen, NoLostWakeup
<1>4. CASE PushLink
  BY <1>1, <1>2, <1>4 DEF PushLink, FlagSeen, NoLostWakeup
<1>5. CASE PushPost
  BY <1>2, <1>5, PlacesKnown, PushPostWakes DEF FlagSeen, NoLostWakeup
<1>6. ASSUME NEW w \in Workers,
             Start(w) \/ Sleep(w) \/ WakeSpuriously(w) \/ Run(w) \/ EndWork(w)
      PROVE  FlagSeen' /\ NoLostWakeup'
  <2>1. /\ UNCHANGED <<queue, rwmutex, v>>
        /\ \A u \in Workers \ {w} : wpc'[u] = wpc[u]
        /\ wpc[w] \notin {"token", "pull"}
        /\ v = 1 => wpc'[w] # "asleep"
    BY <1>2, <1>6
       DEF WorkerGoes, Start, Sleep, WakeSpuriously, Run, EndWork
  <2>2. FlagSeen'
    BY <1>1, <2>1 DEF FlagSeen
  <2>3. NoLostWakeup'
    BY <1>1, <2>1, <2>2 DEF FlagSeen, NoLostWakeup
  <2>4. QED
    BY <2>2, <2>3
<1>7. ASSUME NEW w \in Workers, TakeToken(w)
      PROVE  FlagSeen' /\ NoLostWakeup'
  <2>1. v' = 0 /\ wpc'[w] = "token"
    BY <1>2, <1>7 DEF TakeToken, WorkerGoes
  <2>2. QED
    BY <2>1 DEF FlagSeen, NoLostWakeup
<1>8. ASSUME NEW w \in Workers, StartWork(w)
      PROVE  FlagSeen' /\ NoLostWakeup'
  <2>1. wpc'[w] = "pull"
    BY <1>2, <1>8 DEF StartWork, WorkerGoes
  <2>2. QED
    BY <2>1 DEF FlagSeen, NoLostWakeup
<1>9. ASSUME NEW w \in Workers, PullUnlink(w)
      PROVE  FlagSeen' /\ NoLostWakeup'
  <2>1. wpc'[w] = "pulled" /\ rwmutex' = w
    BY <1>2, <1>9 DEF PullUnlink, WorkerGoes
  <2>2. QED
    BY <1>2, <2>1 DEF FlagSeen, NoLostWakeup
<1>10. ASSUME NEW w \in Workers, PullPost(w)
       PROVE  FlagSeen' /\ NoLostWakeup'
  <2>1. wpc'[w] # "asleep" /\ (queue # << >> => v' = 1)
    BY <1>2, <1>10, PlacesKnown, PullPostMoves
  <2>2. queue' = queue
    BY <1>10 DEF PullPost
  <2>3. QED
    BY <2>1, <2>2 DEF FlagSeen, NoLostWakeup
<1>11. QED
  BY <1>3, <1>4, <1>5, <1>6, <1>7, <1>8, <1>9, <1>10 DEF Next, Worker

LEMMA NextIInv == IInv /\ [Next]_vars => IInv'
<1> SUFFICES ASSUME IInv, [Next]_vars PROVE IInv'
  OBVIOUS
<1>1. CASE Next
  BY <1>1, TypeStep, CountedStep, LockStep, AccountedStep, WakeupStep DEF IInv
<1>2. CASE UNCHANGED vars
  <2>1. TypeOK'
    BY <1>2 DEF vars, IInv, TypeOK
  <2>2. InWork' = InWork
    BY <1>2 DEF vars, InWork
  <2>3. WorkersCounted' /\ LockHeld' /\ JobsHeld'
    BY <1>2, <2>2 DEF vars, IInv, WorkersCounted, LockHeld, JobsHeld
  <2>4. JobsAccounted'
    BY <1>2 DEF vars, IInv, JobsAccounted, Holders
  <2>5. FlagSeen' /\ NoLostWakeup'
    BY <1>2 DEF vars, IInv, FlagSeen, NoLostWakeup
  <2>6. QED
    BY <2>1, <2>3, <2>4, <2>5 DEF IInv
<1>3. QED
  BY <1>1, <1>2

(* The pool's bookkeeping is right in every reachable state.                *)
THEOREM InvariantHolds == Spec => []IInv
<1>1. QED
  BY InitIInv, NextIInv, PTL DEF Spec

(* The types hold: num_threads_working is never negative.                   *)
THEOREM TypesHold == Spec => []TypeOK
<1>1. IInv => TypeOK
  BY DEF IInv
<1>2. QED
  BY <1>1, InvariantHolds, PTL

(* The binary semaphore has_jobs never loses the wakeup of a queued job.    *)
THEOREM WakeupsKept == Spec => []NoLostWakeup
<1>1. IInv => NoLostWakeup
  BY DEF IInv
<1>2. QED
  BY <1>1, InvariantHolds, PTL

(* Every job is taken in the order of the calls, and run at most once.      *)
THEOREM JobsRunOnceInOrder == Spec => []JobsAccounted
<1>1. IInv => JobsAccounted
  BY DEF IInv
<1>2. QED
  BY <1>1, InvariantHolds, PTL

(* A worker counts itself before it takes a job, so with nobody at work     *)
(* nobody holds one.                                                        *)
LEMMA IdleIsDone ==
  ASSUME JobTypes, JobsHeld, JobsAccounted, WorkersCounted
  PROVE  IdleMeansDone
<1> SUFFICES ASSUME queue = << >>, working = 0, NEW j \in 1 .. added
             PROVE  ran[j] = 1
  BY DEF IdleMeansDone
<1>1. InWork = {}
  BY InWorkFinite, FS_EmptySet DEF WorkersCounted
<1>2. \A w \in Workers : job[w] = None
  BY <1>1 DEF JobsHeld, InWork
<1>3. j \in Nat /\ j # None
  BY NoneAssumption DEF JobTypes
<1>4. Holders(j) = {}
  BY <1>2, <1>3 DEF Holders
<1>5. j \in 1 .. (added - Len(queue))
  BY DEF JobTypes
<1>6. QED
  BY <1>4, <1>5 DEF JobsAccounted

(* An empty queue and no working thread mean that every job has been run.   *)
THEOREM IdlePoolIsDone == Spec => []IdleMeansDone
<1>1. ASSUME IInv PROVE IdleMeansDone
  BY <1>1, IdleIsDone DEF IInv, TypeOK, JobTypes
<1>2. QED
  BY <1>1, InvariantHolds, PTL

(***************************************************************************)
(* The refinement of JobPool.  The jobs in the hands of workers and those  *)
(* that have been run make up, without overlap, all that left the queue.   *)
(***************************************************************************)
Held == { job[w] : w \in Workers } \ {None}
Done == { j \in JobIds : ran[j] > 0 }
Left == 1 .. (added - Len(queue))

LEMMA HeldAndDone ==
  ASSUME IInv
  PROVE  /\ Held = { j \in Left : ran[j] = 0 }
         /\ Done = { j \in Left : ran[j] = 1 }
         /\ IsFiniteSet(Held) /\ IsFiniteSet(Done)
         /\ Cardinality(Held) \in Nat /\ Cardinality(Done) \in Nat
         /\ Len(queue) + Cardinality(Held) + Cardinality(Done) = added
<1>1. TypeOK /\ JobsAccounted
  BY DEF IInv
<1>2. Len(queue) \in Nat /\ added \in Nat /\ added <= MaxJobs /\ Len(queue) <= added
  BY <1>1, MaxJobsAssumption DEF TypeOK, JobsAccounted
<1>3. Left \subseteq JobIds
  BY <1>2, MaxJobsAssumption DEF Left, JobIds
<1>4. \A j \in JobIds \ Left : ran[j] = 0 /\ Holders(j) = {}
  BY <1>1, <1>2 DEF JobsAccounted, Left, JobIds
<1>5. \A j \in Left : \/ ran[j] = 0 /\ Holders(j) # {}
                      \/ ran[j] = 1 /\ Holders(j) = {}
  BY <1>1 DEF JobsAccounted, Left
<1>6. \A j \in JobIds : j \in Held <=> Holders(j) # {}
  BY <1>1, NoneAssumption, MaxJobsAssumption DEF Held, Holders, JobIds
<1>7. Held \subseteq JobIds
  BY <1>1 DEF Held, TypeOK
<1>8. Held = { j \in Left : ran[j] = 0 }
  BY <1>3, <1>4, <1>5, <1>6, <1>7
<1>9. Done = { j \in Left : ran[j] = 1 }
  BY <1>3, <1>4, <1>5 DEF Done
<1>10. IsFiniteSet(Left) /\ Cardinality(Left) = added - Len(queue)
  <2>1. added - Len(queue) \in Nat
    BY <1>2
  <2>2. /\ IsFiniteSet(Left)
        /\ Cardinality(Left) = IF 1 > added - Len(queue) THEN 0
                               ELSE (added - Len(queue)) - 1 + 1
    BY <2>1, FS_Interval, 1 \in Int, added - Len(queue) \in Int DEF Left
  <2>3. QED
    BY <2>1, <2>2
<1>11. Held \union Done = Left /\ Held \intersect Done = {}
  BY <1>5, <1>8, <1>9
<1>12. Held \subseteq Left /\ Done \subseteq Left
  BY <1>11
<1>13. /\ IsFiniteSet(Held) /\ IsFiniteSet(Done)
       /\ Cardinality(Held) \in Nat /\ Cardinality(Done) \in Nat
  BY <1>10, <1>12, FS_Subset, FS_CardinalityType
<1>14. Cardinality(Left) = Cardinality(Held) + Cardinality(Done)
  <2>1. Cardinality(Held \union Done) =
          Cardinality(Held) + Cardinality(Done) - Cardinality(Held \intersect Done)
    BY <1>13, FS_Union
  <2>2. Cardinality(Held \intersect Done) = 0
    BY <1>11, FS_EmptySet
  <2>3. Cardinality(Held \union Done) = Cardinality(Left)
    BY <1>11
  <2>4. QED
    BY <1>13, <2>1, <2>2, <2>3
<1>15. QED
  BY <1>2, <1>8, <1>9, <1>10, <1>13, <1>14

(* A worker without a job leaves at most one job for each of the others.    *)
LEMMA RoomForOneMore ==
  ASSUME IInv, NEW w \in Workers, job[w] = None
  PROVE  Cardinality(Held) < Cardinality(Workers)
<1> DEFINE others == Workers \ {w}
<1> DEFINE f == [x \in others |-> job[x]]
<1> DEFINE image == { f[x] : x \in others }
<1>1. IsFiniteSet(others) /\ Cardinality(others) = Cardinality(Workers) - 1
  BY WorkersAssumption, FS_RemoveElement
<1>2. f \in Surjection(others, image)
  BY DEF Surjection
<1>3. IsFiniteSet(image) /\ Cardinality(image) <= Cardinality(others)
  BY <1>1, <1>2, FS_Surjection
<1>4. Held \subseteq image
  BY DEF Held
<1>5. Cardinality(Held) <= Cardinality(image)
  BY <1>3, <1>4, FS_Subset
<1>6. /\ Cardinality(Held) \in Nat /\ Cardinality(image) \in Nat
      /\ Cardinality(Workers) \in Nat
  BY <1>3, HeldAndDone, WorkersAssumption, FS_CardinalityType
<1>7. QED
  BY <1>1, <1>3, <1>5, <1>6

(* JobPool counts with its own instance of FiniteSets.                      *)
LEMMA SameCardinality == \A S : Pool!Cardinality(S) = Cardinality(S)
  BY DEF Pool!Cardinality, Cardinality

LEMMA PoolStep ==
  ASSUME IInv, Next
  PROVE  [Pool!Next]_(Pool!vars)
<1>1. TypeOK /\ JobsHeld /\ JobsAccounted
  BY DEF IInv
<1>2. CASE PushLink
  <2>1. queue' = Append(queue, Len(queue) + Cardinality(Held) + Cardinality(Done) + 1)
    BY <1>2, HeldAndDone DEF PushLink
  <2>2. UNCHANGED <<job, ran>>
    BY <1>2 DEF PushLink
  <2>3. /\ { job'[w] : w \in Workers } \ {None} = Held
        /\ { j \in JobIds : ran'[j] > 0 } = Done
    BY <2>2 DEF Held, Done
  <2>4. Pool!Added = Len(queue) + Cardinality(Held) + Cardinality(Done)
    BY SameCardinality DEF Pool!Added, Held, Done
  <2>5. Pool!Submit
    <3>1. queue' = Append(queue, Pool!Added + 1)
      BY <2>1, <2>4
    <3>2. QED
      BY <2>2, <3>1 DEF Pool!Submit
  <2>6. QED
    BY <2>5 DEF Pool!Next
<1>3. ASSUME NEW w \in Workers, PullUnlink(w), queue # << >>
      PROVE  Pool!Take
  <2>1. /\ wpc[w] = "pull" /\ queue' = Tail(queue) /\ ran' = ran
        /\ job' = [job EXCEPT ![w] = Head(queue)]
    BY <1>3 DEF PullUnlink, WorkerGoes
  <2>2. job[w] = None
    BY <1>1, <2>1 DEF JobsHeld
  <2>3. Head(queue) \in JobIds /\ Head(queue) # None
    BY <1>1, <1>3, NoneAssumption, MaxJobsAssumption DEF TypeOK, JobIds
  <2>4. { job'[x] : x \in Workers } \ {None} = Held \union {Head(queue)}
    BY <1>1, <2>1, <2>2, <2>3 DEF TypeOK, Held
  <2>5. Cardinality(Held) < Cardinality(Workers)
    BY <2>2, RoomForOneMore
  <2>6. { j \in JobIds : ran'[j] > 0 } = Done
    BY <2>1 DEF Done
  <2>7. QED
    <3>1. Cardinality({ job[x] : x \in Workers } \ {None}) < Cardinality(Workers)
      BY <2>5 DEF Held
    <3>2. { job'[x] : x \in Workers } \ {None} =
            ({ job[x] : x \in Workers } \ {None}) \union {Head(queue)}
      BY <2>4 DEF Held
    <3>3. Cardinality({ j \in JobIds : ran'[j] > 0 }) =
            Cardinality({ j \in JobIds : ran[j] > 0 })
      BY <2>1
    <3>4. QED
      BY <1>3, <2>1, <3>1, <3>2, <3>3, SameCardinality DEF Pool!Take
<1>4. ASSUME NEW w \in Workers, Run(w)
      PROVE  Pool!Finish
  <2>1. /\ wpc[w] = "run" /\ queue' = queue
        /\ ran' = [ran EXCEPT ![job[w]] = @ + 1]
        /\ job' = [job EXCEPT ![w] = None]
    BY <1>4 DEF Run, WorkerGoes
  <2>2. job[w] \in JobIds /\ job[w] # None /\ job[w] \in Held
    BY <1>1, <2>1 DEF JobsHeld, TypeOK, Held
  <2>3. job[w] \in Left /\ ran[job[w]] = 0
    BY <2>2, HeldAndDone
  <2>4. Holders(job[w]) = {w}
    BY <1>1, <2>3 DEF JobsAccounted, Left, Holders
  <2>5. \A x \in Workers : job[x] = job[w] <=> x = w
    BY <2>4 DEF Holders
  <2>6. { job'[x] : x \in Workers } \ {None} = Held \ {job[w]}
    BY <1>1, <2>1, <2>2, <2>5 DEF TypeOK, Held
  <2>7. { j \in JobIds : ran'[j] > 0 } = Done \union {job[w]}
    BY <1>1, <2>1, <2>2 DEF TypeOK, Done
  <2>8. job[w] \notin Done
    BY <2>3 DEF Done
  <2>9. Cardinality(Done \union {job[w]}) = Cardinality(Done) + 1
    BY <2>8, HeldAndDone, FS_AddElement
  <2>10. QED
    BY <2>1, <2>2, <2>6, <2>7, <2>9 DEF Pool!Finish, Held, Done
<1>5. CASE UNCHANGED <<queue, job, ran>>
  BY <1>5 DEF Pool!vars
<1>6. ASSUME NEW w \in Workers, Worker(w) \/ WakeSpuriously(w)
      PROVE  [Pool!Next]_(Pool!vars)
  <2>1. CASE PullUnlink(w) /\ queue # << >>
    BY <1>3, <2>1 DEF Pool!Next
  <2>2. CASE Run(w)
    BY <1>4, <2>2 DEF Pool!Next
  <2>3. CASE ~ (PullUnlink(w) /\ queue # << >>) /\ ~ Run(w)
    <3>1. UNCHANGED <<queue, job, ran>>
      BY <1>6, <2>3
         DEF Worker, Start, TakeToken, Sleep, WakeSpuriously, StartWork,
             PullUnlink, PullPost, EndWork
    <3>2. QED
      BY <1>5, <3>1
  <2>4. QED
    BY <2>1, <2>2, <2>3
<1>7. CASE InitDone \/ PushPost
  BY <1>5, <1>7 DEF InitDone, PushPost
<1>8. QED
  BY <1>2, <1>6, <1>7 DEF Next

(* The pool takes jobs in the order they were added and runs each by one of *)
(* its threads: the safety part of PoolSpec, what main() relies on when it  *)
(* hands events to thpool_add_work.                                         *)
THEOREM ImplementsJobPool == Spec => Pool!Spec
<1>1. Init => Pool!Init
  <2> SUFFICES ASSUME Init PROVE Pool!Init
    OBVIOUS
  <2>1. IInv /\ queue = << >> /\ added = 0
    BY InitIInv DEF Init
  <2>2. Held = {} /\ Done = {}
    <3>1. Left = {}
      BY <2>1 DEF Left
    <3>2. QED
      BY <2>1, <3>1, HeldAndDone
  <2>3. Cardinality(Done) = 0
    BY <2>2, FS_EmptySet
  <2>4. QED
    BY <2>1, <2>2, <2>3 DEF Pool!Init, Held, Done
<1>2. IInv /\ [Next]_vars => [Pool!Next]_(Pool!vars)
  <2>1. UNCHANGED vars => UNCHANGED Pool!vars
    BY DEF vars, Pool!vars
  <2>2. QED
    BY <2>1, PoolStep
<1>3. QED
  BY <1>1, <1>2, InvariantHolds, PTL DEF Spec, Pool!Spec

(***************************************************************************)
(* The life of the pool: ThreadPoolLife.                                   *)
(***************************************************************************)
LifePC == WorkerPC \union {"exit", "unlock", "gone"}

LEMMA LifePlacesKnown ==
  /\ "wait" \in LifePC
  /\ {"wait", "run", "leave"} \subseteq LifePC
BY DEF LifePC, WorkerPC

(* The two numbers of the pool count sets of its threads.                   *)
LEMMA SubsetCounts ==
  ASSUME NEW S, S \subseteq Workers
  PROVE  /\ IsFiniteSet(S)
         /\ Cardinality(S) \in 0 .. Cardinality(Workers)
         /\ Cardinality(S) = Cardinality(Workers) => S = Workers
<1>1. Cardinality(Workers) \in Nat
  BY WorkersAssumption, FS_CardinalityType
<1>2. IsFiniteSet(S) /\ Cardinality(S) <= Cardinality(Workers)
      /\ (Cardinality(S) = Cardinality(Workers) => S = Workers)
  BY WorkersAssumption, FS_Subset
<1>3. QED
  BY <1>1, <1>2, FS_CardinalityType

LEMMA InitLifeInv == LifeInit => LifeInv
<1> SUFFICES ASSUME LifeInit PROVE LifeInv
  OBVIOUS
<1>1. IInv
  BY InitIInv DEF LifeInit
<1>2. Cardinality({}) = 0 /\ 0 \in 0 .. Cardinality(Workers)
  BY FS_EmptySet, WorkersAssumption, FS_CardinalityType
<1>3. LifeTypeOK /\ JobTypes /\ LockTypes
  BY <1>1, <1>2 DEF LifeInit, Init, IInv, TypeOK, LifeTypeOK, JobTypes, LockTypes
<1>4. AliveCounted
  <2>1. Alive = {}
    BY DEF LifeInit, Init, Alive
  <2>2. QED
    BY <1>2, <2>1 DEF LifeInit, Init, AliveCounted
<1>5. LeaveLocked /\ LeaveDestroyed
  BY NoneAssumption DEF LifeInit, Init, LeaveLocked, LeaveDestroyed
<1>6. JobsKept
  BY <1>1 DEF LifeInit, Init, IInv, JobsKept
<1>7. QED
  BY <1>1, <1>3, <1>4, <1>5, <1>6 DEF LifeInv, IInv, LifeInit, Init, AddBounded

(* The steps of LifeNext, by what they do to the workers.                   *)
StandStill ==
  \/ Calls \/ WaitWakesSpuriously \/ AddLink \/ WaitTests \/ FreePool
  \/ InitDone /\ UNCHANGED life
  \/ \E w \in Workers : Hold(w) \/ Unhold(w)

Move(w) ==
  \/ Start(w) /\ UNCHANGED life
  \/ (TakeToken(w) \/ Sleep(w) \/ WakeSpuriously(w)) /\ UNCHANGED life
  \/ (PullUnlink(w) \/ Run(w)) /\ UNCHANGED life
  \/ SkipWork(w) \/ ExitCount(w) \/ ExitUnlock(w)

LEMMA LifeCases ==
  ASSUME LifeNext
  PROVE  \/ StandStill
         \/ AddPost \/ PostAll
         \/ \E w \in Workers :
              \/ Move(w)
              \/ PullPost(w) /\ UNCHANGED life
              \/ StartWork(w) /\ keepalive = 1 /\ UNCHANGED life
              \/ Finish(w)
<1>1. ASSUME NEW w \in Workers, Steps(w)
      PROVE  \/ Move(w)
             \/ PullPost(w) /\ UNCHANGED life
             \/ StartWork(w) /\ keepalive = 1 /\ UNCHANGED life
             \/ Finish(w)
  BY <1>1, Zenon DEF Steps, Loop, Move
<1>2. ASSUME NEW w \in Workers, Wakes(w)
      PROVE  Move(w)
  BY <1>2, Zenon DEF Wakes, Move
<1>3. QED
  BY <1>1, <1>2, Zenon DEF LifeNext, Goes, StandStill

LEMMA StandsStill ==
  ASSUME StandStill
  PROVE  UNCHANGED <<wpc, alive, working, thcount, job, ran>>
BY DEF StandStill, Calls, CallAdd, CallWait, Pause, Resume, Destroy,
       WaitWakesSpuriously, AddLink, WaitTests, FreePool, InitDone, Hold,
       Unhold, vars, life, pause

(* A post moves sleeping threads only.                                      *)
LEMMA PostsMove ==
  ASSUME wpc \in [Workers -> LifePC], AddPost \/ PostAll
  PROVE  /\ v' = 1 /\ wpc' \in [Workers -> LifePC]
         /\ \A w \in Workers :
              wpc'[w] = wpc[w] \/ (wpc[w] = "asleep" /\ wpc'[w] = "wait")
         /\ UNCHANGED <<alive, working, thcount, job, ran, added, queue>>
<1>1. CASE AddPost
  <2>1. PushPost
    BY <1>1 DEF AddPost
  <2>2. /\ v' = 1 /\ wpc' \in [Workers -> LifePC]
        /\ \A w \in Workers :
             wpc'[w] = wpc[w] \/ (wpc[w] = "asleep" /\ wpc'[w] = "wait")
    BY <2>1, LifePlacesKnown, PushPostWakes
  <2>3. QED
    BY <1>1, <2>2 DEF AddPost, PushPost, life
<1>2. CASE PostAll
  BY <1>2, LifePlacesKnown DEF PostAll, life
<1>3. QED
  BY <1>1, <1>2

LEMMA LifeWorkingStep ==
  ASSUME LifeInv, LifeNext
  PROVE  WorkersCounted' /\ working' \in 0 .. Cardinality(Workers)
<1>1. /\ wpc \in [Workers -> LifePC] /\ v \in {0, 1}
      /\ working = Cardinality(InWork)
  BY DEF LifeInv, LifeTypeOK, LockTypes, WorkersCounted, LifePC
<1>2. WorkersCounted' => working' \in 0 .. Cardinality(Workers)
  <2>1. InWork' \subseteq Workers
    BY DEF InWork
  <2>2. Cardinality(InWork') \in 0 .. Cardinality(Workers)
    BY <2>1, SubsetCounts
  <2>3. QED
    BY <2>2 DEF WorkersCounted
<1>3. ASSUME InWork' = InWork, working' = working
      PROVE  WorkersCounted'
  BY <1>1, <1>3 DEF WorkersCounted
<1>4. CASE StandStill
  <2>1. wpc' = wpc /\ working' = working
    BY <1>4, StandsStill
  <2>2. InWork' = InWork
    BY <2>1 DEF InWork
  <2>3. QED
    BY <1>2, <1>3, <2>1, <2>2
<1>5. CASE AddPost \/ PostAll
  <2>1. \A w \in Workers : w \in InWork <=> w \in InWork'
    BY <1>1, <1>5, PostsMove DEF InWork
  <2>2. InWork' = InWork
    BY <2>1 DEF InWork
  <2>3. working' = working
    BY <1>1, <1>5, PostsMove
  <2>4. QED
    BY <1>2, <1>3, <2>2, <2>3
<1>6. ASSUME NEW w \in Workers, Move(w)
      PROVE  WorkersCounted'
  <2>1. InWork' = InWork
    BY <1>1, <1>6
       DEF InWork, Move, WorkerGoes, Start, TakeToken, Sleep, WakeSpuriously,
           PullUnlink, Run, SkipWork, ExitCount, ExitUnlock
  <2>2. working' = working
    BY <1>6
       DEF Move, Start, TakeToken, Sleep, WakeSpuriously, PullUnlink, Run,
           SkipWork, ExitCount, ExitUnlock
  <2>3. QED
    BY <1>3, <2>1, <2>2
<1>7. ASSUME NEW w \in Workers, PullPost(w)
      PROVE  WorkersCounted'
  <2>1. \A u \in Workers : u \in InWork <=> u \in InWork'
    BY <1>1, <1>7, LifePlacesKnown, PullPostMoves DEF InWork
  <2>2. InWork' = InWork
    BY <2>1 DEF InWork
  <2>3. QED
    BY <1>3, <1>7, <2>2 DEF PullPost
<1>8. ASSUME NEW w \in Workers, StartWork(w)
      PROVE  WorkersCounted'
  <2>1. w \notin InWork /\ InWork' = InWork \union {w}
    BY <1>1, <1>8 DEF InWork, StartWork, WorkerGoes
  <2>2. Cardinality(InWork') = Cardinality(InWork) + 1
    BY <2>1, InWorkFinite, FS_AddElement
  <2>3. QED
    BY <1>1, <1>8, <2>2 DEF WorkersCounted, StartWork
<1>9. ASSUME NEW w \in Workers, Finish(w)
      PROVE  WorkersCounted'
  <2>1. w \in InWork /\ InWork' = InWork \ {w}
    BY <1>1, <1>9 DEF InWork, Finish, WorkerGoes
  <2>2. Cardinality(InWork') = Cardinality(InWork) - 1
    BY <2>1, InWorkFinite, FS_RemoveElement
  <2>3. QED
    BY <1>1, <1>9, <2>2 DEF WorkersCounted, Finish
<1>10. QED
  BY <1>2, <1>4, <1>5, <1>6, <1>7, <1>8, <1>9, LifeCases

(* num_threads_alive counts a thread from its start until it has counted    *)
(* itself out, and the busy wait of thpool_init ends when all have started. *)
LEMMA LifeAliveStep ==
  ASSUME LifeInv, LifeNext
  PROVE  AliveCounted' /\ alive' \in 0 .. Cardinality(Workers)
<1>1. /\ wpc \in [Workers -> LifePC] /\ v \in {0, 1}
      /\ alive = Cardinality(Alive)
      /\ mpc # "init" => \A w \in Workers : wpc[w] # "start"
  BY DEF LifeInv, LifeTypeOK, LockTypes, AliveCounted, LifePC
<1>2. /\ Alive \subseteq Workers /\ Alive' \subseteq Workers
      /\ IsFiniteSet(Alive) /\ Cardinality(Alive) \in Nat
  <2>1. Alive \subseteq Workers /\ Alive' \subseteq Workers
    BY DEF Alive
  <2>2. IsFiniteSet(Alive)
    BY <2>1, SubsetCounts
  <2>3. QED
    BY <2>1, <2>2, FS_CardinalityType
<1>3. AliveCounted' => alive' \in 0 .. Cardinality(Workers)
  <2>1. Cardinality(Alive') \in 0 .. Cardinality(Workers)
    BY <1>2, SubsetCounts
  <2>2. QED
    BY <2>1 DEF AliveCounted
<1>4. ASSUME Alive' = Alive, alive' = alive,
             mpc' # "init" => mpc # "init",
             \A w \in Workers : wpc'[w] = "start" => wpc[w] = "start"
      PROVE  AliveCounted'
  BY <1>1, <1>4 DEF AliveCounted
<1>5. CASE InitDone
  <2>1. Alive = Workers
    BY <1>1, <1>2, <1>5, SubsetCounts DEF InitDone
  <2>2. \A w \in Workers : wpc[w] # "start"
    BY <2>1 DEF Alive
  <2>3. wpc' = wpc /\ alive' = alive
    BY <1>5 DEF InitDone
  <2>4. Alive' = Alive
    BY <2>3 DEF Alive
  <2>5. alive' = Cardinality(Alive')
    BY <1>1, <2>3, <2>4
  <2>6. \A w \in Workers : wpc'[w] # "start"
    BY <2>2, <2>3
  <2>7. QED
    BY <1>3, <2>5, <2>6 DEF AliveCounted
<1>6. CASE StandStill /\ ~ InitDone
  <2>1. wpc' = wpc /\ alive' = alive
    BY <1>6, StandsStill
  <2>2. mpc' # "init" => mpc # "init"
    BY <1>6
       DEF StandStill, Calls, CallAdd, CallWait, Pause, Resume, Destroy,
           WaitWakesSpuriously, AddLink, WaitTests, FreePool, Hold, Unhold, vars
  <2>3. Alive' = Alive
    BY <2>1 DEF Alive
  <2>4. \A w \in Workers : wpc'[w] = "start" => wpc[w] = "start"
    BY <2>1
  <2>5. QED
    BY <1>3, <1>4, <2>1, <2>2, <2>3, <2>4
<1>7. CASE AddPost \/ PostAll
  <2>1. /\ \A w \in Workers :
             wpc'[w] = wpc[w] \/ (wpc[w] = "asleep" /\ wpc'[w] = "wait")
        /\ alive' = alive
    BY <1>1, <1>7, PostsMove
  <2>2. \A w \in Workers : w \in Alive <=> w \in Alive'
    BY <2>1 DEF Alive
  <2>3. Alive' = Alive
    BY <2>2 DEF Alive
  <2>4. mpc # "init"
    BY <1>7 DEF AddPost, PushPost, PostAll
  <2>5. \A w \in Workers : wpc'[w] = "start" => wpc[w] = "start"
    BY <2>1
  <2>6. QED
    BY <1>3, <1>4, <2>1, <2>3, <2>4, <2>5
<1>8. ASSUME NEW w \in Workers, Start(w)
      PROVE  AliveCounted'
  <2>1. w \notin Alive /\ Alive' = Alive \union {w}
    BY <1>1, <1>8 DEF Alive, Start, WorkerGoes
  <2>2. Cardinality(Alive') = Cardinality(Alive) + 1
    BY <1>2, <2>1, FS_AddElement
  <2>3. mpc = "init" /\ mpc' = mpc
    BY <1>1, <1>8 DEF Start, WorkerGoes
  <2>4. QED
    BY <1>1, <1>8, <2>2, <2>3 DEF AliveCounted, Start
<1>9. ASSUME NEW w \in Workers, ExitCount(w)
      PROVE  AliveCounted'
  <2>1. w \in Alive /\ Alive' = Alive \ {w}
    BY <1>1, <1>9 DEF Alive, ExitCount, WorkerGoes
  <2>2. Cardinality(Alive') = Cardinality(Alive) - 1
    BY <1>2, <2>1, FS_RemoveElement
  <2>3. /\ alive' = alive - 1 /\ mpc' = mpc
        /\ \A u \in Workers : wpc'[u] = "start" => wpc[u] = "start"
    BY <1>1, <1>9 DEF ExitCount, WorkerGoes
  <2>4. QED
    BY <1>1, <2>2, <2>3 DEF AliveCounted
<1>10. ASSUME NEW w \in Workers,
              \/ Move(w) /\ ~ Start(w) /\ ~ ExitCount(w)
              \/ StartWork(w) \/ Finish(w)
       PROVE  AliveCounted'
  <2>1. Alive' = Alive
    BY <1>1, <1>10
       DEF Alive, Move, WorkerGoes, TakeToken, Sleep, WakeSpuriously,
           PullUnlink, Run, SkipWork, ExitUnlock, StartWork, Finish
  <2>2. /\ alive' = alive /\ (mpc' # "init" => mpc # "init")
    BY <1>10
       DEF Move, TakeToken, Sleep, WakeSpuriously, PullUnlink, Run, SkipWork,
           ExitUnlock, StartWork, Finish
  <2>3. \A u \in Workers : wpc'[u] = "start" => wpc[u] = "start"
    BY <1>1, <1>10
       DEF Move, WorkerGoes, TakeToken, Sleep, WakeSpuriously,
           PullUnlink, Run, SkipWork, ExitUnlock, StartWork, Finish
  <2>4. QED
    BY <1>4, <2>1, <2>2, <2>3
<1>11. ASSUME NEW w \in Workers, PullPost(w)
       PROVE  AliveCounted'
  <2>1. /\ wpc[w] = "pulled" /\ wpc'[w] \in {"leave", "run"}
        /\ \A u \in Workers \ {w} :
             wpc'[u] = wpc[u] \/ (wpc[u] = "asleep" /\ wpc'[u] = "wait")
    BY <1>1, <1>11, LifePlacesKnown, PullPostMoves
  <2>2. \A u \in Workers : u \in Alive <=> u \in Alive'
    BY <2>1 DEF Alive
  <2>3. Alive' = Alive
    BY <2>2 DEF Alive
  <2>4. QED
    BY <1>4, <1>11, <2>1, <2>3 DEF PullPost
<1>12. QED
  BY <1>3, <1>5, <1>6, <1>7, <1>8, <1>9, <1>10, <1>11, LifeCases

(* rwmutex and the jobs in the workers' hands, as in LockStep.              *)
LEMMA LifeLockStep ==
  ASSUME LifeInv, LifeNext
  PROVE  LockHeld' /\ JobsHeld'
<1>1. /\ wpc \in [Workers -> LifePC] /\ v \in {0, 1}
      /\ job \in [Workers -> JobIds \union {None}]
      /\ LockHeld /\ JobsHeld
  BY DEF LifeInv, LifeTypeOK, JobTypes, LockTypes, LifePC
<1>2. Main \notin Workers /\ None \notin Workers /\ None # Main
  BY MainAssumption, NoneAssumption
<1>3. CASE StandStill
  <2>1. wpc' = wpc /\ job' = job
    BY <1>3, StandsStill
  <2>2. JobsHeld'
    BY <1>1, <2>1 DEF JobsHeld
  <2>3. CASE AddLink
    <3>1. rwmutex = None /\ rwmutex' = Main /\ mpc' = "push"
      BY <2>3 DEF AddLink
    <3>2. LockHeld'
      BY <1>1, <1>2, <2>1, <3>1 DEF LockHeld
    <3>3. QED
      BY <2>2, <3>2
  <2>4. CASE ~ AddLink
    <3>1. rwmutex' = rwmutex /\ (mpc' = "push" <=> mpc = "push")
      BY <1>3, <2>4
         DEF StandStill, Calls, CallAdd, CallWait, Pause, Resume, Destroy,
             WaitWakesSpuriously, WaitTests, FreePool, InitDone, Hold, Unhold,
             vars
    <3>2. LockHeld'
      BY <1>1, <2>1, <3>1 DEF LockHeld
    <3>3. QED
      BY <2>2, <3>2
  <2>5. QED
    BY <2>3, <2>4
<1>4. CASE AddPost \/ PostAll
  <2>1. /\ \A w \in Workers :
             wpc'[w] = wpc[w] \/ (wpc[w] = "asleep" /\ wpc'[w] = "wait")
        /\ job' = job
    BY <1>1, <1>4, PostsMove
  <2>2. \/ rwmutex = Main /\ rwmutex' = None /\ mpc' = "serve" /\ mpc = "push"
        \/ rwmutex' = rwmutex /\ mpc' = mpc
    BY <1>1, <1>4 DEF AddPost, PushPost, PostAll, LockHeld
  <2>3. LockHeld'
    BY <1>1, <1>2, <2>1, <2>2 DEF LockHeld
  <2>4. JobsHeld'
    BY <1>1, <2>1 DEF JobsHeld
  <2>5. QED
    BY <2>3, <2>4
<1>5. ASSUME NEW w \in Workers, PullUnlink(w)
      PROVE  LockHeld' /\ JobsHeld'
  <2>1. mpc # "push" /\ \A u \in Workers : wpc[u] # "pulled"
    BY <1>1, <1>2, <1>5 DEF PullUnlink, LockHeld
  <2>2. LockHeld'
    BY <1>1, <1>2, <1>5, <2>1 DEF PullUnlink, WorkerGoes, LockHeld
  <2>3. \A u \in Workers \ {w} : job'[u] = job[u] /\ wpc'[u] = wpc[u]
    BY <1>1, <1>5 DEF PullUnlink, WorkerGoes
  <2>4. wpc'[w] = "pulled"
    BY <1>1, <1>5 DEF PullUnlink, WorkerGoes
  <2>5. JobsHeld'
    BY <1>1, <2>3, <2>4 DEF JobsHeld
  <2>6. QED
    BY <2>2, <2>5
<1>6. ASSUME NEW w \in Workers, Run(w)
      PROVE  LockHeld' /\ JobsHeld'
  BY <1>1, <1>6 DEF LockHeld, JobsHeld, WorkerGoes, Run
<1>7. ASSUME NEW w \in Workers, PullPost(w)
      PROVE  LockHeld' /\ JobsHeld'
  <2>1. /\ wpc[w] = "pulled"
        /\ wpc'[w] = IF job[w] = None THEN "leave" ELSE "run"
        /\ \A u \in Workers \ {w} :
             wpc'[u] = wpc[u] \/ (wpc[u] = "asleep" /\ wpc'[u] = "wait")
    BY <1>1, <1>7, LifePlacesKnown, PullPostMoves
  <2>2. mpc' = mpc /\ rwmutex' = None /\ job' = job /\ rwmutex = w
    BY <1>1, <1>7, <2>1 DEF PullPost, LockHeld
  <2>3. LockHeld'
    BY <1>1, <1>2, <2>1, <2>2 DEF LockHeld
  <2>4. JobsHeld'
    BY <1>1, <2>1, <2>2 DEF JobsHeld
  <2>5. QED
    BY <2>3, <2>4
<1>8. ASSUME NEW w \in Workers,
             \/ Move(w) /\ ~ PullUnlink(w) /\ ~ Run(w)
             \/ StartWork(w) \/ Finish(w)
      PROVE  LockHeld' /\ JobsHeld'
  <2>1. /\ wpc[w] \notin {"pulled", "run"} /\ wpc'[w] \notin {"pulled", "run"}
        /\ \A u \in Workers \ {w} : wpc'[u] = wpc[u]
        /\ rwmutex' = rwmutex /\ job' = job
        /\ (mpc' = "push" <=> mpc = "push")
    BY <1>1, <1>8
       DEF Move, WorkerGoes, Start, TakeToken, Sleep, WakeSpuriously,
           SkipWork, ExitCount, ExitUnlock, StartWork, Finish
  <2>2. LockHeld'
    BY <1>1, <2>1 DEF LockHeld
  <2>3. JobsHeld'
    BY <1>1, <2>1 DEF JobsHeld
  <2>4. QED
    BY <2>2, <2>3
<1>9. QED
  BY <1>3, <1>4, <1>5, <1>6, <1>7, <1>8, LifeCases

(* Workers leave a pool that is being destroyed, one at a time with         *)
(* thcount_lock.                                                            *)
LEMMA LifeLeaveStep ==
  ASSUME LifeInv, LifeNext
  PROVE  LeaveLocked' /\ LeaveDestroyed'
<1>1. /\ wpc \in [Workers -> LifePC] /\ v \in {0, 1}
      /\ keepalive \in {0, 1}
      /\ LeaveLocked /\ LeaveDestroyed
  BY DEF LifeInv, LifeTypeOK, LockTypes, LifePC
<1>2. None \notin Workers
  BY NoneAssumption
<1>3. CASE StandStill
  <2>1. wpc' = wpc /\ thcount' = thcount
    BY <1>3, StandsStill
  <2>2. /\ \/ keepalive' = keepalive
           \/ keepalive = 1 /\ keepalive' = 0
        /\ keepalive' = 0 <=> mpc' \in {"destroy", "destroyed"}
    BY <1>1, <1>3
       DEF StandStill, Calls, CallAdd, CallWait, Pause, Resume, Destroy,
           WaitWakesSpuriously, AddLink, WaitTests, FreePool, InitDone, Hold,
           Unhold, vars, life, LeaveDestroyed
  <2>3. QED
    BY <1>1, <2>1, <2>2 DEF LeaveLocked, LeaveDestroyed
<1>4. CASE AddPost \/ PostAll
  <2>1. /\ \A w \in Workers :
             wpc'[w] = wpc[w] \/ (wpc[w] = "asleep" /\ wpc'[w] = "wait")
        /\ thcount' = thcount
    BY <1>1, <1>4, PostsMove
  <2>2. /\ keepalive' = keepalive
        /\ mpc' \in {"destroy", "destroyed"} <=> mpc \in {"destroy", "destroyed"}
    BY <1>4 DEF AddPost, PushPost, PostAll, life
  <2>3. QED
    BY <1>1, <2>1, <2>2 DEF LeaveLocked, LeaveDestroyed
<1>5. ASSUME NEW w \in Workers, ExitCount(w) \/ ExitUnlock(w)
      PROVE  LeaveLocked' /\ LeaveDestroyed'
  <2>1. /\ UNCHANGED <<mpc, keepalive>>
        /\ wpc[w] \in {"exit", "unlock"}
        /\ wpc' = [wpc EXCEPT ![w] = IF wpc[w] = "exit" THEN "unlock" ELSE "gone"]
        /\ thcount = IF wpc[w] = "exit" THEN None ELSE w
        /\ thcount' = IF wpc[w] = "exit" THEN w ELSE None
    BY <1>1, <1>5 DEF ExitCount, ExitUnlock, WorkerGoes, Free, LeaveLocked
  <2>2. LeaveLocked'
    BY <1>1, <1>2, <2>1 DEF LeaveLocked
  <2>3. LeaveDestroyed'
    BY <1>1, <2>1 DEF LeaveDestroyed
  <2>4. QED
    BY <2>2, <2>3
<1>6. ASSUME NEW w \in Workers, PullPost(w), UNCHANGED life
      PROVE  LeaveLocked' /\ LeaveDestroyed'
  <2>1. /\ wpc[w] = "pulled" /\ wpc'[w] \in {"leave", "run"}
        /\ \A u \in Workers \ {w} :
             wpc'[u] = wpc[u] \/ (wpc[u] = "asleep" /\ wpc'[u] = "wait")
    BY <1>1, <1>6, LifePlacesKnown, PullPostMoves
  <2>2. UNCHANGED <<mpc, keepalive, thcount>>
    BY <1>6 DEF PullPost, life
  <2>3. QED
    BY <1>1, <2>1, <2>2 DEF LeaveLocked, LeaveDestroyed
<1>7. ASSUME NEW w \in Workers,
             \/ Move(w) /\ ~ ExitCount(w) /\ ~ ExitUnlock(w)
             \/ StartWork(w) /\ UNCHANGED life
             \/ Finish(w)
      PROVE  LeaveLocked' /\ LeaveDestroyed'
  <2>1. /\ wpc[w] # "unlock" /\ wpc'[w] # "unlock"
        /\ wpc'[w] \in {"exit", "gone"} => keepalive = 0
        /\ \A u \in Workers \ {w} : wpc'[u] = wpc[u]
        /\ UNCHANGED <<thcount, keepalive>>
    BY <1>1, <1>7
       DEF Move, WorkerGoes, Start, TakeToken, Sleep, WakeSpuriously,
           PullUnlink, Run, SkipWork, StartWork, Finish, life
  <2>2. mpc' \in {"destroy", "destroyed"} <=> mpc \in {"destroy", "destroyed"}
    BY <1>7
       DEF Move, Start, TakeToken, Sleep, WakeSpuriously,
           PullUnlink, Run, SkipWork, StartWork, Finish
  <2>3. LeaveLocked'
    BY <1>1, <2>1 DEF LeaveLocked
  <2>4. LeaveDestroyed'
    BY <1>1, <2>1, <2>2 DEF LeaveDestroyed
  <2>5. QED
    BY <2>3, <2>4
<1>8. QED
  BY <1>3, <1>4, <1>5, <1>6, <1>7, LifeCases

(* The jobs are accounted for until the queue is freed; the workers have    *)
(* all left by then, so nothing is run afterwards.                          *)
LEMMA LifeJobsStep ==
  ASSUME LifeInv, LifeNext
  PROVE  JobsKept'
<1>1. /\ wpc \in [Workers -> LifePC] /\ v \in {0, 1}
      /\ JobTypes /\ JobsHeld /\ JobsKept /\ AliveCounted /\ LeaveDestroyed
      /\ mpc = "add" => added < MaxJobs
  BY DEF LifeInv, LifeTypeOK, LockTypes, AddBounded, LifePC
<1>2. Alive \subseteq Workers /\ IsFiniteSet(Alive)
  <2>1. Alive \subseteq Workers
    BY DEF Alive
  <2>2. QED
    BY <2>1, SubsetCounts
<1>3. alive = 0 => Alive = {}
  BY <1>1, <1>2, FS_EmptySet DEF AliveCounted
<1>4. CASE FreePool
  <2>1. mpc = "destroy" /\ alive = 0 /\ mpc' = "destroyed"
        /\ UNCHANGED <<alive, added, ran>>
    BY <1>4 DEF FreePool
  <2>2. \A w \in Workers : wpc[w] \in {"unlock", "gone"}
    BY <1>1, <1>3, <2>1 DEF Alive, AliveCounted
  <2>3. \A w \in Workers : job[w] = None
    BY <1>1, <2>2 DEF JobsHeld
  <2>4. JobsAccounted
    BY <1>1, <2>1 DEF JobsKept
  <2>5. PICK last \in 0 .. added : last = added - Len(queue)
    <3>1. /\ added \in Nat /\ Len(queue) \in Nat
          /\ Len(queue) <= added
      BY <1>1, <2>4, MaxJobsAssumption DEF JobTypes, JobsAccounted
    <3>2. added - Len(queue) \in 0 .. added
      BY <3>1
    <3>3. QED
      BY <3>2
  <2>6. \A j \in JobIds : Holders(j) = {}
    BY <2>3, NoneAssumption, MaxJobsAssumption DEF Holders, JobIds
  <2>7. added <= MaxJobs /\ added \in Nat
    BY <1>1, MaxJobsAssumption DEF JobTypes
  <2>8. ASSUME NEW j \in 1 .. added
        PROVE  ran[j] = IF j <= last THEN 1 ELSE 0
    <3>1. j \in JobIds
      BY <2>7, MaxJobsAssumption DEF JobIds
    <3>2. CASE j <= last
      <4>1. j \in 1 .. (added - Len(queue))
        BY <2>5, <3>2
      <4>2. \A w \in Workers : Holders(j) # {w}
        BY <2>6, <3>1
      <4>3. QED
        BY <2>4, <3>2, <4>1, <4>2 DEF JobsAccounted
    <3>3. CASE ~ (j <= last)
      <4>1. j > added - Len(queue)
        BY <2>5, <2>7, <3>3
      <4>2. QED
        BY <2>4, <3>1, <3>3, <4>1 DEF JobsAccounted
    <3>4. QED
      BY <3>2, <3>3
  <2>9. QED
    BY <2>1, <2>8 DEF JobsKept
<1>5. CASE mpc = "destroyed"
  <2>1. \A w \in Workers : wpc[w] \in {"unlock", "gone"}
    BY <1>1, <1>3, <1>5 DEF JobsKept, Alive, AliveCounted
  <2>2. UNCHANGED <<mpc, alive, added, ran>>
    <3>1. CASE StandStill
      BY <1>5, <3>1
         DEF StandStill, Calls, CallAdd, CallWait, Pause, Resume, Destroy,
             WaitWakesSpuriously, AddLink, WaitTests, FreePool, InitDone, Hold,
             Unhold, vars
    <3>2. CASE AddPost \/ PostAll
      BY <1>5, <3>2 DEF AddPost, PushPost, PostAll
    <3>3. ASSUME NEW w \in Workers,
                 Move(w) \/ PullPost(w) \/ StartWork(w) \/ Finish(w)
          PROVE  UNCHANGED <<mpc, alive, added, ran>>
      <4>1. wpc[w] \in {"unlock", "gone"}
        BY <2>1
      <4>2. ExitUnlock(w)
        BY <3>3, <4>1
           DEF Move, WorkerGoes, Start, TakeToken, Sleep, WakeSpuriously,
               PullUnlink, Run, SkipWork, ExitCount, PullPost, StartWork, Finish
      <4>3. QED
        BY <4>2 DEF ExitUnlock
    <3>4. QED
      BY <3>1, <3>2, <3>3, LifeCases
  <2>3. QED
    BY <1>1, <1>5, <2>2 DEF JobsKept
<1>6. CASE mpc # "destroyed" /\ ~ FreePool
  <2>1. JobTypes /\ JobsHeld /\ JobsAccounted
    BY <1>1, <1>6 DEF JobsKept
  <2>2. /\ mpc' # "destroyed"
        /\ \/ LinkJob
           \/ \E w \in Workers : PullUnlink(w) \/ Run(w)
           \/ UNCHANGED <<added, queue, job, ran>>
    <3>1. CASE StandStill
      BY <1>1, <1>6, <3>1
         DEF StandStill, Calls, CallAdd, CallWait, Pause, Resume, Destroy,
             WaitWakesSpuriously, AddLink, WaitTests, InitDone, Hold,
             Unhold, vars, LinkJob
    <3>2. CASE AddPost \/ PostAll
      BY <1>6, <3>2 DEF AddPost, PushPost, PostAll
    <3>3. ASSUME NEW w \in Workers,
                 Move(w) \/ PullPost(w) \/ StartWork(w) \/ Finish(w)
          PROVE  /\ mpc' # "destroyed"
                 /\ \/ PullUnlink(w) \/ Run(w)
                    \/ UNCHANGED <<added, queue, job, ran>>
      BY <1>6, <3>3
         DEF Move, Start, TakeToken, Sleep, WakeSpuriously, PullUnlink, Run,
             SkipWork, ExitCount, ExitUnlock, PullPost, StartWork, Finish
    <3>4. QED
      BY <3>1, <3>2, <3>3, LifeCases
  <2>3. JobsAccounted'
    BY <2>1, <2>2, AccountedMoves
  <2>4. QED
    BY <2>2, <2>3 DEF JobsKept
<1>7. QED
  BY <1>4, <1>5, <1>6

LEMMA LifeTypesStep ==
  ASSUME LifeInv, LifeNext
  PROVE  LifeTypeOK' /\ JobTypes' /\ LockTypes' /\ AddBounded'
<1>1. /\ working' \in 0 .. Cardinality(Workers)
      /\ alive' \in 0 .. Cardinality(Workers)
  BY LifeWorkingStep, LifeAliveStep
<1>2. LifeTypeOK /\ JobTypes /\ LockTypes /\ AddBounded /\ JobsHeld
  BY DEF LifeInv
<1>3. wpc \in [Workers -> LifePC] /\ v \in {0, 1}
  BY <1>2 DEF LifeTypeOK, LockTypes, LifePC
<1> DEFINE MPC == MainPC \union {"add", "wait", "waiting", "destroy", "destroyed"}
<1> DEFINE PauseTypes ==
      /\ keepalive \in {0, 1} /\ thcount \in Workers \union {None}
      /\ on_hold \in {0, 1} /\ pending \subseteq Workers /\ paused \subseteq Workers
      /\ locked \in [Workers -> {"none", "bsem", "thcount"}]
<1> DEFINE Goal ==
      /\ mpc' \in MPC /\ wpc' \in [Workers -> LifePC]
      /\ queue' \in Seq(JobIds) /\ added' \in 0 .. MaxJobs
      /\ job' \in [Workers -> JobIds \union {None}] /\ ran' \in [JobIds -> Nat]
      /\ v' \in {0, 1} /\ rwmutex' \in Workers \union {Main, None}
      /\ PauseTypes' /\ AddBounded'
<1>4. SUFFICES Goal
  BY <1>1 DEF LifeTypeOK, JobTypes, LockTypes, LifePC
<1>5. /\ mpc \in MPC /\ PauseTypes
  BY <1>2 DEF LifeTypeOK
<1>6. CASE Calls \/ WaitWakesSpuriously \/ WaitTests \/ FreePool
           \/ (InitDone /\ UNCHANGED life)
  <2>1. /\ mpc' \in MPC /\ UNCHANGED <<wpc, added, job, ran, rwmutex>>
        /\ queue' = queue \/ queue' = << >>
        /\ v' \in {v, 0}
        /\ PauseTypes' /\ AddBounded'
    BY <1>2, <1>5, <1>6
       DEF Calls, CallAdd, CallWait, Pause, Resume, Destroy, InitDone,
           WaitWakesSpuriously, WaitTests, FreePool, vars, life, pause, MainPC,
           AddBounded
  <2>2. queue' \in Seq(JobIds)
    <3>1. queue \in Seq(JobIds) /\ << >> \in Seq(JobIds)
      BY <1>2 DEF JobTypes
    <3>2. queue' = queue \/ queue' = << >>
      BY <2>1
    <3>3. CASE queue' = queue
      BY <3>1, <3>3
    <3>4. CASE queue' = << >>
      BY <3>1, <3>4, Zenon
    <3>5. QED
      BY <3>2, <3>3, <3>4
  <2>3. /\ wpc' \in [Workers -> LifePC] /\ added' \in 0 .. MaxJobs
        /\ job' \in [Workers -> JobIds \union {None}] /\ ran' \in [JobIds -> Nat]
        /\ v' \in {0, 1} /\ rwmutex' \in Workers \union {Main, None}
    BY <1>2, <1>3, <2>1 DEF JobTypes, LockTypes
  <2>4. QED
    BY <2>1, <2>2, <2>3, Zenon
<1>7. ASSUME NEW w \in Workers, Hold(w) \/ Unhold(w)
      PROVE  Goal
  <2>1. LocksAt(wpc[w]) \subseteq {"bsem", "thcount"}
    BY DEF LocksAt
  <2>2. PauseTypes'
    BY <1>5, <1>7, <2>1 DEF Hold, Unhold, vars
  <2>3. UNCHANGED vars
    BY <1>7 DEF Hold, Unhold
  <2>4. QED
    BY <1>2, <1>3, <1>5, <2>2, <2>3 DEF JobTypes, LockTypes, AddBounded, vars
<1>8. CASE AddLink
  <2>1. added' \in JobIds /\ added' \in 0 .. MaxJobs
    BY <1>2, <1>8, MaxJobsAssumption DEF AddLink, AddBounded, JobTypes, JobIds
  <2>2. queue' \in Seq(JobIds)
    BY <1>2, <1>8, <2>1 DEF AddLink, JobTypes
  <2>3. QED
    BY <1>2, <1>3, <1>5, <1>8, <2>1, <2>2
       DEF AddLink, JobTypes, LockTypes, MainPC, life, pause, AddBounded
<1>9. CASE AddPost \/ PostAll
  <2>1. v' = 1 /\ wpc' \in [Workers -> LifePC] /\ UNCHANGED <<job, ran, added, queue>>
    BY <1>3, <1>9, PostsMove
  <2>2. mpc' \in MPC /\ mpc' # "add" /\ rwmutex' \in {rwmutex, None} /\ UNCHANGED life
    BY <1>5, <1>9 DEF AddPost, PushPost, PostAll, MainPC
  <2>3. PauseTypes'
    BY <1>5, <2>2 DEF life, pause
  <2>4. QED
    BY <1>2, <2>1, <2>2, <2>3 DEF JobTypes, LockTypes, AddBounded
<1>10. ASSUME NEW w \in Workers, PullUnlink(w), UNCHANGED life
       PROVE  Goal
  <2>1. queue' \in Seq(JobIds) /\ job' \in [Workers -> JobIds \union {None}]
    <3>1. CASE queue = << >>
      BY <1>2, <1>10, <3>1 DEF PullUnlink, JobTypes
    <3>2. CASE queue # << >>
      <4>1. Head(queue) \in JobIds /\ Tail(queue) \in Seq(JobIds)
        BY <1>2, <3>2 DEF JobTypes
      <4>2. QED
        BY <1>2, <1>10, <3>2, <4>1 DEF PullUnlink, JobTypes
    <3>3. QED
      BY <3>1, <3>2
  <2>2. /\ wpc' \in [Workers -> LifePC] /\ rwmutex' = w
        /\ UNCHANGED <<mpc, added, v, ran>>
    BY <1>3, <1>10 DEF PullUnlink, WorkerGoes, WorkerPC, LifePC
  <2>3. PauseTypes'
    BY <1>5, <1>10 DEF life, pause
  <2>4. QED
    BY <1>2, <1>5, <2>1, <2>2, <2>3 DEF JobTypes, LockTypes, AddBounded
<1>11. ASSUME NEW w \in Workers, Run(w), UNCHANGED life
       PROVE  Goal
  <2>1. job[w] \in JobIds
    BY <1>2, <1>11 DEF JobTypes, JobsHeld, Run, WorkerGoes
  <2>2. /\ wpc' \in [Workers -> LifePC]
        /\ job' \in [Workers -> JobIds \union {None}] /\ ran' \in [JobIds -> Nat]
        /\ UNCHANGED <<mpc, added, queue, rwmutex, v>>
    BY <1>2, <1>3, <1>11, <2>1 DEF Run, WorkerGoes, WorkerPC, LifePC, JobTypes
  <2>3. PauseTypes'
    BY <1>5, <1>11 DEF life, pause
  <2>4. QED
    BY <1>2, <1>5, <2>2, <2>3 DEF JobTypes, LockTypes, AddBounded
<1>12. ASSUME NEW w \in Workers, PullPost(w), UNCHANGED life
       PROVE  Goal
  <2>1. wpc' \in [Workers -> LifePC] /\ v' \in {0, 1}
    BY <1>3, <1>12, LifePlacesKnown, PullPostMoves
  <2>2. rwmutex' = None /\ UNCHANGED <<mpc, added, queue, job, ran>>
    BY <1>12 DEF PullPost
  <2>3. PauseTypes'
    BY <1>5, <1>12 DEF life, pause
  <2>4. QED
    BY <1>2, <1>5, <2>1, <2>2, <2>3 DEF JobTypes, LockTypes, AddBounded
<1>13. ASSUME NEW w \in Workers,
              \/ Move(w) /\ ~ PullUnlink(w) /\ ~ Run(w)
              \/ StartWork(w) /\ UNCHANGED life
              \/ Finish(w)
       PROVE  Goal
  <2>1. /\ wpc' \in [Workers -> LifePC]
        /\ v' \in {v, 0} /\ mpc' \in {mpc, "wait"}
        /\ UNCHANGED <<added, queue, rwmutex, job, ran>>
    BY <1>3, <1>13
       DEF Move, WorkerGoes, Start, TakeToken, Sleep, WakeSpuriously,
           SkipWork, ExitCount, ExitUnlock, StartWork, Finish, WorkerPC, LifePC
  <2>2. PauseTypes'
    BY <1>5, <1>13
       DEF Move, SkipWork, ExitCount, ExitUnlock, StartWork, Finish, life, pause
  <2>3. QED
    BY <1>2, <1>3, <1>5, <2>1, <2>2 DEF JobTypes, LockTypes, AddBounded, MainPC
<1> HIDE DEF Goal
<1>14. CASE StandStill
  BY <1>6, <1>7, <1>8, <1>14, Zenon DEF StandStill
<1>15. ASSUME NEW w \in Workers, Move(w)
       PROVE  Goal
  <2>1. CASE PullUnlink(w) \/ Run(w)
    <3>1. UNCHANGED life
      BY <1>15, <2>1
         DEF Move, WorkerGoes, Start, TakeToken, Sleep, WakeSpuriously,
             PullUnlink, Run, SkipWork, ExitCount, ExitUnlock
    <3>2. QED
      BY <1>10, <1>11, <2>1, <3>1
  <2>2. CASE ~ PullUnlink(w) /\ ~ Run(w)
    BY <1>13, <1>15, <2>2
  <2>3. QED
    BY <2>1, <2>2
<1>16. QED
  BY <1>9, <1>12, <1>13, <1>14, <1>15, LifeCases, Zenon

LEMMA NextLifeInv == LifeInv /\ [LifeNext]_allVars => LifeInv'
<1> SUFFICES ASSUME LifeInv, [LifeNext]_allVars PROVE LifeInv'
  OBVIOUS
<1>1. CASE LifeNext
  BY <1>1, LifeTypesStep, LifeWorkingStep, LifeAliveStep, LifeLockStep,
     LifeLeaveStep, LifeJobsStep
     DEF LifeInv
<1>2. CASE UNCHANGED allVars
  <2>1. UNCHANGED vars /\ UNCHANGED life
    BY <1>2 DEF allVars
  <2>2. InWork' = InWork /\ Alive' = Alive
    BY <2>1 DEF vars, InWork, Alive
  <2>3. LifeTypeOK' /\ JobTypes' /\ LockTypes' /\ AddBounded'
    BY <2>1 DEF vars, life, pause, LifeInv, LifeTypeOK, JobTypes, LockTypes, AddBounded
  <2>4. WorkersCounted' /\ AliveCounted'
    BY <2>1, <2>2 DEF vars, LifeInv, WorkersCounted, AliveCounted
  <2>5. LockHeld' /\ JobsHeld' /\ LeaveLocked' /\ LeaveDestroyed'
    BY <2>1
       DEF vars, life, LifeInv, LockHeld, JobsHeld, LeaveLocked, LeaveDestroyed
  <2>6. JobsKept'
    BY <2>1 DEF vars, LifeInv, JobsKept, JobsAccounted, Holders
  <2>7. QED
    BY <2>3, <2>4, <2>5, <2>6 DEF LifeInv
<1>3. QED
  BY <1>1, <1>2

(* The pool's bookkeeping stays right while it is paused, waited for and    *)
(* destroyed.                                                               *)
THEOREM LifeInvariantHolds == LifeSpec => []LifeInv
<1>1. QED
  BY InitLifeInv, NextLifeInv, PTL DEF LifeSpec

(* thpool_destroy frees the pool when every worker has left its loop, all   *)
(* the jobs taken having been run to their end.                             *)
THEOREM DestroyIsClean == LifeSpec => []DestroyedClean
<1>1. ASSUME LifeInv PROVE DestroyedClean
  <2>1. LifeTypeOK
    BY <1>1 DEF LifeInv
  <2>2. ASSUME mpc = "destroyed"
        PROVE  /\ \A w \in Workers :
                    wpc[w] = "gone" \/ <<wpc[w], thcount>> = <<"unlock", w>>
               /\ rwmutex = None
               /\ \E last \in 0 .. added :
                    \A j \in 1 .. added : ran[j] = IF j <= last THEN 1 ELSE 0
    <3>1. alive = 0 /\ alive = Cardinality(Alive)
      BY <1>1, <2>2 DEF LifeInv, JobsKept, AliveCounted
    <3>2. Alive \subseteq Workers
      BY DEF Alive
    <3>3. Alive = {}
      BY <3>1, <3>2, SubsetCounts, FS_EmptySet
    <3>4. \A w \in Workers : wpc[w] \in {"unlock", "gone"}
      BY <1>1, <2>2, <3>3 DEF LifeInv, Alive, AliveCounted
    <3>5. \A w \in Workers : wpc[w] = "unlock" => thcount = w
      BY <1>1 DEF LifeInv, LeaveLocked
    <3>6. rwmutex = None
      BY <1>1, <2>2, <3>4 DEF LifeInv, LockTypes, LockHeld
    <3>7. QED
      BY <1>1, <2>2, <3>4, <3>5, <3>6 DEF LifeInv, JobsKept
  <2>3. QED
    BY <2>1, <2>2 DEF DestroyedClean
<1>2. QED
  BY <1>1, LifeInvariantHolds, PTL

(* thpool_wait returns only when all the jobs added have been run.          *)
THEOREM WaitSeesAllDone == LifeSpec => WaitMeansDone
<1> DEFINE Returned ==
      mpc = "wait" /\ mpc' = "serve" => \A j \in 1 .. added : ran[j] = 1
<1>1. LifeInv /\ [LifeNext]_allVars => [Returned]_allVars
  <2> SUFFICES ASSUME LifeInv, LifeNext, mpc = "wait", mpc' = "serve",
                      NEW j \in 1 .. added
               PROVE  ran[j] = 1
    OBVIOUS
  <2>1. WaitTests
    <3>1. ~ StandStill => FALSE
      BY LifeCases
         DEF AddPost, PushPost, PostAll, Move, Start, TakeToken, Sleep,
             WakeSpuriously, PullUnlink, Run, SkipWork, ExitCount, ExitUnlock,
             PullPost, StartWork, Finish
    <3>2. QED
      BY <3>1
         DEF StandStill, Calls, CallAdd, CallWait, Pause, Resume, Destroy,
             WaitWakesSpuriously, AddLink, FreePool, InitDone, Hold, Unhold, vars
  <2>2. queue = << >> /\ working = 0
    BY <2>1 DEF WaitTests
  <2>3. IdleMeansDone
    BY IdleIsDone DEF LifeInv, JobsKept
  <2>4. QED
    BY <2>2, <2>3 DEF IdleMeansDone
<1>2. QED
  BY <1>1, LifeInvariantHolds, PTL DEF LifeSpec, WaitMeansDone
=============================================================================
