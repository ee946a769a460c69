--------------------------- MODULE Task2And4Proofs ---------------------------
(***************************************************************************)
(* Proofs about MonteCarlo, for any finite set of threads, any number of   *)
(* rounds and whatever the threads count; and about DuplexPipe, for any    *)
(* file, any base of the characters and any pages that a full packet fills *)
(* but for the end of the last one.                                        *)
(***************************************************************************)
EXTENDS MonteCarlo, DuplexPipe, FiniteSetTheorems, SequenceTheorems, TLAPS

(***************************************************************************)
(* MonteCarlo.                                                             *)
(***************************************************************************)
(* The threads that have reported are finitely many; when as many as there  *)
(* are have reported, all of them have.                                     *)
LEMMA ReportedFinite ==
  ASSUME NEW r \in RoundIds
  PROVE  /\ IsFiniteSet(Reported(r))
         /\ Cardinality(Threads) \in Nat
         /\ Cardinality(Reported(r)) \in 0 .. Cardinality(Threads)
         /\ Cardinality(Reported(r)) = Cardinality(Threads) =>
              Reported(r) = Threads
<1>1. Reported(r) \in SUBSET Threads
  BY DEF Reported
<1>2. /\ IsFiniteSet(Reported(r))
      /\ Cardinality(Reported(r)) <= Cardinality(Threads)
      /\ Cardinality(Threads) = Cardinality(Reported(r)) => Threads = Reported(r)
  BY <1>1, ThreadsAssumption, FS_Subset
<1>3. Cardinality(Reported(r)) \in Nat /\ Cardinality(Threads) \in Nat
  BY <1>2, ThreadsAssumption, FS_CardinalityType
<1>4. QED
  BY <1>2, <1>3

LEMMA InitIInv == Init => IInv
<1> SUFFICES ASSUME Init PROVE IInv
  OBVIOUS
<1>1. TypeOK
  <2>1. 0 \in 0 .. Cardinality(Threads)
    BY ThreadsAssumption, FS_CardinalityType
  <2>2. QED
    BY <2>1, RoundsAssumption
       DEF Init, TypeOK, ParentPC, ThreadPC, RoundIds
<1>2. MutexHeld
  BY NoneAssumption DEF Init, MutexHeld, InSection
<1>3. NotForked
  BY DEF Init, NotForked
<1>4. PassedReported
  BY DEF Init, PassedReported, Passed, RoundIds
<1>5. StatusCounts
  BY DEF Init, StatusCounts
<1>6. QED
  BY <1>1, <1>2, <1>3, <1>4, <1>5 DEF IInv

(* A thread that is about to store shm[0] is one of the round the parent    *)
(* waits for: the threads of later rounds do not exist, those of earlier    *)
(* ones have all reported.                                                  *)
LEMMA StoresInWait ==
  ASSUME IInv, NEW r \in RoundIds, NEW t \in Threads,
         tpc[r][t] \in {"generate", "lock", "load0", "store0"}
  PROVE  r = round /\ ppc = "wait"
<1>1. t \notin Reported(r)
  BY DEF Reported
<1>2. ~ Passed(r)
  BY <1>1 DEF IInv, PassedReported
<1>3. r <= round /\ (r = round => ppc \notin {"status", "points", "fork"})
  <2>1. tpc[r][t] # "none"
    OBVIOUS
  <2>2. ~ (r > round \/ (r = round /\ ppc \in {"status", "points", "fork"}))
    BY <2>1 DEF IInv, NotForked
  <2>3. r \in Int /\ round \in Int
    BY DEF IInv, TypeOK, RoundIds
  <2>4. QED
    BY <2>2, <2>3
<1>4. QED
  BY <1>2, <1>3 DEF Passed, IInv, TypeOK, ParentPC, RoundIds

(* What a step of thread t of round r does to the places of the others.     *)
LEMMA OthersStay ==
  ASSUME TypeOK, NEW r \in RoundIds, NEW t \in Threads,
         NEW from \in ThreadPC, NEW to \in ThreadPC,
         ThreadGoes(r, t, from, to)
  PROVE  /\ tpc[r][t] = from
         /\ tpc' \in [RoundIds -> [Threads -> ThreadPC]]
         /\ tpc'[r][t] = to
         /\ \A q \in RoundIds, u \in Threads :
              q # r \/ u # t => tpc'[q][u] = tpc[q][u]
  BY DEF TypeOK, ThreadGoes

HasReported == {"load1", "store1", "unlock", "exit"}

(* A step of a thread leaves the rounds in order, and changes who has       *)
(* reported only by storing shm[0].                                         *)
LEMMA ThreadStep ==
  ASSUME IInv, NEW r \in RoundIds, NEW t \in Threads,
         NEW from \in ThreadPC \ {"none"}, NEW to \in ThreadPC \ {"none"},
         from \in HasReported => to \in HasReported,
         ThreadGoes(r, t, from, to), UNCHANGED parent
  PROVE  /\ NotForked'
         /\ PassedReported'
         /\ \A q \in RoundIds : q # r => Reported(q)' = Reported(q)
         /\ Reported(r)' =
              IF to \in HasReported THEN Reported(r) \union {t} ELSE Reported(r)
<1>1. /\ tpc[r][t] = from
      /\ tpc'[r][t] = to
      /\ \A q \in RoundIds, u \in Threads :
           q # r \/ u # t => tpc'[q][u] = tpc[q][u]
  BY OthersStay DEF IInv
<1>2. round' = round /\ ppc' = ppc
  BY DEF parent
<1>3. \A q \in RoundIds : q # r => Reported(q)' = Reported(q)
  BY <1>1 DEF Reported
<1>4. Reported(r)' =
        IF to \in HasReported THEN Reported(r) \union {t} ELSE Reported(r)
  BY <1>1 DEF Reported, HasReported
<1>5. NotForked'
  <2>1. ~ (r > round \/ (r = round /\ ppc \in {"status", "points", "fork"}))
    BY <1>1 DEF IInv, NotForked
  <2>2. QED
    BY <1>1, <1>2, <2>1 DEF IInv, NotForked
<1>6. PassedReported'
  BY <1>2, <1>3, <1>4 DEF IInv, PassedReported, Passed, Reported
<1>7. QED
  BY <1>3, <1>4, <1>5, <1>6

(* A step of a thread that neither stores shm[0] nor ends a load of it      *)
(* leaves what StatusCounts says.                                           *)
LEMMA StatusKept ==
  ASSUME IInv, NEW r \in RoundIds, NEW t \in Threads,
         NEW from \in ThreadPC, NEW to \in ThreadPC,
         ThreadGoes(r, t, from, to), UNCHANGED <<parent, shm0>>,
         \A q \in RoundIds : Reported(q)' = Reported(q),
         to # "store0",
         \A q \in RoundIds, u \in Threads :
           q # r \/ u # t => reg'[q][u] = reg[q][u]
  PROVE  StatusCounts'
<1>1. /\ tpc'[r][t] = to
      /\ \A q \in RoundIds, u \in Threads :
           q # r \/ u # t => tpc'[q][u] = tpc[q][u]
  BY OthersStay DEF IInv
<1>2. round' = round /\ ppc' = ppc /\ shm0' = shm0
  BY DEF parent
<1>3. round \in RoundIds
  BY DEF IInv, TypeOK
<1>4. Reported(round)' = Reported(round)
  BY <1>2, <1>3 DEF Reported
<1>5. QED
  BY <1>1, <1>2, <1>3, <1>4 DEF IInv, StatusCounts

(* The thread that stores shm[0] has loaded what it still holds, so the     *)
(* count stays the number of those that have reported.                      *)
LEMMA ReportedGrows ==
  ASSUME IInv, NEW r \in RoundIds, NEW t \in Threads, r = round, ppc = "wait",
         StoreStatus(r, t)
  PROVE  shm0' = Cardinality(Reported(r)')
<1>1. tpc[r][t] = "store0" /\ ThreadGoes(r, t, "store0", "load1")
  BY DEF StoreStatus, ThreadGoes
<1>2. Reported(r)' = Reported(r) \union {t}
  <2>1. /\ tpc'[r][t] = "load1"
        /\ \A u \in Threads : u # t => tpc'[r][u] = tpc[r][u]
    BY <1>1, OthersStay DEF IInv, ThreadPC
  <2>2. QED
    BY <2>1 DEF Reported
<1>3. t \notin Reported(r)
  BY <1>1 DEF Reported
<1>4. shm0' = Cardinality(Reported(r)) + 1
  BY <1>1 DEF StoreStatus, IInv, StatusCounts
<1>5. QED
  BY <1>2, <1>3, <1>4, ReportedFinite, FS_AddElement

(* Every step keeps the invariant: one step of the proof for each action.   *)
LEMMA NextIInv == IInv /\ [Next]_vars => IInv'
<1> SUFFICES ASSUME IInv, [Next]_vars PROVE IInv'
  OBVIOUS
<1>1. CASE ResetStatus
  <2> USE <1>1
  <2>1. TypeOK'
    BY ThreadsAssumption, FS_CardinalityType
       DEF ResetStatus, ParentGoes, children, IInv, TypeOK, ParentPC
  <2>2. MutexHeld' /\ NotForked' /\ PassedReported' /\ StatusCounts'
    BY DEF ResetStatus, ParentGoes, children, IInv, MutexHeld, NotForked,
           PassedReported, Passed, Reported, StatusCounts
  <2>3. QED
    BY <2>1, <2>2 DEF IInv
<1>2. CASE ResetPoints
  <2> USE <1>2
  <2>1. TypeOK'
    BY ThreadsAssumption, FS_CardinalityType
       DEF ResetPoints, ParentGoes, children, IInv, TypeOK, ParentPC
  <2>2. MutexHeld' /\ NotForked' /\ PassedReported' /\ StatusCounts'
    BY DEF ResetPoints, ParentGoes, children, IInv, MutexHeld, NotForked,
           PassedReported, Passed, Reported, StatusCounts
  <2>3. QED
    BY <2>1, <2>2 DEF IInv
<1>3. CASE Fork
  <2> USE <1>3
  <2>1. /\ round \in RoundIds /\ ppc = "fork" /\ ppc' = "wait"
        /\ round' = round /\ shm0' = shm0 /\ shm0 = 0
    BY DEF Fork, ParentGoes, IInv, TypeOK, StatusCounts
  <2>2. /\ tpc' \in [RoundIds -> [Threads -> ThreadPC]]
        /\ \A t \in Threads : tpc'[round][t] = "generate"
        /\ \A q \in RoundIds : q # round => tpc'[q] = tpc[q]
        /\ \A t \in Threads : tpc[round][t] = "none"
    BY <2>1 DEF Fork, IInv, TypeOK, ThreadPC, NotForked
  <2>3. TypeOK'
    BY <2>1, <2>2 DEF Fork, children, IInv, TypeOK, ParentPC
  <2>4. MutexHeld'
    BY <2>2 DEF Fork, children, IInv, MutexHeld, InSection
  <2>5. NotForked'
    BY <2>1, <2>2 DEF IInv, NotForked, RoundIds
  <2>6. PassedReported'
    BY <2>1, <2>2 DEF IInv, PassedReported, Passed, Reported, RoundIds
  <2>7. StatusCounts'
    <3>1. Reported(round)' = {}
      BY <2>1, <2>2 DEF Reported
    <3>2. QED
      BY <2>1, <2>2, <3>1, FS_EmptySet DEF StatusCounts
  <2>8. QED
    BY <2>3, <2>4, <2>5, <2>6, <2>7 DEF IInv
<1>4. CASE AllReported
  <2> USE <1>4
  <2>1. Reported(round) = Threads
    BY ReportedFinite
       DEF AllReported, ParentGoes, IInv, TypeOK, StatusCounts
  <2>2. TypeOK'
    BY DEF AllReported, ParentGoes, children, IInv, TypeOK, ParentPC
  <2>3. MutexHeld' /\ NotForked' /\ StatusCounts'
    BY DEF AllReported, ParentGoes, children, IInv, MutexHeld, NotForked,
           StatusCounts
  <2>4. PassedReported'
    BY <2>1 DEF AllReported, ParentGoes, children, IInv, PassedReported,
                Passed, Reported
  <2>5. QED
    BY <2>2, <2>3, <2>4 DEF IInv
<1>5. CASE ReadPoints
  <2> USE <1>5
  <2>1. TypeOK'
    BY RoundsAssumption
       DEF ReadPoints, children, IInv, TypeOK, ParentPC, RoundIds
  <2>2. MutexHeld' /\ StatusCounts'
    BY DEF ReadPoints, children, IInv, MutexHeld, StatusCounts
  <2>3. NotForked'
    BY DEF ReadPoints, IInv, TypeOK, NotForked, RoundIds
  <2>4. PassedReported'
    BY DEF ReadPoints, IInv, TypeOK, PassedReported, Passed, Reported, RoundIds
  <2>5. QED
    BY <2>1, <2>2, <2>3, <2>4 DEF IInv
<1>6. ASSUME NEW r \in RoundIds, NEW t \in Threads, Generate(r, t) PROVE IInv'
  <2> USE <1>6
  <2>1. ThreadGoes(r, t, "generate", "lock") /\ UNCHANGED parent
    BY DEF Generate
  <2>2. /\ tpc' \in [RoundIds -> [Threads -> ThreadPC]]
        /\ tpc'[r][t] = "lock"
        /\ tpc[r][t] = "generate"
        /\ \A q \in RoundIds, u \in Threads :
             q # r \/ u # t => tpc'[q][u] = tpc[q][u]
    BY <2>1, OthersStay DEF IInv, ThreadPC
  <2>3. /\ NotForked'
        /\ PassedReported'
        /\ \A q \in RoundIds : q # r => Reported(q)' = Reported(q)
        /\ Reported(r)' = Reported(r)
    BY <2>1, ThreadStep DEF ThreadPC, HasReported
  <2>4. TypeOK'
    <3>1. PICK n \in Int : s' = [s EXCEPT ![r][t] = n]
      BY CountsAssumption DEF Generate
    <3>2. s' \in [RoundIds -> [Threads -> Int]]
      BY <3>1 DEF IInv, TypeOK
    <3>3. QED
      BY <2>1, <2>2, <3>2 DEF Generate, parent, IInv, TypeOK
  <2>5. MutexHeld'
    BY <2>2 DEF Generate, children, IInv, TypeOK, MutexHeld, InSection
  <2>6. StatusCounts'
    <3>1. \A q \in RoundIds : Reported(q)' = Reported(q)
      BY <2>2, <2>3 DEF Reported
    <3>2. /\ shm0' = shm0
          /\ \A q \in RoundIds, u \in Threads :
               q # r \/ u # t => reg'[q][u] = reg[q][u]
      BY DEF Generate, children, IInv, TypeOK
    <3>3. QED
      BY <2>1, <3>1, <3>2, StatusKept DEF ThreadPC
  <2>7. QED
    BY <2>3, <2>4, <2>5, <2>6 DEF IInv
<1>7. ASSUME NEW r \in RoundIds, NEW t \in Threads, Lock(r, t) PROVE IInv'
  <2> USE <1>7
  <2>1. ThreadGoes(r, t, "lock", "load0") /\ UNCHANGED parent
    BY DEF Lock
  <2>2. /\ tpc' \in [RoundIds -> [Threads -> ThreadPC]]
        /\ tpc'[r][t] = "load0"
        /\ tpc[r][t] = "lock"
        /\ \A q \in RoundIds, u \in Threads :
             q # r \/ u # t => tpc'[q][u] = tpc[q][u]
    BY <2>1, OthersStay DEF IInv, ThreadPC
  <2>3. /\ NotForked'
        /\ PassedReported'
        /\ \A q \in RoundIds : q # r => Reported(q)' = Reported(q)
        /\ Reported(r)' = Reported(r)
    BY <2>1, ThreadStep DEF ThreadPC, HasReported
  <2>4. TypeOK'
    BY <2>1, <2>2 DEF Lock, children, parent, IInv, TypeOK
  <2>5. MutexHeld'
    <3>1. /\ pmutex[r] = None /\ pmutex'[r] = t
          /\ \A q \in RoundIds : q # r => pmutex'[q] = pmutex[q]
      BY DEF Lock, IInv, TypeOK
    <3>2. \A u \in Threads : tpc[r][u] \notin InSection
      BY <3>1, NoneAssumption DEF IInv, MutexHeld
    <3>3. QED
      BY <2>2, <3>1, <3>2 DEF IInv, MutexHeld, InSection
  <2>6. StatusCounts'
    <3>1. \A q \in RoundIds : Reported(q)' = Reported(q)
      BY <2>2, <2>3 DEF Reported
    <3>2. /\ shm0' = shm0
          /\ \A q \in RoundIds, u \in Threads :
               q # r \/ u # t => reg'[q][u] = reg[q][u]
      BY DEF Lock, children, IInv, TypeOK
    <3>3. QED
      BY <2>1, <3>1, <3>2, StatusKept DEF ThreadPC
  <2>7. QED
    BY <2>3, <2>4, <2>5, <2>6 DEF IInv
<1>8. ASSUME NEW r \in RoundIds, NEW t \in Threads, LoadStatus(r, t) PROVE IInv'
  <2> USE <1>8
  <2>1. ThreadGoes(r, t, "load0", "store0") /\ UNCHANGED parent
    BY DEF LoadStatus
  <2>2. /\ tpc' \in [RoundIds -> [Threads -> ThreadPC]]
        /\ tpc'[r][t] = "store0"
        /\ tpc[r][t] = "load0"
        /\ \A q \in RoundIds, u \in Threads :
             q # r \/ u # t => tpc'[q][u] = tpc[q][u]
    BY <2>1, OthersStay DEF IInv, ThreadPC
  <2>3. /\ NotForked'
        /\ PassedReported'
        /\ \A q \in RoundIds : q # r => Reported(q)' = Reported(q)
        /\ Reported(r)' = Reported(r)
    BY <2>1, ThreadStep DEF ThreadPC, HasReported
  <2>4. TypeOK'
    <3>1. shm0 \in Nat
      BY ThreadsAssumption, FS_CardinalityType DEF IInv, TypeOK
    <3>2. reg' \in [RoundIds -> [Threads -> Int]]
      BY <3>1 DEF LoadStatus, IInv, TypeOK
    <3>3. QED
      BY <2>1, <2>2, <3>2 DEF LoadStatus, parent, IInv, TypeOK
  <2>5. MutexHeld'
    <3>1. pmutex' = pmutex
      BY DEF LoadStatus
    <3>2. QED
      BY <2>2, <3>1 DEF IInv, MutexHeld, InSection
  <2>6. StatusCounts'
    <3>1. r = round /\ ppc = "wait"
      BY <2>2, StoresInWait
    <3>2. /\ reg'[r][t] = shm0 /\ shm0' = shm0
          /\ \A u \in Threads : u # t => reg'[r][u] = reg[r][u]
      BY DEF LoadStatus, IInv, TypeOK
    <3>3. QED
      BY <2>1, <2>2, <2>3, <3>1, <3>2 DEF parent, IInv, StatusCounts
  <2>7. QED
    BY <2>3, <2>4, <2>5, <2>6 DEF IInv
<1>9. ASSUME NEW r \in RoundIds, NEW t \in Threads, StoreStatus(r, t) PROVE IInv'
  <2> USE <1>9
  <2>1. ThreadGoes(r, t, "store0", "load1") /\ UNCHANGED parent
    BY DEF StoreStatus
  <2>2. /\ tpc' \in [RoundIds -> [Threads -> ThreadPC]]
        /\ tpc'[r][t] = "load1"
        /\ tpc[r][t] = "store0"
        /\ \A q \in RoundIds, u \in Threads :
             q # r \/ u # t => tpc'[q][u] = tpc[q][u]
    BY <2>1, OthersStay DEF IInv, ThreadPC
  <2>3. /\ NotForked'
        /\ PassedReported'
        /\ \A q \in RoundIds : q # r => Reported(q)' = Reported(q)
        /\ Reported(r)' = Reported(r) \union {t}
    BY <2>1, ThreadStep DEF ThreadPC, HasReported
  <2>4. TypeOK'
    <3>1. r = round /\ ppc = "wait"
      BY <2>2, StoresInWait
    <3>2. shm0' = Cardinality(Reported(r)')
      BY <3>1, ReportedGrows DEF IInv
    <3>3. Reported(r)' \in SUBSET Threads
      BY DEF Reported
    <3>4. shm0' \in 0 .. Cardinality(Threads)
      BY <3>2, <3>3, ThreadsAssumption, FS_Subset, FS_CardinalityType
    <3>5. UNCHANGED <<round, ppc, result, shm1, s, pmutex, reg>>
      BY <2>1 DEF StoreStatus, children, parent
    <3>6. TypeOK
      BY DEF IInv
    <3>7. QED
      BY <2>2, <3>4, <3>5, <3>6 DEF TypeOK
  <2>5. MutexHeld'
    <3>1. pmutex' = pmutex
      BY DEF StoreStatus, children
    <3>2. QED
      BY <2>2, <3>1 DEF IInv, MutexHeld, InSection
  <2>6. StatusCounts'
    <3>1. r = round /\ ppc = "wait"
      BY <2>2, StoresInWait
    <3>2. shm0' = Cardinality(Reported(r)')
      BY <3>1, ReportedGrows DEF IInv
    <3>3. \A u \in Threads : tpc[r][u] = "store0" => u = t
      BY <2>2 DEF IInv, MutexHeld, InSection
    <3>4. QED
      BY <2>1, <2>2, <3>1, <3>2, <3>3 DEF parent, StatusCounts
  <2>7. QED
    BY <2>3, <2>4, <2>5, <2>6 DEF IInv
<1>10. ASSUME NEW r \in RoundIds, NEW t \in Threads, LoadPoints(r, t) PROVE IInv'
  <2> USE <1>10
  <2>1. ThreadGoes(r, t, "load1", "store1") /\ UNCHANGED parent
    BY DEF LoadPoints
  <2>2. /\ tpc' \in [RoundIds -> [Threads -> ThreadPC]]
        /\ tpc'[r][t] = "store1"
        /\ tpc[r][t] = "load1"
        /\ \A q \in RoundIds, u \in Threads :
             q # r \/ u # t => tpc'[q][u] = tpc[q][u]
    BY <2>1, OthersStay DEF IInv, ThreadPC
  <2>3. /\ NotForked'
        /\ PassedReported'
        /\ \A q \in RoundIds : q # r => Reported(q)' = Reported(q)
        /\ Reported(r)' = Reported(r) \union {t}
    BY <2>1, ThreadStep DEF ThreadPC, HasReported
  <2>4. TypeOK'
    <3>1. reg' \in [RoundIds -> [Threads -> Int]]
      BY DEF LoadPoints, IInv, TypeOK
    <3>2. QED
      BY <2>1, <2>2, <3>1 DEF LoadPoints, parent, IInv, TypeOK
  <2>5. MutexHeld'
    <3>1. pmutex' = pmutex
      BY DEF LoadPoints
    <3>2. QED
      BY <2>2, <3>1 DEF IInv, MutexHeld, InSection
  <2>6. StatusCounts'
    <3>1. \A q \in RoundIds : Reported(q)' = Reported(q)
      BY <2>2, <2>3 DEF Reported
    <3>2. /\ shm0' = shm0
          /\ \A q \in RoundIds, u \in Threads :
               q # r \/ u # t => reg'[q][u] = reg[q][u]
      BY DEF LoadPoints, children, IInv, TypeOK
    <3>3. QED
      BY <2>1, <3>1, <3>2, StatusKept DEF ThreadPC
  <2>7. QED
    BY <2>3, <2>4, <2>5, <2>6 DEF IInv
<1>11. ASSUME NEW r \in RoundIds, NEW t \in Threads, StorePoints(r, t) PROVE IInv'
  <2> USE <1>11
  <2>1. ThreadGoes(r, t, "store1", "unlock") /\ UNCHANGED parent
    BY DEF StorePoints
  <2>2. /\ tpc' \in [RoundIds -> [Threads -> ThreadPC]]
        /\ tpc'[r][t] = "unlock"
        /\ tpc[r][t] = "store1"
        /\ \A q \in RoundIds, u \in Threads :
             q # r \/ u # t => tpc'[q][u] = tpc[q][u]
    BY <2>1, OthersStay DEF IInv, ThreadPC
  <2>3. /\ NotForked'
        /\ PassedReported'
        /\ \A q \in RoundIds : q # r => Reported(q)' = Reported(q)
        /\ Reported(r)' = Reported(r) \union {t}
    BY <2>1, ThreadStep DEF ThreadPC, HasReported
  <2>4. TypeOK'
    BY <2>1, <2>2 DEF StorePoints, children, parent, IInv, TypeOK
  <2>5. MutexHeld'
    <3>1. pmutex' = pmutex
      BY DEF StorePoints, children
    <3>2. QED
      BY <2>2, <3>1 DEF IInv, MutexHeld, InSection
  <2>6. StatusCounts'
    <3>1. \A q \in RoundIds : Reported(q)' = Reported(q)
      BY <2>2, <2>3 DEF Reported
    <3>2. /\ shm0' = shm0
          /\ \A q \in RoundIds, u \in Threads :
               q # r \/ u # t => reg'[q][u] = reg[q][u]
      BY DEF StorePoints, children, IInv, TypeOK
    <3>3. QED
      BY <2>1, <3>1, <3>2, StatusKept DEF ThreadPC
  <2>7. QED
    BY <2>3, <2>4, <2>5, <2>6 DEF IInv
<1>12. ASSUME NEW r \in RoundIds, NEW t \in Threads, Unlock(r, t) PROVE IInv'
  <2> USE <1>12
  <2>1. ThreadGoes(r, t, "unlock", "exit") /\ UNCHANGED parent
    BY DEF Unlock
  <2>2. /\ tpc' \in [RoundIds -> [Threads -> ThreadPC]]
        /\ tpc'[r][t] = "exit"
        /\ tpc[r][t] = "unlock"
        /\ \A q \in RoundIds, u \in Threads :
             q # r \/ u # t => tpc'[q][u] = tpc[q][u]
    BY <2>1, OthersStay DEF IInv, ThreadPC
  <2>3. /\ NotForked'
        /\ PassedReported'
        /\ \A q \in RoundIds : q # r => Reported(q)' = Reported(q)
        /\ Reported(r)' = Reported(r) \union {t}
    BY <2>1, ThreadStep DEF ThreadPC, HasReported
  <2>4. TypeOK'
    BY <2>1, <2>2 DEF Unlock, children, parent, IInv, TypeOK
  <2>5. MutexHeld'
    <3>1. /\ pmutex[r] = t /\ pmutex'[r] = None
          /\ \A q \in RoundIds : q # r => pmutex'[q] = pmutex[q]
      BY <2>2 DEF Unlock, IInv, TypeOK, MutexHeld, InSection
    <3>2. QED
      BY <2>2, <3>1, NoneAssumption DEF IInv, MutexHeld, InSection
  <2>6. StatusCounts'
    <3>1. \A q \in RoundIds : Reported(q)' = Reported(q)
      BY <2>2, <2>3 DEF Reported
    <3>2. /\ shm0' = shm0
          /\ \A q \in RoundIds, u \in Threads :
               q # r \/ u # t => reg'[q][u] = reg[q][u]
      BY DEF Unlock, children, IInv, TypeOK
    <3>3. QED
      BY <2>1, <3>1, <3>2, StatusKept DEF ThreadPC
  <2>7. QED
    BY <2>3, <2>4, <2>5, <2>6 DEF IInv
<1>13. CASE UNCHANGED vars
  BY <1>13 DEF vars, IInv, TypeOK, MutexHeld, NotForked, PassedReported,
               Passed, Reported, StatusCounts
<1>14. QED
  BY <1>1, <1>2, <1>3, <1>4, <1>5, <1>6, <1>7, <1>8, <1>9, <1>10, <1>11,
     <1>12, <1>13
  DEF Next, Parent, Thread

(* The inductive invariant of the Monte Carlo rounds (mk_main.c).           *)
THEOREM InvariantHolds == Spec => []IInv
<1>1. Init => IInv
  BY InitIInv
<1>2. IInv /\ [Next]_vars => IInv'
  BY NextIInv
<1>3. QED
  BY <1>1, <1>2, PTL DEF Spec

(* While Receive waits shm[0] counts the reports of its round exactly, and  *)
(* when it goes on all threads of the round have reported.                  *)
THEOREM StatusIsExact == Spec => []StatusExact
<1>1. IInv => StatusExact
  BY DEF IInv, StatusExact, StatusCounts, PassedReported, Passed, TypeOK
<1>2. QED
  BY <1>1, InvariantHolds, PTL

(* The threads of a round that is over have added their points, all but the *)
(* one that holds pmutex.                                                   *)
LEMMA LateIsHolder ==
  ASSUME IInv, NEW r \in RoundIds, Passed(r)
  PROVE  Cardinality(Threads \ Added(r)) <= 1
<1>1. Threads \ Added(r) \in SUBSET {pmutex[r]}
  <2>1. ASSUME NEW t \in Threads, t \notin Added(r) PROVE t = pmutex[r]
    <3>1. t \in Reported(r)
      BY DEF IInv, PassedReported
    <3>2. tpc[r][t] \in InSection
      BY <2>1, <3>1 DEF Reported, Added, InSection
    <3>3. QED
      BY <3>2 DEF IInv, MutexHeld
  <2>2. QED
    BY <2>1
<1>2. IsFiniteSet({pmutex[r]}) /\ Cardinality({pmutex[r]}) = 1
  BY FS_Singleton
<1>3. QED
  BY <1>1, <1>2, FS_Subset

(* When a round is over at most one of its threads has yet to add its       *)
(* points.                                                                  *)
THEOREM LateThreads == Spec => []AtMostOneLate
<1>1. IInv => AtMostOneLate
  BY LateIsHolder DEF AtMostOneLate, Passed
<1>2. QED
  BY <1>1, InvariantHolds, PTL

(***************************************************************************)
(* The result of the first round.                                          *)
(***************************************************************************)

(* The pairs of one more thread are pairs of its own.                       *)
LEMMA PairsGrow ==
  ASSUME NEW T \in SUBSET Threads, NEW t \in Threads \ T, NEW n, n[t] \in Int,
         IsFiniteSet(Pairs(n, T))
  PROVE  /\ IsFiniteSet(Pairs(n, T \union {t}))
         /\ Cardinality(Pairs(n, T)) \in Nat
         /\ Cardinality(Pairs(n, T \union {t})) =
              Cardinality(Pairs(n, T)) + IF n[t] > 0 THEN n[t] ELSE 0
<1> DEFINE own == {t} \X (1 .. n[t])
<1>1. Pairs(n, T \union {t}) = Pairs(n, T) \union own
  BY DEF Pairs
<1>2. Pairs(n, T) \intersect own = {}
  BY DEF Pairs
<1>3. IsFiniteSet(own) /\ Cardinality(own) = IF n[t] > 0 THEN n[t] ELSE 0
  <2>1. IsFiniteSet(1 .. n[t]) /\ Cardinality(1 .. n[t]) = IF n[t] > 0 THEN n[t] ELSE 0
    <3>1. /\ IsFiniteSet(1 .. n[t])
          /\ Cardinality(1 .. n[t]) = IF 1 > n[t] THEN 0 ELSE n[t] - 1 + 1
      <4>1. 1 \in Int
        OBVIOUS
      <4>2. QED
        BY <4>1, FS_Interval, Zenon
    <3>2. QED
      BY <3>1
  <2>2. IsFiniteSet({t}) /\ Cardinality({t}) = 1
    BY FS_Singleton
  <2>3. /\ IsFiniteSet({t} \X (1 .. n[t]))
        /\ Cardinality({t} \X (1 .. n[t])) =
             Cardinality({t}) * Cardinality(1 .. n[t])
    BY <2>1, <2>2, FS_Product
  <2>4. QED
    BY <2>1, <2>2, <2>3
<1>4. Cardinality(Pairs(n, T)) \in Nat
  BY FS_CardinalityType
<1> HIDE DEF own
<1>5. /\ IsFiniteSet(Pairs(n, T) \union own)
      /\ Cardinality(Pairs(n, T) \union own) =
           Cardinality(Pairs(n, T)) + Cardinality(own)
             - Cardinality(Pairs(n, T) \intersect own)
  BY <1>3, FS_Union
<1>6. Cardinality(Pairs(n, T) \intersect own) = 0
  BY <1>2, FS_EmptySet
<1>7. Cardinality(Pairs(n, T) \union own)
        = Cardinality(Pairs(n, T)) + IF n[t] > 0 THEN n[t] ELSE 0
  BY <1>3, <1>4, <1>5, <1>6
<1>8. QED
  BY <1>1, <1>4, <1>5, <1>7

(* One more thread adds its count to the sum.                               *)
LEMMA SumGrows ==
  ASSUME NEW r \in RoundIds, NEW T \in SUBSET Threads, NEW t \in Threads \ T,
         s[r][t] \in Int, IsFiniteSet(Points(r, T)), IsFiniteSet(Owed(r, T))
  PROVE  /\ IsFiniteSet(Points(r, T \union {t}))
         /\ IsFiniteSet(Owed(r, T \union {t}))
         /\ Sum(r, T \union {t}) = Sum(r, T) + s[r][t]
<1>1. /\ IsFiniteSet(Points(r, T \union {t}))
      /\ Cardinality(Points(r, T)) \in Nat
      /\ Cardinality(Points(r, T \union {t})) =
           Cardinality(Points(r, T)) + IF s[r][t] > 0 THEN s[r][t] ELSE 0
  BY PairsGrow DEF Points
<1>2. /\ IsFiniteSet(Owed(r, T \union {t}))
      /\ Cardinality(Owed(r, T)) \in Nat
      /\ Cardinality(Owed(r, T \union {t})) =
           Cardinality(Owed(r, T)) + IF - s[r][t] > 0 THEN - s[r][t] ELSE 0
  <2> DEFINE debts == [u \in Threads |-> - s[r][u]]
  <2>1. debts[t] = - s[r][t] /\ debts[t] \in Int
    OBVIOUS
  <2>2. Owed(r, T) = Pairs(debts, T) /\ Owed(r, T \union {t}) = Pairs(debts, T \union {t})
    BY DEF Owed
  <2> HIDE DEF debts
  <2>3. QED
    BY <2>1, <2>2, PairsGrow
<1>3. QED
  BY <1>1, <1>2 DEF Sum

(* A sum depends on nothing but the counts of its threads.                  *)
LEMMA SumStays ==
  ASSUME NEW T \in SUBSET Threads, \A t \in T : s'[1][t] = s[1][t]
  PROVE  /\ Points(1, T)' = Points(1, T)
         /\ Owed(1, T)' = Owed(1, T)
         /\ Sum(1, T)' = Sum(1, T)
<1>1. Points(1, T)' = Points(1, T)
  BY DEF Points, Pairs
<1>2. Owed(1, T)' = Owed(1, T)
  <2>1. \A t \in T : /\ [u \in Threads |-> - s'[1][u]][t] = - s'[1][t]
                    /\ [u \in Threads |-> - s[1][u]][t] = - s[1][t]
    OBVIOUS
  <2>2. QED
    BY <2>1 DEF Owed, Pairs
<1>3. QED
  BY <1>1, <1>2 DEF Sum

LEMMA InitFirstSum == Init => FirstSum
BY RoundsAssumption DEF Init, FirstSum, FirstResultMissesOne, RoundIds

(* What the parent has read stays explained while nothing is counted anew.  *)
LEMMA ResultStays ==
  ASSUME FirstResultMissesOne, result'[1] = result[1],
         result[1] # None => \A t \in Threads : s'[1][t] = s[1][t]
  PROVE  FirstResultMissesOne'
<1> SUFFICES ASSUME result'[1] # None
             PROVE  \E T \in SUBSET Threads :
                      /\ Cardinality(Threads \ T) <= 1
                      /\ result'[1] = Sum(1, T)'
  BY DEF FirstResultMissesOne
<1>1. PICK T \in SUBSET Threads :
        Cardinality(Threads \ T) <= 1 /\ result[1] = Sum(1, T)
  BY DEF FirstResultMissesOne
<1>2. Sum(1, T)' = Sum(1, T)
  BY SumStays
<1>3. QED
  BY <1>1, <1>2

LEMMA AddedStays ==
  ASSUME Added(1)' = Added(1), \A t \in Added(1) : s'[1][t] = s[1][t]
  PROVE  /\ Points(1, Added(1))' = Points(1, Added(1))
         /\ Owed(1, Added(1))' = Owed(1, Added(1))
         /\ Sum(1, Added(1))' = Sum(1, Added(1))
<1>1. PICK T \in SUBSET Threads : T = Added(1)
  BY DEF Added
<1>2. /\ Points(1, T)' = Points(1, T) /\ Owed(1, T)' = Owed(1, T)
      /\ Sum(1, T)' = Sum(1, T)
  BY <1>1, SumStays
<1>3. Added(1)' = T
  BY <1>1
<1>4. QED
  BY <1>1, <1>2, <1>3 DEF Points, Owed, Sum

(* A step of a thread in the first round: either it adds its points to      *)
(* shm[1], or it leaves shm[1] and the points added as they are.            *)
LEMMA FirstRoundThread ==
  ASSUME IInv, FirstSum, NEW t \in Threads, Thread(1, t),
         round = 1, ppc \in {"wait", "read"}
  PROVE  /\ IsFiniteSet(Points(1, Added(1)))' /\ IsFiniteSet(Owed(1, Added(1)))'
         /\ shm1' = Sum(1, Added(1))'
         /\ \A u \in Threads : tpc'[1][u] = "store1" => reg'[1][u] = shm1'
<1>1. /\ 1 \in RoundIds /\ s \in [RoundIds -> [Threads -> Int]]
      /\ reg \in [RoundIds -> [Threads -> Int]]
      /\ tpc \in [RoundIds -> [Threads -> ThreadPC]]
  BY RoundsAssumption DEF IInv, TypeOK, RoundIds
<1>2. /\ IsFiniteSet(Points(1, Added(1))) /\ IsFiniteSet(Owed(1, Added(1)))
      /\ shm1 = Sum(1, Added(1))
      /\ \A u \in Threads : tpc[1][u] = "store1" => reg[1][u] = shm1
  BY DEF FirstSum
<1>3. CASE Generate(1, t)
  <2>1. /\ shm1' = shm1 /\ reg' = reg /\ t \notin Added(1)
        /\ \A u \in Threads : u # t => s'[1][u] = s[1][u] /\ tpc'[1][u] = tpc[1][u]
        /\ tpc'[1][t] = "lock"
    BY <1>1, <1>3 DEF Generate, ThreadGoes, Added
  <2>2. Added(1)' = Added(1)
    BY <2>1 DEF Added
  <2>3. \A u \in Added(1) : s'[1][u] = s[1][u]
    BY <2>1 DEF Added
  <2>4. QED
    BY <1>2, <2>1, <2>2, <2>3, AddedStays
<1>4. CASE Lock(1, t) \/ LoadStatus(1, t) \/ StoreStatus(1, t) \/ LoadPoints(1, t)
           \/ Unlock(1, t)
  <2>1. /\ shm1' = shm1 /\ s' = s
        /\ \A u \in Threads : u # t => tpc'[1][u] = tpc[1][u] /\ reg'[1][u] = reg[1][u]
        /\ tpc'[1][t] = "store1" => reg'[1][t] = shm1
        /\ tpc'[1][t] \in {"unlock", "exit"} <=> tpc[1][t] \in {"unlock", "exit"}
    BY <1>1, <1>4
       DEF Lock, LoadStatus, StoreStatus, LoadPoints, Unlock, ThreadGoes, children
  <2>2. Added(1)' = Added(1)
    BY <2>1 DEF Added
  <2>3. QED
    BY <1>2, <2>1, <2>2, AddedStays
<1>5. CASE StorePoints(1, t)
  <2>1. /\ tpc[1][t] = "store1" /\ shm1' = reg[1][t] + s[1][t]
        /\ s' = s /\ reg' = reg /\ tpc'[1][t] = "unlock"
        /\ \A u \in Threads : u # t => tpc'[1][u] = tpc[1][u]
    BY <1>1, <1>5 DEF StorePoints, ThreadGoes, children
  <2>2. Added(1)' = Added(1) \union {t} /\ t \in Threads \ Added(1)
    BY <2>1 DEF Added
  <2>3. Added(1) \in SUBSET Threads /\ Added(1) \union {t} \in SUBSET Threads
    BY DEF Added
  <2>4. /\ IsFiniteSet(Points(1, Added(1)))' /\ IsFiniteSet(Owed(1, Added(1)))'
        /\ Sum(1, Added(1))' = Sum(1, Added(1)) + s[1][t]
    <3>1. PICK T \in SUBSET Threads : T = Added(1) \union {t}
      BY <2>3
    <3>2. /\ Points(1, T)' = Points(1, T) /\ Owed(1, T)' = Owed(1, T)
          /\ Sum(1, T)' = Sum(1, T)
      BY <2>1, SumStays
    <3>3. /\ IsFiniteSet(Points(1, T)) /\ IsFiniteSet(Owed(1, T))
          /\ Sum(1, T) = Sum(1, Added(1)) + s[1][t]
      <4>1. t \in Threads \ Added(1) /\ s[1][t] \in Int /\ 1 \in RoundIds
        BY <1>1, <2>2
      <4>2. IsFiniteSet(Points(1, Added(1))) /\ IsFiniteSet(Owed(1, Added(1)))
        BY <1>2
      <4>3. /\ IsFiniteSet(Points(1, Added(1) \union {t}))
            /\ IsFiniteSet(Owed(1, Added(1) \union {t}))
            /\ Sum(1, Added(1) \union {t}) = Sum(1, Added(1)) + s[1][t]
        BY <2>3, <4>1, <4>2, SumGrows
      <4>4. QED
        BY <3>1, <4>3
    <3>4. Added(1)' = T
      BY <2>2, <3>1
    <3>5. QED
      BY <3>2, <3>3, <3>4 DEF Points, Owed, Sum
  <2>5. \A u \in Threads : tpc'[1][u] # "store1"
    BY <1>1, <2>1 DEF IInv, MutexHeld, InSection
  <2>6. QED
    BY <1>2, <2>1, <2>4, <2>5
<1>6. QED
  BY <1>3, <1>4, <1>5 DEF Thread

LEMMA NextFirstSum ==
  ASSUME IInv, FirstSum, [Next]_vars
  PROVE  FirstSum'
<1>1. /\ 1 \in RoundIds /\ round \in RoundIds /\ RoundIds \subseteq Nat
      /\ s \in [RoundIds -> [Threads -> Int]]
      /\ result \in [RoundIds -> Int \union {None}]
  BY RoundsAssumption DEF IInv, TypeOK, RoundIds
<1>2. CASE UNCHANGED vars
  <2>1. UNCHANGED <<round, ppc, shm1, result, tpc, s, reg>>
    BY <1>2 DEF vars
  <2>2. FirstResultMissesOne'
    BY <2>1, ResultStays DEF FirstSum
  <2>3. Added(1)' = Added(1) /\ \A t \in Added(1) : s'[1][t] = s[1][t]
    BY <2>1 DEF Added
  <2>4. QED
    BY <2>1, <2>2, <2>3, AddedStays DEF FirstSum
<1>3. CASE ResetStatus \/ ResetPoints \/ AllReported
  <2>1. /\ UNCHANGED <<round, result, tpc, s, reg>>
        /\ \/ ppc' = "points"
           \/ ppc' = "fork" /\ shm1' = 0
           \/ ppc = "wait" /\ ppc' = "read" /\ shm1' = shm1
        /\ ppc # "done"
    BY <1>3 DEF ResetStatus, ResetPoints, AllReported, ParentGoes, children
  <2>2. FirstResultMissesOne'
    BY <2>1, ResultStays DEF FirstSum
  <2>3. Added(1)' = Added(1) /\ \A t \in Added(1) : s'[1][t] = s[1][t]
    BY <2>1 DEF Added
  <2>4. QED
    BY <2>1, <2>2, <2>3, AddedStays DEF FirstSum
<1>4. CASE Fork
  <2>1. /\ UNCHANGED <<round, result, shm1, s>> /\ ppc = "fork" /\ ppc' = "wait"
        /\ round = 1 => \A t \in Threads : tpc'[1][t] = "generate"
    BY <1>1, <1>4 DEF Fork, ParentGoes, children, IInv, TypeOK
  <2>2. FirstResultMissesOne'
    BY <2>1, ResultStays DEF FirstSum
  <2>3. round = 1 => Points(1, Added(1))' = {} /\ Owed(1, Added(1))' = {}
    BY <2>1 DEF Points, Owed, Pairs, Added
  <2>4. round = 1 => /\ IsFiniteSet(Points(1, Added(1)))'
                     /\ IsFiniteSet(Owed(1, Added(1)))'
                     /\ Sum(1, Added(1))' = 0
    BY <2>3, FS_EmptySet DEF Sum
  <2>5. QED
    BY <2>1, <2>2, <2>4 DEF FirstSum
<1>5. CASE ReadPoints
  <2>1. /\ ppc = "read" /\ result' = [result EXCEPT ![round] = shm1] /\ s' = s
        /\ (ppc' = "status" /\ round' = round + 1) \/ ppc' = "done"
    BY <1>5 DEF ReadPoints, children
  <2>2. FirstResultMissesOne'
    <3>1. CASE round = 1
      <4>1. result'[1] = Sum(1, Added(1)) /\ Passed(1)
        BY <1>1, <2>1, <3>1 DEF FirstSum, Passed
      <4>2. Cardinality(Threads \ Added(1)) <= 1 /\ Added(1) \in SUBSET Threads
        BY <1>1, <4>1, LateIsHolder DEF Added
      <4>3. PICK T \in SUBSET Threads : T = Added(1)
        BY <4>2
      <4>4. Sum(1, T)' = Sum(1, T)
        BY <2>1, SumStays
      <4>5. QED
        BY <4>1, <4>2, <4>3, <4>4 DEF FirstResultMissesOne
    <3>2. CASE round # 1
      <4>1. result'[1] = result[1]
        BY <1>1, <2>1, <3>2
      <4>2. QED
        BY <2>1, <4>1, ResultStays DEF FirstSum
    <3>3. QED
      BY <3>1, <3>2
  <2>3. ~ (round' = 1 /\ ppc' # "done") /\ ppc' \notin {"fork", "wait", "read"}
    <3>1. round \in Nat /\ round # 0
      BY <1>1 DEF RoundIds
    <3>2. QED
      BY <2>1, <3>1
  <2>4. QED
    BY <2>2, <2>3 DEF FirstSum
<1>6. ASSUME NEW r \in RoundIds, NEW t \in Threads, Thread(r, t) PROVE FirstSum'
  <2>1. round' = round /\ ppc' = ppc /\ result' = result
    BY <1>6 DEF Thread, Generate, Lock, LoadStatus, StoreStatus, LoadPoints,
                StorePoints, Unlock, parent
  <2>2. tpc[r][t] # "none"
    BY <1>6 DEF Thread, Generate, Lock, LoadStatus, StoreStatus, LoadPoints,
                StorePoints, Unlock, ThreadGoes
  <2>3. ~ (r > round) /\ (r = round => ppc \notin {"status", "points", "fork"})
    BY <2>2 DEF IInv, NotForked
  <2>4. round = 1 => r = 1
    BY <1>1, <2>3 DEF RoundIds
  <2>5. result[1] # None => \A u \in Threads : s'[1][u] = s[1][u]
    <3>1. CASE Generate(r, t)
      <4>1. r = round /\ ppc = "wait"
        BY <3>1, StoresInWait DEF Generate, ThreadGoes
      <4>2. r = 1 => result[1] = None
        BY <4>1 DEF FirstSum
      <4>3. r # 1 => s'[1] = s[1]
        BY <1>1, <3>1 DEF Generate
      <4>4. QED
        BY <4>2, <4>3
    <3>2. CASE ~ Generate(r, t)
      BY <1>6, <3>2 DEF Thread, Lock, LoadStatus, StoreStatus, LoadPoints,
                        StorePoints, Unlock, children
    <3>3. QED
      BY <3>1, <3>2
  <2>6. FirstResultMissesOne'
    BY <2>1, <2>5, ResultStays DEF FirstSum
  <2>7. CASE round = 1 /\ ppc \in {"wait", "read"}
    <3>1. /\ IsFiniteSet(Points(1, Added(1)))' /\ IsFiniteSet(Owed(1, Added(1)))'
          /\ shm1' = Sum(1, Added(1))'
          /\ \A u \in Threads : tpc'[1][u] = "store1" => reg'[1][u] = shm1'
      BY <1>6, <2>4, <2>7, FirstRoundThread
    <3>2. QED
      BY <2>1, <2>6, <2>7, <3>1 DEF FirstSum
  <2>8. CASE ~ (round = 1 /\ ppc \in {"wait", "read"})
    <3>1. ~ (round' = 1 /\ ppc' \in {"wait", "read", "fork"})
      BY <2>1, <2>3, <2>4, <2>8
    <3>2. QED
      BY <2>1, <2>6, <3>1 DEF FirstSum
  <2>9. QED
    BY <2>7, <2>8
<1>7. QED
  BY <1>2, <1>3, <1>4, <1>5, <1>6 DEF Next, Parent

(* The first result is the counts of all threads of the round, but possibly *)
(* that of one: Receive reads shm[1] without the mutex.                    *)
THEOREM FirstResult == Spec => []FirstResultMissesOne
<1>1. Init => FirstSum
  BY InitFirstSum
<1>2. IInv /\ FirstSum /\ [Next]_vars => FirstSum'
  BY NextFirstSum
<1>3. FirstSum => FirstResultMissesOne
  BY DEF FirstSum
<1>4. QED
  BY <1>1, <1>2, <1>3, InvariantHolds, PTL DEF Spec

(***************************************************************************)
(* DuplexPipe.  Numbers.                                                   *)
(***************************************************************************)
LEMMA Division ==
  ASSUME NEW a \in Int, NEW d \in Int, d > 0, a >= 0
  PROVE  /\ a \div d \in Int /\ a \div d >= 0
         /\ a % d \in 0 .. (d - 1)
         /\ a = (a \div d) * d + (a % d)
  OBVIOUS

LEMMA TimesGrows ==
  ASSUME NEW x \in Int, NEW y \in Int, NEW d \in Int, d > 0, x < y
  PROVE  x * d + d <= y * d
<1>1. y - x - 1 >= 0
  OBVIOUS
<1>2. (y - x - 1) * d >= 0
  BY <1>1
<1>3. (y - x - 1) * d = y * d - x * d - d
  OBVIOUS
<1>4. x * d \in Int /\ y * d \in Int
  OBVIOUS
<1>5. QED
  BY <1>2, <1>3, <1>4

LEMMA QuotientIs ==
  ASSUME NEW q \in Int, NEW d \in Int, NEW e \in Int, d > 0, q >= 0, 0 <= e, e < d
  PROVE  (q * d + e) \div d = q /\ (q * d + e) % d = e
<1> DEFINE a == q * d + e
<1>1. a \in Int /\ a >= 0 /\ q * d \in Int /\ a = q * d + e
  OBVIOUS
<1> HIDE DEF a
<1> DEFINE p == a \div d
<1> DEFINE f == a % d
<1>2. p \in Int /\ f \in 0 .. (d - 1) /\ a = p * d + f
  BY <1>1, Division
<1> HIDE DEF p, f
<1>3. p * d \in Int
  BY <1>2
<1>4. ~ (p < q)
  <2>1. SUFFICES ASSUME p < q PROVE FALSE
    OBVIOUS
  <2>2. p * d + d <= q * d
    BY <1>2, <2>1, TimesGrows
  <2>3. QED
    BY <1>1, <1>2, <1>3, <2>2
<1>5. ~ (q < p)
  <2>1. SUFFICES ASSUME q < p PROVE FALSE
    OBVIOUS
  <2>2. q * d + d <= p * d
    BY <1>2, <2>1, TimesGrows
  <2>3. QED
    BY <1>1, <1>2, <1>3, <2>2
<1>6. p = q
  BY <1>2, <1>4, <1>5
<1>7. f = e
  BY <1>1, <1>2, <1>3, <1>6
<1>8. QED
  BY <1>6, <1>7 DEF a, p, f

LEMMA Sizes ==
  /\ Base \in Nat /\ Base >= 4 /\ PageSz \in Nat \ {0} /\ Pages \in Nat \ {0}
  /\ BufSz \in Nat /\ BufSz = MaxData + 3
  /\ MaxData \in Nat \ {0} /\ MaxData = (Base - 2) * Base
  /\ Numbers \in Nat /\ Numbers >= 2 /\ Numbers <= Base - 2
<1>1. Base \in Nat /\ Base >= 4 /\ PageSz \in Nat \ {0} /\ Pages \in Nat \ {0}
  BY BaseAssumption, PipeAssumption
<1>2. (Base - 2) * Base \in Nat /\ (Base - 2) * Base > 0
  BY <1>1
<1>3. Numbers \in Nat /\ Numbers >= 2 /\ Numbers <= Base - 2
  BY <1>1 DEF Numbers
<1> HIDE DEF Numbers
<1>4. QED
  BY <1>1, <1>2, <1>3 DEF BufSz, MaxData

(* How a full packet lies in the pages: whole ones, and Odd bytes.          *)
WholeSz == (Pages - 1) * PageSz
Odd == BufSz % PageSz

LEMMA Layout ==
  /\ WholeSz \in Nat /\ Pages * PageSz = WholeSz + PageSz
  /\ Odd \in 1 .. PageSz - 1 /\ PageSz < Odd + Odd
  /\ BufSz = WholeSz + Odd
  /\ BufSz \in Nat /\ PageSz \in Nat
<1>1. Pages - 1 \in Int /\ Pages - 1 >= 0 /\ PageSz \in Int /\ PageSz > 0 /\ BufSz \in Int
      /\ BufSz >= 0 /\ Pages \in Int
  BY Sizes
<1>2. WholeSz \in Int /\ WholeSz >= 0
  BY <1>1 DEF WholeSz
<1>3. Pages * PageSz = (Pages - 1) * PageSz + PageSz
  BY <1>1
<1>4. /\ Odd \in 0 .. (PageSz - 1)
      /\ BufSz = (BufSz \div PageSz) * PageSz + Odd
  BY <1>1, Division DEF Odd
<1>5. BufSz \div PageSz = Pages - 1 /\ 2 * Odd > PageSz
  BY LayoutAssumption DEF Odd
<1>6. BufSz = WholeSz + Odd
  BY <1>4, <1>5 DEF WholeSz
<1>7. QED
  BY <1>1, <1>2, <1>3, <1>4, <1>5, <1>6 DEF WholeSz

(* The page of a byte.                                                      *)
LEMMA PageIs ==
  ASSUME NEW n \in Nat \ {0}
  PROVE  /\ (n - 1) \div PageSz \in Nat
         /\ \A k \in Nat : n <= k * PageSz => (n - 1) \div PageSz < k
         /\ \A k \in Nat : n > k * PageSz => (n - 1) \div PageSz >= k
<1>1. PageSz \in Int /\ PageSz > 0 /\ n - 1 \in Int /\ n - 1 >= 0
  BY Sizes
<1> DEFINE q == (n - 1) \div PageSz
<1> DEFINE e == (n - 1) % PageSz
<1>2. q \in Int /\ q >= 0 /\ e \in 0 .. (PageSz - 1) /\ n - 1 = q * PageSz + e
  BY <1>1, Division
<1> HIDE DEF q, e
<1>3. q * PageSz \in Int
  BY <1>1, <1>2
<1>4. ASSUME NEW k \in Nat, n <= k * PageSz PROVE q < k
  <2>1. SUFFICES ASSUME k <= q PROVE FALSE
    BY <1>2
  <2>2. k * PageSz \in Int /\ k \in Int
    BY <1>1
  <2>3. CASE k = q
    BY <1>1, <1>2, <1>3, <1>4, <2>3
  <2>4. CASE k < q
    <3>1. k * PageSz + PageSz <= q * PageSz
      BY <1>1, <1>2, <2>2, <2>4, TimesGrows
    <3>2. QED
      BY <1>1, <1>2, <1>3, <1>4, <2>2, <3>1
  <2>5. QED
    BY <1>2, <2>1, <2>3, <2>4
<1>5. ASSUME NEW k \in Nat, n > k * PageSz PROVE q >= k
  <2>1. SUFFICES ASSUME q < k PROVE FALSE
    BY <1>2
  <2>2. k * PageSz \in Int /\ k \in Int
    BY <1>1
  <2>3. q * PageSz + PageSz <= k * PageSz
    BY <1>1, <1>2, <2>1, <2>2, TimesGrows
  <2>4. QED
    BY <1>1, <1>2, <1>3, <1>5, <2>2, <2>3
<1>6. QED
  BY <1>2, <1>4, <1>5 DEF q

(***************************************************************************)
(* The pages in use.                                                       *)
(***************************************************************************)
Cell == Byte \X Nat

LEMMA Cells ==
  ASSUME NEW c \in Seq(Cell)
  PROVE  /\ Len(c) \in Nat /\ DOMAIN c = 1 .. Len(c)
         /\ c # << >> <=> Len(c) > 0
         /\ \A n \in 1 .. Len(c) : c[n] \in Cell /\ c[n][1] \in Byte /\ c[n][2] \in Nat
<1>1. Len(c) \in Nat /\ DOMAIN c = 1 .. Len(c)
  BY LenProperties
<1>2. \A n \in 1 .. Len(c) : c[n] \in Cell
  BY ElementOfSeq
<1>3. c # << >> <=> Len(c) > 0
  BY <1>1, EmptySeq
<1>4. QED
  BY <1>1, <1>2, <1>3 DEF Cell

LEMMA PagesFinite ==
  ASSUME NEW c \in Seq(Cell)
  PROVE  /\ IsFiniteSet(PagesOf(c)) /\ Cardinality(PagesOf(c)) \in Nat
         /\ PagesOf(c) \subseteq Nat
         /\ PagesOf(c) = { c[n][2] : n \in 1 .. Len(c) }
<1> DEFINE f == [n \in 1 .. Len(c) |-> c[n][2]]
<1>1. Len(c) \in Nat /\ DOMAIN c = 1 .. Len(c) /\ \A n \in 1 .. Len(c) : c[n][2] \in Nat
  BY Cells
<1>2. PagesOf(c) = { c[n][2] : n \in 1 .. Len(c) }
  BY <1>1 DEF PagesOf
<1>3. f \in Surjection(1 .. Len(c), PagesOf(c))
  BY <1>2 DEF Surjection
<1>4. IsFiniteSet(1 .. Len(c))
  BY <1>1, FS_Interval
<1>5. IsFiniteSet(PagesOf(c))
  BY <1>3, <1>4, FS_Surjection
<1>6. QED
  BY <1>1, <1>2, <1>5, FS_CardinalityType

LEMMA FewerPages ==
  ASSUME NEW c \in Seq(Cell), NEW d \in Seq(Cell), PagesOf(d) \subseteq PagesOf(c),
         Cardinality(PagesOf(c)) <= Pages
  PROVE  Cardinality(PagesOf(d)) <= Pages
<1>1. Cardinality(PagesOf(d)) <= Cardinality(PagesOf(c))
  BY PagesFinite, FS_Subset
<1>2. QED
  BY <1>1, PagesFinite, Sizes

LEMMA NextOnes ==
  ASSUME NEW a \in Nat, NEW n \in Nat
  PROVE  IsFiniteSet(a + 1 .. a + n) /\ Cardinality(a + 1 .. a + n) = n
<1> DEFINE b == a + 1
           d == a + n
<1>1. b \in Int /\ d \in Int /\ (b > d <=> n = 0) /\ d - b + 1 = n
  OBVIOUS
<1> HIDE DEF b, d
<1>2. IsFiniteSet(b .. d) /\ Cardinality(b .. d) = IF b > d THEN 0 ELSE d - b + 1
  BY <1>1, FS_Interval
<1>3. QED
  BY <1>1, <1>2 DEF b, d

LEMMA RoomIs ==
  ASSUME NEW c \in Seq(Cell), Cardinality(PagesOf(c)) <= Pages
  PROVE  /\ Room(c) \in Nat
         /\ Pages - Cardinality(PagesOf(c)) \in Nat
         /\ Room(c) = (Pages - Cardinality(PagesOf(c))) * PageSz
<1>1. Pages - Cardinality(PagesOf(c)) \in Nat
  BY PagesFinite, Sizes
<1>2. QED
  BY <1>1, Sizes DEF Room

(* Fresh pages are the next ones, and no more than there are.               *)
LEMMA FreshIs ==
  ASSUME NEW c \in Seq(Cell), Cardinality(PagesOf(c)) <= Pages, NEW m \in Seq(Byte)
  PROVE  LET k == Lesser(Len(m), Room(c))
         IN /\ k \in 0 .. Len(m) /\ k <= Room(c)
            /\ LastPage(c) \in Nat
            /\ Fresh(c, m) \in Seq(Cell)
            /\ Len(Fresh(c, m)) = Len(c) + k
            /\ \A n \in 1 .. Len(c) : Fresh(c, m)[n] = c[n]
            /\ \A n \in 1 .. k : 
                 Fresh(c, m)[Len(c) + n] = <<m[n], LastPage(c) + 1 + ((n - 1) \div PageSz)>>
            /\ Cardinality(PagesOf(Fresh(c, m))) <= Pages
<1> DEFINE k == Lesser(Len(m), Room(c))
           e(n) == <<m[n], LastPage(c) + 1 + ((n - 1) \div PageSz)>>
           new == [n \in 1 .. k |-> e(n)]
           free == Pages - Cardinality(PagesOf(c))
<1>1. /\ Len(m) \in Nat /\ Room(c) \in Nat /\ k \in 0 .. Len(m) /\ k <= Room(c)
      /\ free \in Nat /\ Room(c) = free * PageSz
  BY RoomIs, LenProperties DEF Lesser
<1>2. LastPage(c) \in Nat
  BY Cells DEF LastPage
<1>3. \A n \in 1 .. k : e(n) \in Cell
  <2> TAKE n \in 1 .. k
  <2>1. n \in Nat \ {0} /\ n \in 1 .. Len(m) /\ m[n] \in Byte
    BY <1>1
  <2>2. (n - 1) \div PageSz \in Nat
    BY <2>1, PageIs
  <2>3. QED
    BY <1>2, <2>1, <2>2 DEF Cell
<1>4. new \in Seq(Cell) /\ Len(new) = k
  <2> HIDE DEF e
  <2>1. QED
    BY <1>1, <1>3
<1>5. Fresh(c, m) = c \o new
  BY DEF Fresh
<1> HIDE DEF new
<1>6. /\ Fresh(c, m) \in Seq(Cell) /\ Len(Fresh(c, m)) = Len(c) + k
      /\ \A n \in 1 .. Len(c) + k : Fresh(c, m)[n] = IF n <= Len(c) THEN c[n] ELSE new[n - Len(c)]
  <2>1. /\ c \o new \in Seq(Cell)
        /\ Len(c \o new) = Len(c) + Len(new)
        /\ \A n \in 1 .. Len(c) + Len(new) :
             (c \o new)[n] = IF n <= Len(c) THEN c[n] ELSE new[n - Len(c)]
    BY <1>4, ConcatProperties, Zenon
  <2> HIDE DEF k
  <2>2. QED
    BY <1>4, <1>5, <2>1
<1>7. ASSUME NEW n \in 1 .. Len(c) PROVE Fresh(c, m)[n] = c[n]
  BY <1>1, <1>6, Cells
<1>8. ASSUME NEW n \in 1 .. k PROVE Fresh(c, m)[Len(c) + n] = e(n)
  <2>1. Len(c) + n \in 1 .. Len(c) + k /\ ~ (Len(c) + n <= Len(c)) /\ Len(c) + n - Len(c) = n
    BY <1>1, Cells
  <2>2. new[n] = e(n)
    BY DEF new
  <2>3. QED
    BY <1>6, <2>1, <2>2
<1>9. Cardinality(PagesOf(Fresh(c, m))) <= Pages
  <2> DEFINE more == LastPage(c) + 1 .. LastPage(c) + free
  <2>1. ASSUME NEW n \in 1 .. Len(Fresh(c, m))
        PROVE  Fresh(c, m)[n][2] \in PagesOf(c) \union more
    <3>1. n \in 1 .. Len(c) + k
      BY <1>6
    <3>2. CASE n <= Len(c)
      <4>1. n \in 1 .. Len(c)
        BY <3>1, <3>2, Cells
      <4>2. QED
        BY <1>7, <4>1, PagesFinite
    <3>3. CASE n > Len(c)
      <4> DEFINE h == n - Len(c)
      <4>1. h \in 1 .. k /\ n = Len(c) + h /\ h \in Nat \ {0} /\ h <= free * PageSz
        BY <1>1, <3>1, <3>3, Cells
      <4> HIDE DEF h
      <4>2. (h - 1) \div PageSz \in Nat /\ (h - 1) \div PageSz < free
        BY <1>1, <4>1, PageIs
      <4>3. Fresh(c, m)[n][2] = LastPage(c) + 1 + ((h - 1) \div PageSz)
        BY <1>8, <4>1
      <4>4. QED
        BY <1>1, <1>2, <4>2, <4>3
    <3>4. QED
      BY <3>1, <3>2, <3>3, Cells
  <2>2. PagesOf(Fresh(c, m)) \subseteq PagesOf(c) \union more
    <3>1. PagesOf(Fresh(c, m)) = { Fresh(c, m)[n][2] : n \in 1 .. Len(Fresh(c, m)) }
      BY <1>6, PagesFinite, Zenon
    <3>2. QED
      BY <2>1, <3>1, Zenon
  <2>3. IsFiniteSet(more) /\ Cardinality(more) = free
    BY <1>1, <1>2, NextOnes
  <2> HIDE DEF more
  <2>4. /\ IsFiniteSet(PagesOf(c) \union more)
        /\ Cardinality(PagesOf(c) \union more) =
             Cardinality(PagesOf(c)) + free - Cardinality(PagesOf(c) \cap more)
    BY <2>3, FS_Union, PagesFinite
  <2>5. Cardinality(PagesOf(c) \cap more) \in Nat
    <3>1. IsFiniteSet(PagesOf(c) \cap more)
      BY FS_Intersection, PagesFinite
    <3>2. QED
      BY <3>1, FS_CardinalityType
  <2>6. Cardinality(PagesOf(Fresh(c, m))) <= Cardinality(PagesOf(c) \union more)
    BY <2>2, <2>4, FS_Subset
  <2>7. Cardinality(PagesOf(Fresh(c, m))) \in Nat /\ Cardinality(PagesOf(c)) \in Nat
    BY <1>6, PagesFinite
  <2>8. QED
    BY <1>1, <2>4, <2>5, <2>6, <2>7, Sizes
<1>10. QED
  BY <1>1, <1>2, <1>6, <1>7, <1>8, <1>9

(* What does not fit is left.                                               *)
LEMMA UnwrittenIs ==
  ASSUME NEW c \in Seq(Cell), Cardinality(PagesOf(c)) <= Pages, NEW m \in Seq(Byte)
  PROVE  LET k == Lesser(Len(m), Room(c))
         IN /\ Unwritten(c, m) \in Seq(Byte)
            /\ Len(Unwritten(c, m)) = Len(m) - k
            /\ \A n \in 1 .. Len(m) - k : Unwritten(c, m)[n] = m[k + n]
            /\ Room(c) = 0 => Unwritten(c, m) = m
            /\ Len(m) <= Room(c) <=> Unwritten(c, m) = << >>
<1> DEFINE k == Lesser(Len(m), Room(c))
<1>1. /\ Len(m) \in Nat /\ Room(c) \in Nat
      /\ \A n \in 1 .. Len(m) : m[n] \in Byte
  BY RoomIs, LenProperties, ElementOfSeq
<1>2. CASE Len(m) <= Room(c)
  <2>1. Unwritten(c, m) = << >> /\ k = Len(m)
    BY <1>1, <1>2, SubSeqEmpty DEF Unwritten, Lesser
  <2>2. Room(c) = 0 => m = << >>
    BY <1>1, <1>2, EmptySeq
  <2>3. QED
    BY <1>1, <1>2, <2>1, <2>2, EmptySeq
<1>3. CASE ~ (Len(m) <= Room(c))
  <2>1. k = Room(c) /\ Room(c) + 1 \in Int /\ Len(m) \in Int /\ k + 1 <= Len(m) /\ k \in Nat
    BY <1>1, <1>3 DEF Lesser
  <2>2. \A n \in Room(c) + 1 .. Len(m) : m[n] \in Byte
    BY <1>1
  <2>3. /\ Unwritten(c, m) \in Seq(Byte)
        /\ Len(Unwritten(c, m)) = Len(m) - (Room(c) + 1) + 1
        /\ \A n \in 1 .. Len(m) - (Room(c) + 1) + 1 :
             Unwritten(c, m)[n] = m[(Room(c) + 1) + n - 1]
    BY <2>1, <2>2, <1>1, SubSeqProperties DEF Unwritten
  <2> HIDE DEF k
  <2>4. /\ Len(m) - (Room(c) + 1) + 1 = Len(m) - k
        /\ \A n \in 1 .. Len(m) - k : (Room(c) + 1) + n - 1 = k + n
    <3>1. Len(m) - (Room(c) + 1) + 1 = Len(m) - k
      BY <2>1, <1>1
    <3>2. ASSUME NEW n \in Int PROVE (Room(c) + 1) + n - 1 = k + n
      BY <2>1, <1>1
    <3>3. QED
      BY <2>1, <1>1, <3>1, <3>2
  <2>5. Len(Unwritten(c, m)) > 0
    BY <2>1, <2>3, <2>4, <1>1
  <2>6. Unwritten(c, m) # << >>
    BY <2>5, EmptySeq
  <2>7. Room(c) = 0 => Unwritten(c, m) = m
    BY <1>1, SubSeqFull DEF Unwritten
  <2>8. QED
    BY <1>3, <2>3, <2>4, <2>6, <2>7 DEF k
<1>4. QED
  BY <1>2, <1>3

LEMMA EmptyRoom ==
  /\ << >> \in Seq(Cell) /\ PagesOf(<< >>) = {} /\ Cardinality(PagesOf(<< >>)) <= Pages
  /\ Room(<< >>) = WholeSz + PageSz /\ LastPage(<< >>) = 0
<1>1. << >> \in Seq(Cell) /\ PagesOf(<< >>) = {} /\ LastPage(<< >>) = 0
  BY EmptySeq DEF PagesOf, LastPage
<1>2. Cardinality(PagesOf(<< >>)) = 0
  BY <1>1, FS_EmptySet
<1>3. Room(<< >>) = Pages * PageSz
  BY <1>2, Sizes DEF Room
<1>4. QED
  BY <1>1, <1>2, <1>3, Layout, Sizes

(* A full packet takes all pages.                                           *)
LEMMA FullRoom ==
  ASSUME NEW c \in Seq(Cell), Cardinality(PagesOf(c)) <= Pages, Tidy(c), Len(c) >= BufSz
  PROVE  Room(c) = 0
<1> DEFINE first == c[1][2]
<1>1. /\ Len(c) \in Nat /\ BufSz \in Nat \ {0} /\ 1 \in 1 .. Len(c) /\ first \in Nat
      /\ DOMAIN c = 1 .. Len(c)
  BY Cells, Sizes
<1>2. ASSUME NEW j \in 0 .. Pages - 1 PROVE first + j \in PagesOf(c)
  <2> DEFINE n == j * PageSz + 1
  <2>1. j \in Int /\ j >= 0 /\ j <= Pages - 1 /\ PageSz \in Int /\ PageSz > 0 /\ Pages - 1 \in Int
    BY Sizes
  <2>2. j * PageSz \in Int /\ j * PageSz >= 0
    BY <2>1
  <2>3. j * PageSz <= WholeSz
    <3>1. CASE j = Pages - 1
      BY <3>1, <2>2 DEF WholeSz
    <3>2. CASE j < Pages - 1
      <4>1. j * PageSz + PageSz <= (Pages - 1) * PageSz
        BY <2>1, <3>2, TimesGrows
      <4>2. QED
        BY <2>1, <2>2, <4>1, Layout DEF WholeSz
    <3>3. QED
      BY <2>1, <3>1, <3>2
  <2>4. (j * PageSz + 0) \div PageSz = j
    BY <2>1, QuotientIs
  <2>5. n \in 1 .. Len(c) /\ n <= BufSz /\ n - 1 = j * PageSz + 0
    BY <1>1, <2>2, <2>3, Layout
  <2> HIDE DEF n
  <2>6. c[n][2] = first + ((n - 1) \div PageSz)
    BY <1>1, <2>5 DEF Tidy
  <2>7. c[n][2] = first + j
    BY <2>4, <2>5, <2>6
  <2>8. QED
    BY <2>5, <2>7, PagesFinite
<1> HIDE DEF first
<1> DEFINE all == { first + j : j \in 0 .. Pages - 1 }
<1>3. all \subseteq PagesOf(c)
  BY <1>2
<1>4. IsFiniteSet(all) /\ Cardinality(all) = Pages
  <2>1. CASE first = 0
    <3>1. all = 0 .. Pages - 1
      BY <2>1, Sizes
    <3>2. Pages - 1 \in Int /\ 0 \in Int /\ ~ (0 > Pages - 1) /\ Pages - 1 - 0 + 1 = Pages
      BY Sizes
    <3>3. /\ IsFiniteSet(0 .. Pages - 1)
          /\ Cardinality(0 .. Pages - 1) = IF 0 > Pages - 1 THEN 0 ELSE Pages - 1 - 0 + 1
      BY <3>2, FS_Interval
    <3>4. QED
      BY <3>1, <3>2, <3>3
  <2>2. CASE first # 0
    <3>1. first - 1 \in Nat /\ Pages \in Nat
      BY <1>1, <2>2, Sizes
    <3>2. all = (first - 1) + 1 .. (first - 1) + Pages
      <4>1. ASSUME NEW x \in (first - 1) + 1 .. (first - 1) + Pages PROVE x \in all
        <5>1. x - first \in 0 .. Pages - 1 /\ x = first + (x - first)
          BY <1>1, <3>1
        <5>2. QED
          BY <5>1
      <4>2. ASSUME NEW j \in 0 .. Pages - 1
            PROVE  first + j \in (first - 1) + 1 .. (first - 1) + Pages
        BY <1>1, <3>1
      <4>3. QED
        BY <4>1, <4>2
    <3>3. /\ IsFiniteSet((first - 1) + 1 .. (first - 1) + Pages)
          /\ Cardinality((first - 1) + 1 .. (first - 1) + Pages) = Pages
      BY <3>1, NextOnes
    <3> HIDE DEF all
    <3>4. QED
      BY <3>2, <3>3, Zenon
  <2>3. QED
    BY <2>1, <2>2
<1> HIDE DEF all
<1>5. Cardinality(PagesOf(c)) = Pages
  <2>1. Cardinality(all) <= Cardinality(PagesOf(c))
    BY <1>3, PagesFinite, FS_Subset
  <2>2. QED
    BY <1>4, <2>1, PagesFinite, Sizes
<1>6. QED
  BY <1>5, Sizes DEF Room

(* Less than a page of bytes, all in one, leave all the others.             *)
LEMMA OddRoom ==
  ASSUME NEW c \in Seq(Cell), Tidy(c), Len(c) \in 1 .. PageSz - 1, Len(c) <= BufSz
  PROVE  Room(c) = WholeSz
<1>1. /\ Len(c) \in Nat /\ 1 \in 1 .. Len(c) /\ DOMAIN c = 1 .. Len(c) /\ c[1][2] \in Nat
      /\ PageSz \in Nat /\ 1 * PageSz = PageSz
  BY Cells, Sizes
<1>2. ASSUME NEW n \in 1 .. Len(c) PROVE c[n][2] = c[1][2]
  <2>1. n \in Nat \ {0} /\ n <= 1 * PageSz /\ n <= BufSz
    BY <1>1, Sizes
  <2>2. (n - 1) \div PageSz \in Nat /\ (n - 1) \div PageSz < 1
    BY <2>1, PageIs
  <2>3. (n - 1) \div PageSz = 0
    BY <2>2
  <2>4. QED
    BY <1>1, <2>1, <2>3 DEF Tidy
<1>3. PagesOf(c) = {c[1][2]}
  <2>1. PagesOf(c) = { c[n][2] : n \in 1 .. Len(c) }
    BY PagesFinite
  <2>2. QED
    BY <1>1, <1>2, <2>1
<1>4. Cardinality(PagesOf(c)) = 1
  BY <1>3, FS_Singleton
<1>5. QED
  BY <1>4 DEF Room, WholeSz

(* The bytes of a full packet in its last page.                             *)
LEMMA FullInLast ==
  ASSUME NEW c \in Seq(Cell), Tidy(c), Len(c) = BufSz
  PROVE  InLastPage(c) = Odd /\ c # << >>
<1>1. /\ BufSz \in Nat \ {0} /\ 1 \in 1 .. BufSz /\ BufSz \in 1 .. BufSz
      /\ DOMAIN c = 1 .. BufSz /\ c # << >> /\ c[1][2] \in Nat
  BY Cells, Sizes
<1>2. /\ Pages - 1 \in Nat /\ (Pages - 1) * PageSz = WholeSz /\ Pages \in Nat
      /\ WholeSz \in Nat /\ Odd \in Nat /\ BufSz = WholeSz + Odd
      /\ BufSz <= Pages * PageSz
  BY Layout, Sizes DEF WholeSz
<1>3. ASSUME NEW n \in 1 .. BufSz
      PROVE  /\ c[n][2] = c[1][2] + ((n - 1) \div PageSz)
             /\ (n - 1) \div PageSz \in Nat
             /\ n > WholeSz => (n - 1) \div PageSz = Pages - 1
             /\ n <= WholeSz => (n - 1) \div PageSz < Pages - 1
  <2>1. n \in Nat \ {0} /\ n <= Pages * PageSz
    BY <1>1, <1>2, Layout
  <2>2. /\ (n - 1) \div PageSz \in Nat /\ (n - 1) \div PageSz < Pages
        /\ n > WholeSz => (n - 1) \div PageSz >= Pages - 1
        /\ n <= WholeSz => (n - 1) \div PageSz < Pages - 1
    BY <1>2, <2>1, PageIs
  <2>3. c[n][2] = c[1][2] + ((n - 1) \div PageSz)
    BY <1>1 DEF Tidy
  <2>4. QED
    BY <1>2, <2>2, <2>3
<1>4. LastPage(c) = c[1][2] + (Pages - 1)
  <2>1. BufSz > WholeSz
    BY Layout
  <2>2. (BufSz - 1) \div PageSz = Pages - 1 /\ c[BufSz][2] = c[1][2] + ((BufSz - 1) \div PageSz)
    BY <1>1, <1>3, <2>1
  <2>3. QED
    BY <1>1, <2>2 DEF LastPage
<1>5. ASSUME NEW n \in 1 .. BufSz
      PROVE  c[n][2] = LastPage(c) <=> n > WholeSz
  <2> DEFINE q == (n - 1) \div PageSz
  <2>1. /\ c[n][2] = c[1][2] + q /\ q \in Nat
        /\ n > WholeSz => q = Pages - 1
        /\ n <= WholeSz => q < Pages - 1
    BY <1>3
  <2> HIDE DEF q
  <2>2. QED
    BY <1>1, <1>2, <1>4, <2>1
<1>6. { n \in DOMAIN c : c[n][2] = LastPage(c) } = WholeSz + 1 .. WholeSz + Odd
  BY <1>1, <1>2, <1>5
<1>7. QED
  <2>1. Cardinality(WholeSz + 1 .. WholeSz + Odd) = Odd
    BY <1>2, NextOnes
  <2>2. QED
    BY <1>1, <1>6, <2>1, Zenon DEF InLastPage

(* The odd bytes of a write go behind the last byte, if they fit.           *)
LEMMA MergedIs ==
  ASSUME NEW c \in Seq(Cell), NEW m \in Seq(Byte)
  PROVE  LET k == Tail0(c, m)
         IN /\ k \in 0 .. Len(m) /\ (k = 0 \/ k = Len(m) % PageSz)
            /\ Merged(c, m) \in Seq(Cell)
            /\ Len(Merged(c, m)) = Len(c) + k
            /\ \A n \in 1 .. Len(c) : Merged(c, m)[n] = c[n]
            /\ \A n \in 1 .. k : Merged(c, m)[Len(c) + n] = <<m[n], LastPage(c)>>
            /\ PagesOf(Merged(c, m)) \subseteq PagesOf(c)
            /\ k = 0 => Merged(c, m) = c
<1> DEFINE k == Tail0(c, m)
           e(n) == <<m[n], LastPage(c)>>
           new == [n \in 1 .. k |-> e(n)]
<1>1. Len(m) \in Nat /\ Len(c) \in Nat /\ LastPage(c) \in Nat
  BY Cells, LenProperties DEF LastPage
<1>2. Len(m) % PageSz \in 0 .. Len(m)
  <2>1. Len(m) \in Int /\ Len(m) >= 0 /\ PageSz \in Int /\ PageSz > 0
    BY <1>1, Sizes
  <2>2. /\ Len(m) \div PageSz \in Int /\ Len(m) \div PageSz >= 0
        /\ Len(m) % PageSz \in 0 .. PageSz - 1
        /\ Len(m) = (Len(m) \div PageSz) * PageSz + (Len(m) % PageSz)
    BY <2>1, Division
  <2>3. (Len(m) \div PageSz) * PageSz \in Int /\ (Len(m) \div PageSz) * PageSz >= 0
    BY <2>1, <2>2
  <2>4. QED
    BY <2>1, <2>2, <2>3
<1>3. k \in 0 .. Len(m) /\ (k = 0 \/ k = Len(m) % PageSz)
  BY <1>1, <1>2 DEF Tail0
<1>4. k # 0 => c # << >>
  BY DEF Tail0
<1> HIDE DEF k
<1>5. \A n \in 1 .. k : e(n) \in Cell
  BY <1>1, <1>3, ElementOfSeq DEF Cell
<1>6. new \in Seq(Cell) /\ Len(new) = k
  <2> HIDE DEF e
  <2>1. QED
    BY <1>1, <1>3, <1>5
<1>7. Merged(c, m) = c \o new
  BY DEF Merged, k
<1> HIDE DEF new
<1>8. /\ Merged(c, m) \in Seq(Cell) /\ Len(Merged(c, m)) = Len(c) + k
      /\ \A n \in 1 .. Len(c) + k :
           Merged(c, m)[n] = IF n <= Len(c) THEN c[n] ELSE new[n - Len(c)]
  <2>1. /\ c \o new \in Seq(Cell)
        /\ Len(c \o new) = Len(c) + Len(new)
        /\ \A n \in 1 .. Len(c) + Len(new) :
             (c \o new)[n] = IF n <= Len(c) THEN c[n] ELSE new[n - Len(c)]
    BY <1>6, ConcatProperties, Zenon
  <2>2. QED
    BY <1>6, <1>7, <2>1
<1>9. ASSUME NEW n \in 1 .. Len(c) PROVE Merged(c, m)[n] = c[n]
  BY <1>1, <1>3, <1>8
<1>10. ASSUME NEW n \in 1 .. k PROVE Merged(c, m)[Len(c) + n] = e(n)
  <2>1. Len(c) + n \in 1 .. Len(c) + k /\ ~ (Len(c) + n <= Len(c)) /\ Len(c) + n - Len(c) = n
    BY <1>1, <1>3
  <2>2. new[n] = e(n)
    BY DEF new
  <2>3. QED
    BY <1>8, <2>1, <2>2
<1>11. PagesOf(Merged(c, m)) \subseteq PagesOf(c)
  <2>1. ASSUME NEW n \in 1 .. Len(c) + k PROVE Merged(c, m)[n][2] \in PagesOf(c)
    <3>1. CASE n <= Len(c)
      <4>1. n \in 1 .. Len(c)
        BY <1>1, <3>1
      <4>2. QED
        BY <1>9, <4>1, PagesFinite
    <3>2. CASE n > Len(c)
      <4> DEFINE h == n - Len(c)
      <4>1. h \in 1 .. k /\ n = Len(c) + h /\ k # 0
        BY <1>1, <1>3, <3>2
      <4> HIDE DEF h
      <4>2. Merged(c, m)[n][2] = LastPage(c)
        BY <1>10, <4>1
      <4>3. Len(c) \in 1 .. Len(c) /\ LastPage(c) = c[Len(c)][2]
        BY <1>4, <4>1, Cells DEF LastPage
      <4>4. QED
        BY <4>2, <4>3, PagesFinite
    <3>3. QED
      BY <1>1, <3>1, <3>2
  <2>2. PagesOf(Merged(c, m)) = { Merged(c, m)[n][2] : n \in 1 .. Len(Merged(c, m)) }
    BY <1>8, PagesFinite, Zenon
  <2>3. QED
    BY <1>8, <2>1, <2>2
<1>12. k = 0 => Merged(c, m) = c
  <2>1. SUFFICES ASSUME k = 0 PROVE Merged(c, m) = c
    OBVIOUS
  <2>2. Len(Merged(c, m)) = Len(c)
    BY <1>1, <1>8, <2>1
  <2>3. QED
    BY <1>8, <1>9, <2>2, SeqEqual
<1>13. QED
  BY <1>3, <1>8, <1>9, <1>10, <1>11, <1>12 DEF k

(* What a read leaves.                                                      *)
LEMMA TakenIs ==
  ASSUME NEW c \in Seq(Cell), NEW k \in Nat
  PROVE  LET d == SubSeq(c, k + 1, Len(c))
         IN /\ d \in Seq(Cell)
            /\ k < Len(c) => Len(d) = Len(c) - k
            /\ k >= Len(c) => d = << >>
            /\ \A n \in 1 .. Len(d) : k + n \in 1 .. Len(c) /\ d[n] = c[k + n]
            /\ PagesOf(d) \subseteq PagesOf(c)
<1> DEFINE d == SubSeq(c, k + 1, Len(c))
<1>1. Len(c) \in Nat /\ \A n \in 1 .. Len(c) : c[n] \in Cell
  BY Cells
<1>2. CASE k >= Len(c)
  <2>1. d = << >>
    BY <1>1, <1>2, SubSeqEmpty
  <2> HIDE DEF d
  <2>2. d \in Seq(Cell) /\ Len(d) = 0 /\ PagesOf(d) = {}
    BY <2>1, EmptySeq, EmptyRoom
  <2>3. ~ (k < Len(c)) /\ \A n \in 1 .. Len(d) : FALSE
    BY <1>1, <1>2, <2>2
  <2>4. QED
    BY <2>1, <2>2, <2>3, Zenon DEF d
<1>3. CASE k < Len(c)
  <2>1. /\ d \in Seq(Cell)
        /\ Len(d) = IF k + 1 <= Len(c) THEN Len(c) - (k + 1) + 1 ELSE 0
        /\ \A n \in 1 .. Len(c) - (k + 1) + 1 : d[n] = c[(k + 1) + n - 1]
    <3>1. k + 1 \in Int /\ Len(c) \in Int /\ \A n \in k + 1 .. Len(c) : c[n] \in Cell
      BY <1>1
    <3>2. QED
      BY <3>1, SubSeqProperties
  <2> HIDE DEF d
  <2>2. Len(d) = Len(c) - k
    BY <1>1, <1>3, <2>1
  <2>3. ASSUME NEW n \in 1 .. Len(d)
        PROVE  k + n \in 1 .. Len(c) /\ d[n] = c[k + n]
    <3>1. n \in 1 .. Len(c) - (k + 1) + 1 /\ (k + 1) + n - 1 = k + n /\ k + n \in 1 .. Len(c)
      BY <1>1, <1>3, <2>2
    <3>2. QED
      BY <2>1, <3>1
  <2>4. PagesOf(d) \subseteq PagesOf(c)
    <3>1. PagesOf(d) = { d[n][2] : n \in 1 .. Len(d) }
      BY <2>1, PagesFinite, Zenon
    <3>2. PagesOf(c) = { c[n][2] : n \in 1 .. Len(c) }
      BY PagesFinite
    <3>3. QED
      BY <2>3, <3>1, <3>2
  <2>5. QED
    BY <1>1, <1>3, <2>1, <2>2, <2>3, <2>4 DEF d
<1>4. QED
  BY <1>1, <1>2, <1>3

(***************************************************************************)
(* Packets.                                                                *)
(***************************************************************************)
LEMMA CharIs ==
  ASSUME NEW n \in Nat
  PROVE  Char(n) \in Byte /\ (n < Base => Char(n) = n)
<1>1. n \in Int /\ n >= 0 /\ Base \in Int /\ Base > 0
  BY Sizes
<1>2. n % Base \in 0 .. Base - 1
  BY <1>1, Division
<1>3. n < Base => n % Base = n
  <2>1. SUFFICES ASSUME n < Base PROVE n % Base = n
    OBVIOUS
  <2>2. (0 * Base + n) % Base = n
    BY <1>1, <2>1, QuotientIs
  <2>3. QED
    BY <1>1, <2>2
<1>4. QED
  BY <1>2, <1>3 DEF Char, Byte

(* The header: the last of the Base values is never the number of packages, *)
(* so that a length is read as it was written.                              *)
LEMMA HeaderIs ==
  ASSUME NEW n \in 0 .. MaxData
  PROVE  /\ num_pcg(n) \in Byte /\ num_l_pcg(n) \in Byte
         /\ Char(num_pcg(n) - 1) * Base + Char(num_l_pcg(n) - 1) = n
<1> DEFINE q == n \div Base
           e == n % Base
<1>1. n \in Int /\ n >= 0 /\ Base \in Int /\ Base > 0 /\ Base >= 4
      /\ MaxData = (Base - 2) * Base /\ n <= MaxData
  BY Sizes
<1>2. q \in Int /\ q >= 0 /\ e \in 0 .. Base - 1 /\ n = q * Base + e
  BY <1>1, Division
<1>3. num_pcg(n) = Char(q + 1) /\ num_l_pcg(n) = Char(e + 1)
  BY DEF num_pcg, num_l_pcg
<1> HIDE DEF q, e
<1>4. q <= Base - 2
  <2>1. SUFFICES ASSUME q > Base - 2 PROVE FALSE
    BY <1>1, <1>2
  <2>2. Base - 2 \in Int
    BY <1>1
  <2>3. (Base - 2) * Base + Base <= q * Base
    BY <1>1, <1>2, <2>1, <2>2, TimesGrows
  <2>4. q * Base \in Int /\ (Base - 2) * Base \in Int
    BY <1>1, <1>2
  <2>5. QED
    BY <1>1, <1>2, <2>3, <2>4
<1>5. Char(q + 1) = q + 1 /\ Char((q + 1) - 1) = q
  <2>1. q + 1 \in Nat /\ q + 1 < Base /\ (q + 1) - 1 = q /\ q \in Nat /\ q < Base
    BY <1>1, <1>2, <1>4
  <2>2. QED
    BY <2>1, CharIs
<1>6. Char(Char(e + 1) - 1) = e
  <2>1. CASE e < Base - 1
    <3>1. e + 1 \in Nat /\ e + 1 < Base /\ (e + 1) - 1 = e /\ e \in Nat /\ e < Base
      BY <1>1, <1>2, <2>1
    <3>2. QED
      BY <3>1, CharIs
  <2>2. CASE e = Base - 1
    <3>1. e + 1 = Base /\ Base \in Nat
      BY <1>1, <2>2
    <3>2. (1 * Base + 0) % Base = 0
      BY <1>1, QuotientIs
    <3>3. Char(e + 1) = 0
      BY <1>1, <3>1, <3>2 DEF Char
    <3>4. (0 - 1) % Base = Base - 1
      BY <1>1
    <3>5. QED
      BY <2>2, <3>3, <3>4 DEF Char
  <2>3. QED
    BY <1>1, <1>2, <2>1, <2>2
<1>7. Char(q + 1) \in Byte /\ Char(e + 1) \in Byte
  <2>1. q + 1 \in Nat /\ e + 1 \in Nat
    BY <1>1, <1>2
  <2>2. QED
    BY <2>1, CharIs
<1>8. QED
  BY <1>2, <1>3, <1>5, <1>6, <1>7

LEMMA PacketIs ==
  ASSUME NEW data \in Seq(Byte), Len(data) <= MaxData, NEW number \in 0 .. Numbers - 1
  PROVE  /\ PacketOf(data, number) \in Seq(Byte)
         /\ Len(PacketOf(data, number)) = Len(data) + 3
         /\ PacketOf(data, number)[1] = number
         /\ PacketOf(data, number)[2] = num_pcg(Len(data))
         /\ PacketOf(data, number)[3] = num_l_pcg(Len(data))
         /\ \A n \in 1 .. Len(data) : PacketOf(data, number)[n + 3] = data[n]
<1> DEFINE head == <<number, num_pcg(Len(data)), num_l_pcg(Len(data))>>
<1>1. Len(data) \in Nat /\ Len(data) \in 0 .. MaxData
  BY LenProperties, Sizes
<1>2. number \in Byte
  BY Sizes DEF Byte
<1>3. num_pcg(Len(data)) \in Byte /\ num_l_pcg(Len(data)) \in Byte
  BY <1>1, HeaderIs
<1>4. head \in Seq(Byte) /\ Len(head) = 3 /\ head[1] = number
      /\ head[2] = num_pcg(Len(data)) /\ head[3] = num_l_pcg(Len(data))
  BY <1>2, <1>3
<1>5. PacketOf(data, number) = head \o data
  BY DEF PacketOf
<1> HIDE DEF head
<1>6. /\ head \o data \in Seq(Byte)
      /\ Len(head \o data) = Len(head) + Len(data)
      /\ \A n \in 1 .. Len(head) + Len(data) :
           (head \o data)[n] = IF n <= Len(head) THEN head[n] ELSE data[n - Len(head)]
  BY <1>4, ConcatProperties, Zenon
<1>7. \A n \in 1 .. Len(data) : (head \o data)[n + 3] = data[n]
  <2> TAKE n \in 1 .. Len(data)
  <2>1. /\ n + 3 \in 1 .. Len(head) + Len(data) /\ ~ (n + 3 <= Len(head))
        /\ n + 3 - Len(head) = n
    BY <1>1, <1>4
  <2>2. QED
    BY <1>6, <2>1
<1>8. \A n \in 1 .. 3 : (head \o data)[n] = head[n]
  BY <1>1, <1>4, <1>6
<1>9. QED
  BY <1>1, <1>4, <1>5, <1>6, <1>7, <1>8

(***************************************************************************)
(* The places of the processes and their descriptors.                      *)
(***************************************************************************)
LEMMA Procs ==
  /\ Proc = {"parent", "child"} /\ Other("parent") = "child" /\ Other("child") = "parent"
  /\ \A p \in Proc : Other(p) \in Proc /\ Other(p) # p /\ Other(Other(p)) = p
  BY DEF Proc, Other

LEMMA SendPlaces ==
  ASSUME NEW from, NEW to, from \in Sending, to \in Sending \union {"snd_close"}
  PROVE  /\ from \in ToSend /\ to \in ToSend /\ from # "snd_open" /\ to # "snd_open"
         /\ from \notin ToReceive /\ to \notin ToReceive
         /\ from \notin Ended /\ to \notin Ended
  BY DEF Sending, ToSend, ToReceive, Ended

(* What a process does to its own descriptors.                              *)
LEMMA FdsOfOthers ==
  ASSUME FdsKept, EchoTypeOK, NEW p \in Proc, NEW q \in Proc, q # p,
         pc'[q] = pc[q], NEW gone, fd' = fd \ gone, \A d \in gone : d[1] = p
  PROVE  /\ <<q, q, 0>> \in fd' <=> pc'[q] \in BeforeSending(q) \union {"snd_open"}
         /\ <<q, q, 1>> \in fd' <=> pc'[q] \in BeforeSending(q) \union ToSend
         /\ <<q, Other(q), 0>> \in fd' <=> pc'[q] \in BeforeReceiving(q) \union ToReceive
         /\ <<q, Other(q), 1>> \in fd' <=> pc'[q] \in BeforeReceiving(q) \union {"rcv_open"}
<1>1. \A x, n : <<q, x, n>> \notin gone
  OBVIOUS
<1>2. QED
  BY <1>1 DEF FdsKept

LEMMA FdsStay ==
  ASSUME FdsKept, EchoTypeOK, NEW p \in Proc, NEW from, NEW to,
         Goes(p, from, to), to \in PC, NEW gone, fd' = fd \ gone, \A d \in gone : d[1] = p,
         /\ <<p, p, 0>> \in fd \ gone <=> to \in BeforeSending(p) \union {"snd_open"}
         /\ <<p, p, 1>> \in fd \ gone <=> to \in BeforeSending(p) \union ToSend
         /\ <<p, Other(p), 0>> \in fd \ gone <=> to \in BeforeReceiving(p) \union ToReceive
         /\ <<p, Other(p), 1>> \in fd \ gone <=> to \in BeforeReceiving(p) \union {"rcv_open"}
  PROVE  FdsKept'
<1>1. pc'[p] = to /\ \A q \in Proc : q # p => pc'[q] = pc[q]
  BY DEF Goes, EchoTypeOK
<1>2. ASSUME NEW q \in Proc
      PROVE  /\ <<q, q, 0>> \in fd' <=> pc'[q] \in BeforeSending(q) \union {"snd_open"}
             /\ <<q, q, 1>> \in fd' <=> pc'[q] \in BeforeSending(q) \union ToSend
             /\ <<q, Other(q), 0>> \in fd' <=> pc'[q] \in BeforeReceiving(q) \union ToReceive
             /\ <<q, Other(q), 1>> \in fd' <=> pc'[q] \in BeforeReceiving(q) \union {"rcv_open"}
  <2>1. CASE q = p
    BY <1>1, <2>1
  <2>2. CASE q # p
    BY <1>1, <2>2, FdsOfOthers
  <2>3. QED
    BY <2>1, <2>2
<1>3. QED
  BY <1>2 DEF FdsKept

LEMMA ExitGone ==
  ASSUME NEW p \in Proc, EchoTypeOK
  PROVE  LET gone == { d \in fd : d[1] = p }
         IN /\ ExitFds(p) = fd \ gone /\ \A d \in gone : d[1] = p
            /\ \A x, n : <<p, x, n>> \notin fd \ gone
  BY DEF ExitFds

LEMMA Classes ==
  ASSUME NEW p \in Proc
  PROVE  /\ \A to \in Ended : to \notin BeforeSending(p) \union ToSend \union BeforeReceiving(p)
                                          \union ToReceive \union {"snd_open", "rcv_open"}
         /\ p = "parent" => BeforeSending(p) = {} /\ BeforeReceiving(p) = ToSend
         /\ p = "child" => BeforeSending(p) = ToReceive /\ BeforeReceiving(p) = {}
  BY DEF Ended, BeforeSending, ToSend, BeforeReceiving, ToReceive, Proc, Sending

LEMMA FdsStep ==
  ASSUME EchoTypeOK, FdsKept, [EchoNext]_echoVars
  PROVE  FdsKept'
<1>1. ASSUME NEW p \in Proc, NEW from, NEW to \in Ended, Goes(p, from, to), fd' = ExitFds(p)
      PROVE  FdsKept'
  <2> DEFINE gone == { d \in fd : d[1] = p }
  <2>1. /\ fd' = fd \ gone /\ (\A d \in gone : d[1] = p)
        /\ \A x, n : <<p, x, n>> \notin fd \ gone
    BY <1>1, ExitGone
  <2> HIDE DEF gone
  <2>2. to \in PC
    BY <1>1 DEF Ended, PC
  <2>3. to \notin BeforeSending(p) \union ToSend \union BeforeReceiving(p)
                                          \union ToReceive \union {"snd_open", "rcv_open"}
    BY <1>1, Classes
  <2>4. /\ <<p, p, 0>> \in fd \ gone <=> to \in BeforeSending(p) \union {"snd_open"}
        /\ <<p, p, 1>> \in fd \ gone <=> to \in BeforeSending(p) \union ToSend
        /\ <<p, Other(p), 0>> \in fd \ gone <=> to \in BeforeReceiving(p) \union ToReceive
        /\ <<p, Other(p), 1>> \in fd \ gone <=> to \in BeforeReceiving(p) \union {"rcv_open"}
    BY <2>1, <2>3
  <2>5. QED
    BY <1>1, <2>1, <2>2, <2>4, FdsStay
<1>2. ASSUME NEW p \in Proc, NEW from, NEW to, Goes(p, from, to), fd' = fd,
             from \in Sending, to \in Sending \union {"snd_close"}
      PROVE  FdsKept'
  <2>1. /\ fd' = fd \ {} /\ pc[p] = from /\ to \in PC
        /\ <<p, p, 0>> \in fd <=> from \in BeforeSending(p) \union {"snd_open"}
        /\ <<p, p, 1>> \in fd <=> from \in BeforeSending(p) \union ToSend
        /\ <<p, Other(p), 0>> \in fd <=> from \in BeforeReceiving(p) \union ToReceive
        /\ <<p, Other(p), 1>> \in fd <=> from \in BeforeReceiving(p) \union {"rcv_open"}
    BY <1>2 DEF FdsKept, Goes, PC, Sending
  <2>2. /\ from \in BeforeSending(p) \union {"snd_open"} <=>
             to \in BeforeSending(p) \union {"snd_open"}
        /\ from \in BeforeSending(p) \union ToSend <=> to \in BeforeSending(p) \union ToSend
        /\ from \in BeforeReceiving(p) \union ToReceive <=>
             to \in BeforeReceiving(p) \union ToReceive
        /\ from \in BeforeReceiving(p) \union {"rcv_open"} <=>
             to \in BeforeReceiving(p) \union {"rcv_open"}
    BY <1>2, SendPlaces, Classes, Procs DEF ToReceive
  <2> DEFINE gone == {}
  <2>3. /\ <<p, p, 0>> \in fd \ gone <=> to \in BeforeSending(p) \union {"snd_open"}
        /\ <<p, p, 1>> \in fd \ gone <=> to \in BeforeSending(p) \union ToSend
        /\ <<p, Other(p), 0>> \in fd \ gone <=> to \in BeforeReceiving(p) \union ToReceive
        /\ <<p, Other(p), 1>> \in fd \ gone <=> to \in BeforeReceiving(p) \union {"rcv_open"}
    BY <2>1, <2>2
  <2>4. fd' = fd \ gone /\ \A d \in gone : d[1] = p
    BY <2>1
  <2> HIDE DEF gone
  <2>5. QED
    BY <1>2, <2>1, <2>3, <2>4, FdsStay
<1>3. ASSUME NEW p \in Proc, SndOpen(p) PROVE FdsKept'
  <2>1. CASE Goes(p, "snd_open", "crashed") /\ fd' = ExitFds(p)
    BY <1>1, <2>1 DEF Ended
  <2>2. CASE Goes(p, "snd_open", "snd") /\ fd' = fd \ {<<p, p, 0>>}
    <3>1. /\ <<p, p, 1>> \in fd <=> "snd_open" \in BeforeSending(p) \union ToSend
          /\ <<p, Other(p), 0>> \in fd <=> "snd_open" \in BeforeReceiving(p) \union ToReceive
          /\ <<p, Other(p), 1>> \in fd <=> "snd_open" \in BeforeReceiving(p) \union {"rcv_open"}
      BY <2>2 DEF FdsKept, Goes
    <3>2. /\ "snd" \notin BeforeSending(p) \union {"snd_open"}
          /\ "snd_open" \in BeforeSending(p) \union ToSend <=>
               "snd" \in BeforeSending(p) \union ToSend
          /\ "snd_open" \in BeforeReceiving(p) \union ToReceive <=>
               "snd" \in BeforeReceiving(p) \union ToReceive
          /\ "snd_open" \in BeforeReceiving(p) \union {"rcv_open"} <=>
               "snd" \in BeforeReceiving(p) \union {"rcv_open"}
      BY DEF BeforeSending, BeforeReceiving, ToSend, ToReceive, Sending
    <3>3. "snd" \in PC /\ \A d \in {<<p, p, 0>>} : d[1] = p
      BY DEF PC
    <3>4. /\ <<p, p, 0>> \in {<<p, p, 0>>} /\ <<p, p, 1>> \notin {<<p, p, 0>>}
          /\ <<p, Other(p), 0>> \notin {<<p, p, 0>>} /\ <<p, Other(p), 1>> \notin {<<p, p, 0>>}
      BY Procs
    <3> DEFINE gone == {<<p, p, 0>>}
    <3>5. /\ <<p, p, 0>> \in fd \ gone <=> "snd" \in BeforeSending(p) \union {"snd_open"}
          /\ <<p, p, 1>> \in fd \ gone <=> "snd" \in BeforeSending(p) \union ToSend
          /\ <<p, Other(p), 0>> \in fd \ gone <=> "snd" \in BeforeReceiving(p) \union ToReceive
          /\ <<p, Other(p), 1>> \in fd \ gone <=> "snd" \in BeforeReceiving(p) \union {"rcv_open"}
      BY <3>1, <3>2, <3>4
    <3>6. fd' = fd \ gone /\ \A d \in gone : d[1] = p
      BY <2>2, <3>3
    <3> HIDE DEF gone
    <3>7. QED
      BY <2>2, <3>3, <3>5, <3>6, FdsStay
  <2>3. QED
    BY <1>3, <2>1, <2>2 DEF SndOpen
<1>4. ASSUME NEW p \in Proc, SndPacket(p) PROVE FdsKept'
  <2>1. PICK to \in Sending \union {"snd_close"} : Goes(p, "snd", to) /\ fd' = fd
    BY <1>4 DEF SndPacket, AfterWrite, Sending
  <2>2. QED
    BY <1>2, <2>1 DEF Sending
<1>5. ASSUME NEW p \in Proc, NEW last \in BOOLEAN, SndResume(p, last) PROVE FdsKept'
  <2> DEFINE from == IF last THEN "write_last" ELSE "write"
  <2>1. PICK to \in Sending \union {"snd_close"} : Goes(p, from, to) /\ fd' = fd
    BY <1>5 DEF SndResume, AfterWrite, Sending
  <2>2. from \in Sending
    BY DEF Sending
  <2> HIDE DEF from
  <2>3. QED
    BY <1>2, <2>1, <2>2
<1>6. ASSUME NEW p \in Proc, SndKilled(p) PROVE FdsKept'
  BY <1>1, <1>6 DEF SndKilled, Ended
<1>7. ASSUME NEW p \in Proc, SndClose(p) PROVE FdsKept'
  <2>1. CASE p = "child"
    BY <1>1, <1>7, <2>1 DEF SndClose, Ended
  <2>2. CASE p = "parent"
    <3>1. /\ Goes(p, "snd_close", "rcv_open") /\ fd' = fd \ {<<p, p, 1>>}
          /\ Other(p) = "child" /\ p # "child"
      BY <1>7, <2>2, Procs DEF SndClose
    <3>2. /\ <<p, p, 0>> \in fd <=> "snd_close" \in BeforeSending(p) \union {"snd_open"}
          /\ <<p, Other(p), 0>> \in fd <=> "snd_close" \in BeforeReceiving(p) \union ToReceive
          /\ <<p, Other(p), 1>> \in fd <=> "snd_close" \in BeforeReceiving(p) \union {"rcv_open"}
      BY <3>1 DEF FdsKept, Goes
    <3>3. /\ BeforeSending(p) = {} /\ BeforeReceiving(p) = ToSend /\ "snd_close" \in ToSend
          /\ "rcv_open" \in ToReceive /\ "rcv_open" \notin ToSend /\ "rcv_open" \in PC
          /\ "rcv_open" # "snd_open" /\ "snd_close" # "snd_open"
      BY <2>2, Classes DEF ToSend, ToReceive, PC, Sending
    <3>4. /\ \A d \in {<<p, p, 1>>} : d[1] = p
          /\ <<p, p, 1>> \in {<<p, p, 1>>} /\ <<p, p, 0>> \notin {<<p, p, 1>>}
          /\ <<p, Other(p), 0>> \notin {<<p, p, 1>>} /\ <<p, Other(p), 1>> \notin {<<p, p, 1>>}
      BY Procs
    <3> DEFINE gone == {<<p, p, 1>>}
    <3>5. /\ <<p, p, 0>> \in fd \ gone <=> "rcv_open" \in BeforeSending(p) \union {"snd_open"}
          /\ <<p, p, 1>> \in fd \ gone <=> "rcv_open" \in BeforeSending(p) \union ToSend
          /\ <<p, Other(p), 0>> \in fd \ gone <=> "rcv_open" \in BeforeReceiving(p) \union ToReceive
          /\ <<p, Other(p), 1>> \in fd \ gone <=> "rcv_open" \in BeforeReceiving(p) \union {"rcv_open"}
      BY <3>2, <3>3, <3>4
    <3>6. fd' = fd \ gone /\ \A d \in gone : d[1] = p
      BY <3>1, <3>4
    <3> HIDE DEF gone
    <3>7. QED
      BY <3>1, <3>3, <3>5, <3>6, FdsStay
  <2>3. QED
    BY <2>1, <2>2, Procs
<1>8. ASSUME NEW p \in Proc, RcvOpen(p) PROVE FdsKept'
  <2> DEFINE gone == {<<p, Other(p), 1>>}
  <2>1. PICK to \in {"rcv", "rcv_null"} : Goes(p, "rcv_open", to)
    BY <1>8 DEF RcvOpen
  <2>2. fd' = fd \ gone
    BY <1>8 DEF RcvOpen, RcvFds
  <2>3. /\ <<p, p, 0>> \in fd <=> "rcv_open" \in BeforeSending(p) \union {"snd_open"}
        /\ <<p, p, 1>> \in fd <=> "rcv_open" \in BeforeSending(p) \union ToSend
        /\ <<p, Other(p), 0>> \in fd <=> "rcv_open" \in BeforeReceiving(p) \union ToReceive
    BY <2>1 DEF FdsKept, Goes
  <2>4. /\ to \in ToReceive /\ "rcv_open" \in ToReceive /\ to \notin ToSend
        /\ "rcv_open" \notin ToSend /\ to \in PC /\ to # "snd_open" /\ to # "rcv_open"
    BY DEF ToReceive, ToSend, PC, Sending
  <2>5. /\ "rcv_open" \in BeforeSending(p) <=> to \in BeforeSending(p)
        /\ to \notin BeforeReceiving(p)
    BY <2>4, Classes, Procs
  <2>6. /\ \A d \in gone : d[1] = p
        /\ <<p, Other(p), 1>> \in gone /\ <<p, Other(p), 0>> \notin gone
        /\ <<p, p, 0>> \notin gone /\ <<p, p, 1>> \notin gone
    BY Procs
  <2> HIDE DEF gone
  <2>7. QED
    BY <2>1, <2>2, <2>3, <2>4, <2>5, <2>6, FdsStay
<1>9. ASSUME NEW p \in Proc, RcvRead(p) PROVE FdsKept'
  BY <1>9 DEF RcvRead, FdsKept, Goes, EchoTypeOK
<1>10. ASSUME NEW p \in Proc, RcvCrash(p) PROVE FdsKept'
  BY <1>1, <1>10 DEF RcvCrash, Ended
<1>11. ASSUME NEW p \in Proc, RcvClose(p) PROVE FdsKept'
  <2>1. CASE p = "parent"
    BY <1>1, <1>11, <2>1 DEF RcvClose, Ended
  <2>2. CASE p = "child"
    <3> DEFINE gone == {<<p, Other(p), 0>>}
    <3>1. Goes(p, "rcv", "snd_open") /\ fd' = fd \ gone
      BY <1>11, <2>2 DEF RcvClose
    <3>2. /\ <<p, p, 0>> \in fd <=> "rcv" \in BeforeSending(p) \union {"snd_open"}
          /\ <<p, p, 1>> \in fd <=> "rcv" \in BeforeSending(p) \union ToSend
          /\ <<p, Other(p), 1>> \in fd <=> "rcv" \in BeforeReceiving(p) \union {"rcv_open"}
      BY <3>1 DEF FdsKept, Goes
    <3>3. /\ BeforeSending(p) = ToReceive /\ BeforeReceiving(p) = {} /\ "snd_open" \in ToSend
          /\ "rcv" \in ToReceive /\ "snd_open" \notin ToReceive /\ "snd_open" \in PC
          /\ "rcv" # "rcv_open" /\ "snd_open" # "rcv_open"
      BY <2>2, Classes DEF ToSend, ToReceive, PC, Sending
    <3>4. /\ \A d \in gone : d[1] = p
          /\ <<p, Other(p), 0>> \in gone /\ <<p, Other(p), 1>> \notin gone
          /\ <<p, p, 0>> \notin gone /\ <<p, p, 1>> \notin gone
      BY Procs
    <3> HIDE DEF gone
    <3>5. QED
      BY <3>1, <3>2, <3>3, <3>4, FdsStay
  <2>3. QED
    BY <2>1, <2>2, Procs
<1>12. CASE UNCHANGED echoVars
  BY <1>12 DEF echoVars, FdsKept
<1>13. QED
  BY <1>3, <1>4, <1>5, <1>6, <1>7, <1>8, <1>9, <1>10, <1>11, <1>12 DEF EchoNext, Process

(* What a missing reader or writer says of the process at the other end.    *)
LEMMA NobodyThere ==
  ASSUME EchoTypeOK, FdsKept
  PROVE  /\ ~ HasReader("parent") => pc["child"] \notin ToReceive
         /\ ~ HasReader("child") => pc["parent"] \notin ToSend \union ToReceive
         /\ ~ HasWriter("parent") => pc["parent"] \notin ToSend
         /\ ~ HasWriter("child") => pc["child"] \notin ToReceive \union ToSend
<1>1. "parent" \in Proc /\ "child" \in Proc
  BY Procs
<1>2. /\ <<"child", "parent", 0>> \in fd <=> pc["child"] \in ToReceive
      /\ <<"parent", "child", 0>> \in fd <=> pc["parent"] \in ToSend \union ToReceive
      /\ <<"parent", "parent", 1>> \in fd <=> pc["parent"] \in ToSend
      /\ <<"child", "child", 1>> \in fd <=> pc["child"] \in ToReceive \union ToSend
  BY <1>1, Procs, Classes DEF FdsKept
<1>3. QED
  BY <1>1, <1>2 DEF HasReader, HasWriter

LEMMA TurnMove ==
  ASSUME EchoTypeOK, TurnsKept, NEW p \in Proc, NEW from, NEW to,
         Goes(p, from, to), from \notin Ended,
         p = "parent" => /\ to \in ToSend => from \in ToSend
                         /\ to = "killed" => pc["child"] = "crashed"
                         /\ to = "done" => pc["child"] \in Ended,
         p = "child" /\ pc["parent"] \in ToSend => to \in ToReceive \union {"crashed"}
  PROVE  TurnsKept'
<1>1. pc[p] = from /\ pc'[p] = to /\ \A q \in Proc : q # p => pc'[q] = pc[q]
  BY DEF Goes, EchoTypeOK
<1>2. CASE p = "parent"
  BY <1>1, <1>2, Procs DEF TurnsKept
<1>3. CASE p = "child"
  <2>1. pc["parent"] # "killed" /\ pc["parent"] # "done"
    BY <1>1, <1>3 DEF TurnsKept, Ended
  <2>2. pc'["parent"] = pc["parent"]
    BY <1>1, <1>3, Procs
  <2>3. QED
    BY <1>1, <1>3, <2>1, <2>2 DEF TurnsKept
<1>4. QED
  BY <1>2, <1>3, Procs

LEMMA TurnsStep ==
  ASSUME EchoTypeOK, FdsKept, TurnsKept, [EchoNext]_echoVars
  PROVE  TurnsKept'
<1> USE DEF Ended, ToSend, ToReceive, Sending
<1>1. ASSUME NEW p \in Proc, NEW from, NEW to, Goes(p, from, to), from \in ToSend,
             to \in ToSend \union {"crashed"}
      PROVE  TurnsKept'
  <2>1. pc[p] = from
    BY <1>1 DEF Goes
  <2>2. p = "child" => pc["parent"] \notin ToSend
    BY <1>1, <2>1 DEF TurnsKept
  <2>3. QED
    BY <1>1, <2>2, TurnMove
<1>2. ASSUME NEW p \in Proc, SndOpen(p) PROVE TurnsKept'
  BY <1>1, <1>2 DEF SndOpen
<1>3. ASSUME NEW p \in Proc, SndPacket(p) PROVE TurnsKept'
  <2>1. PICK to \in Sending \union {"snd_close"} : Goes(p, "snd", to)
    BY <1>3 DEF SndPacket, AfterWrite
  <2>2. QED
    BY <1>1, <2>1
<1>4. ASSUME NEW p \in Proc, NEW last \in BOOLEAN, SndResume(p, last) PROVE TurnsKept'
  <2>1. PICK from \in Sending, to \in Sending \union {"snd_close"} : Goes(p, from, to)
    BY <1>4 DEF SndResume, AfterWrite
  <2>2. QED
    BY <1>1, <2>1
<1>5. ASSUME NEW p \in Proc, SndKilled(p) PROVE TurnsKept'
  <2>1. PICK from \in Sending : Goes(p, from, "killed")
    BY <1>5 DEF SndKilled
  <2>2. pc[p] = from
    BY <2>1 DEF Goes
  <2>3. p = "parent" => pc["child"] = "crashed"
    BY <1>5, <2>2, NobodyThere DEF SndKilled, TurnsKept
  <2>4. p = "child" => pc["parent"] \notin ToSend
    BY <2>2 DEF TurnsKept
  <2>5. QED
    BY <2>1, <2>3, <2>4, TurnMove
<1>6. ASSUME NEW p \in Proc, SndClose(p) PROVE TurnsKept'
  <2>1. PICK to \in {"rcv_open", "done"} :
          Goes(p, "snd_close", to) /\ (p = "parent" => to = "rcv_open")
    BY <1>6 DEF SndClose
  <2>2. p = "child" => pc["parent"] \notin ToSend
    BY <2>1 DEF TurnsKept, Goes
  <2>3. QED
    BY <2>1, <2>2, TurnMove
<1>7. ASSUME NEW p \in Proc, RcvOpen(p) PROVE TurnsKept'
  <2>1. PICK to \in {"rcv", "rcv_null"} : Goes(p, "rcv_open", to)
    BY <1>7 DEF RcvOpen
  <2>2. QED
    BY <2>1, TurnMove
<1>8. ASSUME NEW p \in Proc, RcvRead(p) PROVE TurnsKept'
  BY <1>8, TurnMove DEF RcvRead
<1>9. ASSUME NEW p \in Proc, RcvCrash(p) PROVE TurnsKept'
  BY <1>9, TurnMove DEF RcvCrash
<1>10. ASSUME NEW p \in Proc, RcvClose(p) PROVE TurnsKept'
  <2>1. CASE p = "parent"
    <3>1. Goes(p, "rcv", "done") /\ ~ HasWriter("child")
      BY <1>10, <2>1, Procs DEF RcvClose
    <3>2. pc["child"] \in Ended
      BY <3>1, NobodyThere, Procs DEF EchoTypeOK, PC
    <3>3. QED
      BY <2>1, <3>1, <3>2, TurnMove
  <2>2. CASE p = "child"
    <3>1. Goes(p, "rcv", "snd_open") /\ ~ HasWriter("parent")
      BY <1>10, <2>2, Procs DEF RcvClose
    <3>2. pc["parent"] \notin ToSend
      BY <3>1, NobodyThere
    <3>3. QED
      BY <2>2, <3>1, <3>2, TurnMove
  <2>3. QED
    BY <2>1, <2>2, Procs
<1>11. CASE UNCHANGED echoVars
  BY <1>11 DEF echoVars, TurnsKept
<1>12. QED
  BY <1>2, <1>3, <1>4, <1>5, <1>6, <1>7, <1>8, <1>9, <1>10, <1>11 DEF EchoNext, Process

(***************************************************************************)
(* The bytes of a stream: what is in the pipe, and what is left.           *)
(***************************************************************************)
Chars(c) == [n \in DOMAIN c |-> c[n][1]]

LEMMA CharsAre ==
  ASSUME NEW c \in Seq(Cell)
  PROVE  /\ Chars(c) \in Seq(Byte) /\ Len(Chars(c)) = Len(c)
         /\ \A n \in 1 .. Len(c) : Chars(c)[n] = c[n][1]
         /\ Chars(c) = << >> <=> c = << >>
<1>1. Len(c) \in Nat /\ DOMAIN c = 1 .. Len(c) /\ \A n \in 1 .. Len(c) : c[n][1] \in Byte
  BY Cells
<1>2. Chars(c) = [n \in 1 .. Len(c) |-> c[n][1]]
  BY <1>1 DEF Chars
<1>3. Chars(c) \in Seq(Byte) /\ Len(Chars(c)) = Len(c)
  BY <1>1, <1>2
<1>4. Chars(c) = << >> <=> c = << >>
  BY <1>1, <1>3, EmptySeq, Cells
<1>5. QED
  BY <1>2, <1>3, <1>4

LEMMA ConcatOfBytes ==
  ASSUME NEW a \in Seq(Byte), NEW b \in Seq(Byte)
  PROVE  /\ a \o b \in Seq(Byte) /\ Len(a \o b) = Len(a) + Len(b)
         /\ \A n \in 1 .. Len(a) + Len(b) :
              (a \o b)[n] = IF n <= Len(a) THEN a[n] ELSE b[n - Len(a)]
  BY ConcatProperties

LEMMA Poured ==
  ASSUME NEW c \in Seq(Cell), NEW d \in Seq(Cell), NEW m \in Seq(Byte), NEW l \in Seq(Byte),
         NEW k \in 0 .. Len(m), Len(d) = Len(c) + k, Len(l) = Len(m) - k,
         \A n \in 1 .. Len(c) : d[n] = c[n],
         \A n \in 1 .. k : d[Len(c) + n][1] = m[n],
         \A n \in 1 .. Len(m) - k : l[n] = m[k + n]
  PROVE  Chars(d) \o l = Chars(c) \o m
<1>1. /\ Len(c) \in Nat /\ Len(m) \in Nat /\ k \in Nat /\ k <= Len(m)
      /\ Len(d) \in Nat /\ Len(l) \in Nat
  BY Cells, LenProperties
<1>2. /\ Chars(d) \in Seq(Byte) /\ Len(Chars(d)) = Len(d)
      /\ \A n \in 1 .. Len(d) : Chars(d)[n] = d[n][1]
      /\ Chars(c) \in Seq(Byte) /\ Len(Chars(c)) = Len(c)
      /\ \A n \in 1 .. Len(c) : Chars(c)[n] = c[n][1]
  BY CharsAre
<1>3. /\ Chars(d) \o l \in Seq(Byte) /\ Len(Chars(d) \o l) = Len(d) + Len(l)
      /\ \A n \in 1 .. Len(d) + Len(l) :
           (Chars(d) \o l)[n] = IF n <= Len(d) THEN Chars(d)[n] ELSE l[n - Len(d)]
  <2>0. Chars(d) \in Seq(Byte)
    BY <1>2
  <2>1. /\ Chars(d) \o l \in Seq(Byte)
        /\ Len(Chars(d) \o l) = Len(Chars(d)) + Len(l)
        /\ \A n \in 1 .. Len(Chars(d)) + Len(l) :
             (Chars(d) \o l)[n] = IF n <= Len(Chars(d)) THEN Chars(d)[n]
                                                       ELSE l[n - Len(Chars(d))]
    BY <2>0, ConcatOfBytes, Zenon
  <2>2. QED
    BY <1>2, <2>1
<1>4. /\ Chars(c) \o m \in Seq(Byte) /\ Len(Chars(c) \o m) = Len(c) + Len(m)
      /\ \A n \in 1 .. Len(c) + Len(m) :
           (Chars(c) \o m)[n] = IF n <= Len(c) THEN Chars(c)[n] ELSE m[n - Len(c)]
  <2>0. Chars(c) \in Seq(Byte)
    BY <1>2
  <2>1. /\ Chars(c) \o m \in Seq(Byte)
        /\ Len(Chars(c) \o m) = Len(Chars(c)) + Len(m)
        /\ \A n \in 1 .. Len(Chars(c)) + Len(m) :
             (Chars(c) \o m)[n] = IF n <= Len(Chars(c)) THEN Chars(c)[n]
                                                       ELSE m[n - Len(Chars(c))]
    BY <2>0, ConcatOfBytes, Zenon
  <2>2. QED
    BY <1>2, <2>1
<1>5. Len(d) + Len(l) = Len(c) + Len(m)
  BY <1>1
<1>6. ASSUME NEW n \in 1 .. Len(c) + Len(m)
      PROVE  (Chars(d) \o l)[n] = (Chars(c) \o m)[n]
  <2>1. CASE n <= Len(c)
    <3>1. n \in 1 .. Len(c) /\ n \in 1 .. Len(d) /\ n <= Len(d) /\ n \in 1 .. Len(d) + Len(l)
      BY <1>1, <1>5, <2>1
    <3>2. QED
      BY <1>2, <1>3, <1>4, <2>1, <3>1, SMTT(30)
  <2>2. CASE n > Len(c) /\ n <= Len(d)
    <3> DEFINE h == n - Len(c)
    <3>1. /\ h \in 1 .. k /\ n = Len(c) + h /\ n \in 1 .. Len(d) + Len(l)
          /\ n \in 1 .. Len(d) /\ ~ (n <= Len(c))
      BY <1>1, <1>5, <2>2
    <3>2. (Chars(c) \o m)[n] = m[h]
      BY <1>4, <3>1
    <3> HIDE DEF h
    <3>3. (Chars(d) \o l)[n] = d[Len(c) + h][1]
      BY <1>2, <1>3, <2>2, <3>1
    <3>4. QED
      BY <3>1, <3>2, <3>3
  <2>3. CASE n > Len(d)
    <3> DEFINE h == n - Len(d)
    <3>1. /\ h \in 1 .. Len(m) - k /\ n - Len(c) = k + h /\ n \in 1 .. Len(d) + Len(l)
          /\ ~ (n <= Len(c)) /\ ~ (n <= Len(d))
      BY <1>1, <1>5, <2>3
    <3>2. (Chars(c) \o m)[n] = m[k + h]
      BY <1>4, <3>1
    <3>3. (Chars(d) \o l)[n] = l[h]
      BY <1>3, <3>1
    <3> HIDE DEF h
    <3>4. QED
      BY <3>1, <3>2, <3>3
  <2>4. n <= Len(c) \/ (n > Len(c) /\ n <= Len(d)) \/ n > Len(d)
    BY <1>1
  <2>5. QED
    BY <2>1, <2>2, <2>3, <2>4, Zenon
<1> DEFINE u == Chars(d) \o l
           v == Chars(c) \o m
<1>7. u \in Seq(Byte) /\ v \in Seq(Byte) /\ Len(u) = Len(v) /\ \A n \in 1 .. Len(u) : u[n] = v[n]
  BY <1>3, <1>4, <1>5, <1>6, Zenon
<1> HIDE DEF u, v
<1>8. u = v
  BY <1>7, SeqEqual
<1>9. QED
  BY <1>8 DEF u, v

LEMMA FreshStream ==
  ASSUME NEW c \in Seq(Cell), Cardinality(PagesOf(c)) <= Pages, NEW m \in Seq(Byte)
  PROVE  Chars(Fresh(c, m)) \o Unwritten(c, m) = Chars(c) \o m
<1> DEFINE k == Lesser(Len(m), Room(c))
<1>1. /\ k \in 0 .. Len(m) /\ Fresh(c, m) \in Seq(Cell) /\ Len(Fresh(c, m)) = Len(c) + k
      /\ \A n \in 1 .. Len(c) : Fresh(c, m)[n] = c[n]
      /\ \A n \in 1 .. k :
           Fresh(c, m)[Len(c) + n] = <<m[n], LastPage(c) + 1 + ((n - 1) \div PageSz)>>
  BY FreshIs
<1>2. /\ Unwritten(c, m) \in Seq(Byte) /\ Len(Unwritten(c, m)) = Len(m) - k
      /\ \A n \in 1 .. Len(m) - k : Unwritten(c, m)[n] = m[k + n]
  BY UnwrittenIs
<1> HIDE DEF k
<1>3. \A n \in 1 .. k : Fresh(c, m)[Len(c) + n][1] = m[n]
  BY <1>1
<1>4. QED
  BY <1>1, <1>2, <1>3, Poured

(* The rest of a write that has put its odd bytes behind the last one.      *)
LEMMA RestIs ==
  ASSUME NEW c \in Seq(Cell), NEW m \in Seq(Byte)
  PROVE  LET k == Tail0(c, m)
             rest == SubSeq(m, Len(Merged(c, m)) - Len(c) + 1, Len(m))
         IN /\ rest \in Seq(Byte) /\ Len(rest) = Len(m) - k
            /\ \A n \in 1 .. Len(m) - k : rest[n] = m[k + n]
            /\ k = 0 => rest = m
            /\ Chars(Merged(c, m)) \o rest = Chars(c) \o m
<1> DEFINE k == Tail0(c, m)
           rest == SubSeq(m, Len(Merged(c, m)) - Len(c) + 1, Len(m))
<1>1. /\ k \in 0 .. Len(m) /\ Merged(c, m) \in Seq(Cell) /\ Len(Merged(c, m)) = Len(c) + k
      /\ \A n \in 1 .. Len(c) : Merged(c, m)[n] = c[n]
      /\ \A n \in 1 .. k : Merged(c, m)[Len(c) + n] = <<m[n], LastPage(c)>>
  BY MergedIs
<1> HIDE DEF k
<1>2. Len(m) \in Nat /\ Len(c) \in Nat /\ k \in Nat /\ k <= Len(m)
  BY <1>1, Cells, LenProperties
<1>3. rest = SubSeq(m, k + 1, Len(m))
  <2>1. Len(Merged(c, m)) - Len(c) + 1 = k + 1
    BY <1>1, <1>2
  <2>2. QED
    BY <2>1
<1> HIDE DEF rest
<1>4. /\ rest \in Seq(Byte)
      /\ Len(rest) = IF k + 1 <= Len(m) THEN Len(m) - (k + 1) + 1 ELSE 0
      /\ \A n \in 1 .. Len(m) - (k + 1) + 1 : rest[n] = m[(k + 1) + n - 1]
  <2>1. k + 1 \in Int /\ Len(m) \in Int /\ \A n \in k + 1 .. Len(m) : m[n] \in Byte
    BY <1>2, ElementOfSeq
  <2>2. QED
    BY <1>3, <2>1, SubSeqProperties
<1>5. Len(rest) = Len(m) - k
  BY <1>2, <1>4
<1>6. ASSUME NEW n \in 1 .. Len(m) - k PROVE rest[n] = m[k + n]
  <2>1. n \in 1 .. Len(m) - (k + 1) + 1 /\ (k + 1) + n - 1 = k + n
    BY <1>2
  <2>2. QED
    BY <1>4, <2>1
<1>7. k = 0 => rest = m
  BY <1>3, SubSeqFull
<1>8. \A n \in 1 .. k : Merged(c, m)[Len(c) + n][1] = m[n]
  BY <1>1
<1>9. Chars(Merged(c, m)) \o rest = Chars(c) \o m
  BY <1>1, <1>4, <1>5, <1>6, <1>8, Poured
<1>10. QED
  BY <1>4, <1>5, <1>6, <1>7, <1>9, Zenon DEF k, rest

(***************************************************************************)
(* Writes.  A write into an empty pipe is done at once.                    *)
(***************************************************************************)
LEMMA EmptyWrite ==
  ASSUME NEW m \in Seq(Byte), Len(m) <= BufSz
  PROVE  /\ Merged(<< >>, m) = << >>
         /\ Unwritten(<< >>, m) = << >>
         /\ Fresh(<< >>, m) \in Seq(Cell) /\ Len(Fresh(<< >>, m)) = Len(m)
         /\ Cardinality(PagesOf(Fresh(<< >>, m))) <= Pages
         /\ Tidy(Fresh(<< >>, m))
<1> DEFINE c == << >>
           d == Fresh(c, m)
           k == Lesser(Len(m), Room(c))
<1>1. /\ c \in Seq(Cell) /\ Cardinality(PagesOf(c)) <= Pages /\ Len(c) = 0
      /\ Room(c) = WholeSz + PageSz /\ LastPage(c) = 0
  BY EmptyRoom, EmptySeq
<1>2. Merged(c, m) = c
  <2>1. Tail0(c, m) = 0
    BY DEF Tail0
  <2>2. Tail0(c, m) = 0 => Merged(c, m) = c
    BY <1>1, MergedIs
  <2>3. QED
    BY <2>1, <2>2
<1>3. Len(m) \in Nat /\ k = Len(m) /\ Len(m) <= Room(c)
  BY <1>1, Layout, LenProperties DEF Lesser
<1>4. Unwritten(c, m) = << >>
  <2> HIDE DEF c
  <2>1. Len(m) <= Room(c) <=> Unwritten(c, m) = << >>
    BY <1>1, UnwrittenIs
  <2>2. QED
    BY <1>3, <2>1
<1>5. /\ d \in Seq(Cell) /\ Len(d) = Len(c) + k
      /\ \A n \in 1 .. k : d[Len(c) + n] = <<m[n], LastPage(c) + 1 + ((n - 1) \div PageSz)>>
      /\ Cardinality(PagesOf(d)) <= Pages
  <2> HIDE DEF c
  <2>1. QED
    BY <1>1, FreshIs
<1> HIDE DEF c, d, k
<1>6. Len(d) = Len(m)
  BY <1>1, <1>3, <1>5
<1>7. ASSUME NEW n \in 1 .. Len(d) PROVE d[n][2] = 1 + ((n - 1) \div PageSz)
  <2>1. n \in 1 .. k /\ Len(c) + n = n /\ n \in Nat \ {0}
    BY <1>1, <1>3, <1>6
  <2>2. d[n] = <<m[n], LastPage(c) + 1 + ((n - 1) \div PageSz)>>
    BY <1>5, <2>1
  <2>3. (n - 1) \div PageSz \in Nat
    BY <2>1, PageIs
  <2>4. QED
    BY <1>1, <2>2, <2>3
<1>8. ASSUME NEW n \in 1 .. Len(d)
      PROVE  n <= BufSz /\ d[n][2] = d[1][2] + ((n - 1) \div PageSz)
  <2>1. n \in Nat \ {0} /\ n <= BufSz /\ 1 \in 1 .. Len(d)
    BY <1>3, <1>6, Layout
  <2>2. (n - 1) \div PageSz \in Nat /\ (1 - 1) \div PageSz \in Nat /\ (1 - 1) \div PageSz < 1
    <3>1. 1 \in Nat \ {0} /\ 1 <= 1 * PageSz /\ 1 \in Nat
      BY Sizes
    <3>2. QED
      BY <2>1, <3>1, PageIs
  <2>3. d[n][2] = 1 + ((n - 1) \div PageSz) /\ d[1][2] = 1 + ((1 - 1) \div PageSz)
    BY <1>7, <2>1
  <2>4. (1 - 1) \div PageSz = 0
    BY <2>2
  <2>5. QED
    BY <2>1, <2>2, <2>3, <2>4
<1>9. Tidy(d)
  <2>1. DOMAIN d = 1 .. Len(d)
    BY <1>5, Cells
  <2>2. QED
    BY <1>8, <2>1 DEF Tidy
<1>10. QED
  BY <1>2, <1>4, <1>5, <1>6, <1>9 DEF c, d

(* A write behind a full packet finds no page and sleeps; the odd bytes of  *)
(* a shorter one may fit into the last page.                                *)
LEMMA FullWrite ==
  ASSUME NEW c \in Seq(Cell), Cardinality(PagesOf(c)) <= Pages, Tidy(c), Len(c) = BufSz,
         NEW m \in Seq(Byte), Len(m) <= BufSz
  PROVE  LET k == Tail0(c, m)
             M == Merged(c, m)
             rest == SubSeq(m, Len(M) - Len(c) + 1, Len(m))
         IN /\ Fresh(M, rest) = M /\ Unwritten(M, rest) = rest
            /\ M \in Seq(Cell) /\ Cardinality(PagesOf(M)) <= Pages /\ Tidy(M)
            /\ Len(M) = BufSz + k /\ Len(rest) = Len(m) - k /\ rest \in Seq(Byte)
            /\ k \in Nat
            /\ k # 0 => /\ k \in 1 .. PageSz - 1 /\ k = Len(m) % PageSz
                        /\ Odd + k <= PageSz /\ Len(m) < BufSz
                        /\ Len(rest) <= WholeSz
            /\ k # 0 /\ Len(m) <= PageSz => rest = << >>
            /\ k = 0 => M = c /\ rest = m
<1> DEFINE k == Tail0(c, m)
           M == Merged(c, m)
           rest == SubSeq(m, Len(M) - Len(c) + 1, Len(m))
<1>1. /\ k \in 0 .. Len(m) /\ (k = 0 \/ k = Len(m) % PageSz)
      /\ M \in Seq(Cell) /\ Len(M) = Len(c) + k
      /\ \A n \in 1 .. Len(c) : M[n] = c[n]
      /\ \A n \in 1 .. k : M[Len(c) + n] = <<m[n], LastPage(c)>>
      /\ PagesOf(M) \subseteq PagesOf(c)
      /\ k = 0 => M = c
  BY MergedIs
<1>2. /\ rest \in Seq(Byte) /\ Len(rest) = Len(m) - k
      /\ k = 0 => rest = m
  BY RestIs, Zenon
<1>3. InLastPage(c) = Odd /\ c # << >>
  BY FullInLast
<1>4. k # 0 => Odd + k <= PageSz /\ k = Len(m) % PageSz
  BY <1>1, <1>3 DEF Tail0
<1> HIDE DEF k, M, rest
<1>5. /\ Len(m) \in Nat /\ k \in Nat /\ k <= Len(m) /\ BufSz \in Nat \ {0}
      /\ Len(M) = BufSz + k /\ DOMAIN M = 1 .. BufSz + k /\ DOMAIN c = 1 .. BufSz
  BY <1>1, Cells, LenProperties, Sizes
<1>6. Cardinality(PagesOf(M)) <= Pages
  BY <1>1, FewerPages
<1>7. Tidy(M)
  <2>1. M[1] = c[1]
    BY <1>1, <1>5
  <2>2. ASSUME NEW n \in 1 .. BufSz + k, n <= BufSz
        PROVE  M[n][2] = M[1][2] + ((n - 1) \div PageSz)
    <3>1. n \in 1 .. Len(c) /\ n \in DOMAIN c
      BY <1>5, <2>2
    <3>2. M[n] = c[n] /\ c[n][2] = c[1][2] + ((n - 1) \div PageSz)
      BY <1>1, <2>2, <3>1 DEF Tidy
    <3>3. QED
      BY <2>1, <3>2
  <2>3. ASSUME NEW n \in 1 .. BufSz + k, ~ (n <= BufSz)
        PROVE  M[n][2] = LastPage(M)
    <3> DEFINE h == n - BufSz
    <3>1. h \in 1 .. k /\ n = Len(c) + h /\ k \in 1 .. k /\ Len(M) = Len(c) + k
      BY <1>1, <1>5, <2>3
    <3> HIDE DEF h
    <3>2. M[n][2] = LastPage(c) /\ M[Len(M)][2] = LastPage(c)
      BY <1>1, <3>1
    <3>3. M # << >>
      BY <1>1, <1>5, Cells
    <3>4. QED
      BY <3>2, <3>3 DEF LastPage
  <2>4. QED
    BY <1>5, <2>2, <2>3 DEF Tidy
<1>8. Room(M) = 0
  <2>1. Len(M) >= BufSz
    BY <1>5
  <2>2. QED
    BY <1>1, <1>6, <1>7, <2>1, FullRoom
<1>9. Fresh(M, rest) = M
  <2>1. Lesser(Len(rest), Room(M)) = 0
    <3>1. Len(rest) \in Nat
      BY <1>2, LenProperties
    <3>2. QED
      BY <1>8, <3>1 DEF Lesser
  <2>2. /\ Fresh(M, rest) \in Seq(Cell) /\ Len(Fresh(M, rest)) = Len(M) + 0
        /\ \A n \in 1 .. Len(M) : Fresh(M, rest)[n] = M[n]
    BY <1>1, <1>2, <1>6, <2>1, FreshIs
  <2> DEFINE F == Fresh(M, rest)
  <2>3. F \in Seq(Cell) /\ Len(F) = Len(M) /\ \A n \in 1 .. Len(F) : F[n] = M[n]
    BY <1>5, <2>2
  <2> HIDE DEF F
  <2>4. F = M
    BY <1>1, <2>3, SeqEqual
  <2>5. QED
    BY <2>4 DEF F
<1>10. Unwritten(M, rest) = rest
  <2>1. Room(M) = 0 => Unwritten(M, rest) = rest
    BY <1>1, <1>2, <1>6, UnwrittenIs
  <2>2. QED
    BY <1>8, <2>1
<1>11. ASSUME k # 0
       PROVE  /\ k \in 1 .. PageSz - 1 /\ Len(m) < BufSz /\ Len(rest) <= WholeSz
              /\ Len(m) <= PageSz => rest = << >>
  <2> DEFINE q == Len(m) \div PageSz
  <2>1. Len(m) \in Int /\ Len(m) >= 0 /\ PageSz \in Int /\ PageSz > 0
    BY <1>5, Sizes
  <2>2. q \in Int /\ q >= 0 /\ Len(m) = q * PageSz + k /\ k \in 0 .. PageSz - 1
    BY <1>4, <1>11, <2>1, Division
  <2> HIDE DEF q
  <2>3. q * PageSz \in Int
    BY <2>1, <2>2
  <2>4. Len(m) # BufSz
    <3>1. SUFFICES ASSUME Len(m) = BufSz PROVE FALSE
      OBVIOUS
    <3>2. k = Odd
      BY <1>4, <1>11, <3>1 DEF Odd
    <3>3. QED
      BY <1>4, <1>11, <3>2, Layout
  <2>5. Len(rest) = q * PageSz
    BY <1>2, <2>1, <2>2, <2>3
  <2>6. q <= Pages - 1
    <3>1. SUFFICES ASSUME Pages - 1 < q PROVE FALSE
      BY <2>2, Sizes
    <3>2. (Pages - 1) * PageSz + PageSz <= q * PageSz
      BY <2>1, <2>2, <3>1, TimesGrows, Sizes
    <3>3. QED
      BY <1>5, <2>2, <2>3, <3>2, Layout DEF WholeSz
  <2>7. q * PageSz <= WholeSz
    <3>1. CASE q = Pages - 1
      BY <2>3, <3>1 DEF WholeSz
    <3>2. CASE q < Pages - 1
      <4>1. q * PageSz + PageSz <= (Pages - 1) * PageSz
        BY <2>1, <2>2, <3>2, TimesGrows, Sizes
      <4>2. QED
        BY <2>1, <2>3, <4>1, Layout DEF WholeSz
    <3>3. QED
      BY <2>2, <2>6, <3>1, <3>2, Sizes
  <2>8. Len(m) <= PageSz => rest = << >>
    <3>1. SUFFICES ASSUME Len(m) <= PageSz PROVE rest = << >>
      OBVIOUS
    <3>2. q = 0
      <4>1. SUFFICES ASSUME 0 < q PROVE FALSE
        BY <2>2
      <4>2. 0 * PageSz + PageSz <= q * PageSz
        BY <2>1, <2>2, <4>1, TimesGrows
      <4>3. 0 * PageSz = 0
        BY <2>1
      <4>4. QED
        BY <1>5, <1>11, <2>1, <2>2, <2>3, <3>1, <4>2, <4>3
    <3>3. Len(rest) = 0
      BY <2>1, <2>5, <3>2
    <3>4. QED
      BY <1>2, <3>3, EmptySeq
  <2>9. QED
    BY <1>5, <1>11, <2>2, <2>4, <2>5, <2>7, <2>8
<1>12. QED
  BY <1>1, <1>2, <1>4, <1>5, <1>6, <1>7, <1>9, <1>10, <1>11 DEF k, M, rest

(***************************************************************************)
(* The data of a packet.                                                   *)
(***************************************************************************)
LEMMA DataIs ==
  ASSUME NEW content \in Seq(Byte), NEW at \in 0 .. Len(content)
  PROVE  LET data == DataAt(content, at)
         IN /\ data \in Seq(Byte)
            /\ Len(data) = Lesser(Len(content) - at, MaxData)
            /\ Len(data) \in 0 .. MaxData /\ at + Len(data) \in 0 .. Len(content)
            /\ Len(data) < MaxData => at + Len(data) = Len(content)
            /\ \A n \in 1 .. Len(data) : data[n] = content[at + n]
<1> DEFINE k == Lesser(Len(content) - at, MaxData)
           data == SubSeq(content, at + 1, at + k)
<1>1. /\ Len(content) \in Nat /\ at \in Nat /\ at <= Len(content) /\ MaxData \in Nat
      /\ k \in Nat /\ k <= MaxData /\ at + k <= Len(content)
      /\ k < MaxData => at + k = Len(content)
  BY LenProperties, Sizes DEF Lesser
<1>2. DataAt(content, at) = data
  BY DEF DataAt
<1> HIDE DEF k
<1>3. \A n \in at + 1 .. at + k : content[n] \in Byte
  BY <1>1, ElementOfSeq
<1>4. at + 1 \in Int /\ at + k \in Int
  BY <1>1
<1>5. /\ data \in Seq(Byte)
      /\ Len(data) = IF at + 1 <= at + k THEN (at + k) - (at + 1) + 1 ELSE 0
      /\ \A n \in 1 .. (at + k) - (at + 1) + 1 : data[n] = content[(at + 1) + n - 1]
  BY <1>3, <1>4, SubSeqProperties
<1> HIDE DEF data
<1>6. Len(data) = k
  BY <1>1, <1>5
<1>7. ASSUME NEW n \in 1 .. k PROVE data[n] = content[at + n]
  <2>1. n \in 1 .. (at + k) - (at + 1) + 1 /\ (at + 1) + n - 1 = at + n
    BY <1>1
  <2>2. QED
    BY <1>5, <2>1
<1>8. QED
  BY <1>1, <1>2, <1>5, <1>6, <1>7 DEF k

LEMMA Contents ==
  ASSUME EchoTypeOK, NEW p \in Proc
  PROVE  /\ Content(p) \in Seq(Byte) /\ Len(Content(p)) \in Nat
         /\ orig \in Seq(Byte) /\ Len(orig) \in Nat /\ file[p] \in Seq(Byte)
         /\ Other(p) \in Proc /\ pos[p] \in Nat /\ i[p] \in 0 .. Numbers - 1
         /\ left[p] \in Seq(Byte) /\ pipe[p] \in Seq(Cell)
         /\ Cardinality(PagesOf(pipe[p])) <= Pages
<1>1. orig \in Seq(Byte)
  BY SourcesAssumption DEF EchoTypeOK
<1>2. "child" \in Proc
  BY Procs
<1>3. Content(p) \in Seq(Byte)
  BY <1>1, <1>2 DEF EchoTypeOK, Content
<1>4. QED
  BY <1>1, <1>3, Procs, LenProperties DEF EchoTypeOK, Cell

LEMMA SenderFacts ==
  ASSUME EchoTypeOK, NEW p \in Proc, PosKept(p), pc[p] = "snd"
  PROVE  LET data == DataAt(Content(p), pos[p])
         IN /\ file[p] = Content(p) /\ pos[p] \in 0 .. Len(Content(p))
            /\ data \in Seq(Byte) /\ Len(data) \in 0 .. MaxData
            /\ last_sym(p) = Len(data)
            /\ Packet(p) = PacketOf(data, i[p])
            /\ Packet(p) \in Seq(Byte) /\ Len(Packet(p)) = last_sym(p) + 3
            /\ Len(Packet(p)) <= BufSz
            /\ last_sym(p) < MaxData <=> Len(Packet(p)) < BufSz
            /\ last_sym(p) < MaxData => pos[p] + last_sym(p) = Len(Content(p))
            /\ pos[p] + last_sym(p) \in 0 .. Len(Content(p))
<1> DEFINE data == DataAt(Content(p), pos[p])
<1>1. file[p] = Content(p)
  BY Procs DEF PosKept, Content, ToSend, Sending
<1>2. /\ Content(p) \in Seq(Byte) /\ i[p] \in 0 .. Numbers - 1
      /\ pos[p] \in 0 .. Len(Content(p))
  BY Contents DEF PosKept
<1>3. /\ data \in Seq(Byte) /\ Len(data) = Lesser(Len(Content(p)) - pos[p], MaxData)
      /\ Len(data) \in 0 .. MaxData
      /\ Len(data) < MaxData => pos[p] + Len(data) = Len(Content(p))
      /\ pos[p] + Len(data) \in 0 .. Len(Content(p))
  BY <1>2, DataIs
<1>4. last_sym(p) = Len(data)
  BY <1>1, <1>3 DEF last_sym
<1>5. Packet(p) = PacketOf(data, i[p])
  BY <1>1 DEF Packet, DataAt, last_sym
<1> HIDE DEF data
<1>6. PacketOf(data, i[p]) \in Seq(Byte) /\ Len(PacketOf(data, i[p])) = Len(data) + 3
  BY <1>2, <1>3, PacketIs
<1>7. QED
  BY <1>1, <1>2, <1>3, <1>4, <1>5, <1>6, Sizes DEF data

(***************************************************************************)
(* What a write does to a pipe and to what is left.                        *)
(***************************************************************************)
LEMMA PacketWrite ==
  ASSUME EchoTypeOK, NEW p \in Proc, PosKept(p), LayoutKept(p), SndPacket(p)
  PROVE  LET m == Packet(p)
             k == Len(pipe'[p]) - Len(pipe[p])
             last == last_sym(p) < MaxData
         IN /\ pipe'[p] \in Seq(Cell) /\ Cardinality(PagesOf(pipe'[p])) <= Pages
            /\ Tidy(pipe'[p]) /\ left'[p] \in Seq(Byte)
            /\ Chars(pipe'[p]) \o left'[p] = Chars(pipe[p]) \o m
            /\ left[p] = << >> /\ k \in Nat
            /\ pc'[p] = IF left'[p] = << >> THEN AfterWrite(p, last)
                        ELSE IF last THEN "write_last" ELSE "write"
            /\ \/ /\ pipe[p] = << >> /\ left'[p] = << >> /\ Len(pipe'[p]) = Len(m)
               \/ /\ Len(pipe[p]) = BufSz /\ Len(left'[p]) = Len(m) - k
                  /\ k # 0 => /\ k \in 1 .. PageSz - 1 /\ k = Len(m) % PageSz
                              /\ Odd + k <= PageSz /\ Len(m) < BufSz
                              /\ Len(left'[p]) <= WholeSz
                  /\ k # 0 /\ Len(m) <= PageSz => left'[p] = << >>
<1> DEFINE m == Packet(p)
           c == pipe[p]
           M == Merged(c, m)
           rest == SubSeq(m, Len(M) - Len(c) + 1, Len(m))
           last == last_sym(p) < MaxData
<1>1. /\ pc[p] = "snd"
      /\ pipe' = [pipe EXCEPT ![p] = Fresh(M, rest)]
      /\ left' = [left EXCEPT ![p] = Unwritten(M, rest)]
      /\ pc' = [pc EXCEPT ![p] = IF Unwritten(M, rest) = << >> THEN AfterWrite(p, last)
                                 ELSE IF last THEN "write_last" ELSE "write"]
  BY DEF SndPacket, Goes
<1>2. m \in Seq(Byte) /\ Len(m) <= BufSz
  BY <1>1, SenderFacts
<1>3. c \in Seq(Cell) /\ Cardinality(PagesOf(c)) <= Pages
  BY Contents
<1>4. Tidy(c) /\ Len(c) \in {0, BufSz} /\ left[p] = << >>
  BY <1>1 DEF LayoutKept
<1> HIDE DEF m
<1>5. /\ M \in Seq(Cell) /\ PagesOf(M) \subseteq PagesOf(c) /\ rest \in Seq(Byte)
      /\ Chars(M) \o rest = Chars(c) \o m
  BY <1>2, <1>3, MergedIs, RestIs
<1>6. Cardinality(PagesOf(M)) <= Pages
  BY <1>3, <1>5, FewerPages
<1> HIDE DEF M, rest
<1>7. Chars(Fresh(M, rest)) \o Unwritten(M, rest) = Chars(c) \o m
  BY <1>5, <1>6, FreshStream
<1>8. /\ pipe'[p] = Fresh(M, rest) /\ left'[p] = Unwritten(M, rest)
      /\ pc'[p] = IF left'[p] = << >> THEN AfterWrite(p, last)
                  ELSE IF last THEN "write_last" ELSE "write"
  <2> HIDE DEF last
  <2>1. QED
    BY <1>1 DEF EchoTypeOK
<1>9. CASE Len(c) = 0
  <2>1. c = << >>
    BY <1>3, <1>9, Cells
  <2>2. Tail0(c, m) = 0
    BY <2>1 DEF Tail0
  <2>3. M = c /\ rest = m
    <3>1. Tail0(c, m) = 0 => M = c
      BY <1>2, <1>3, MergedIs DEF M
    <3>2. Tail0(c, m) = 0 => rest = m
      BY <1>2, <1>3, RestIs DEF M, rest
    <3>3. QED
      BY <2>2, <3>1, <3>2
  <2>4. /\ Unwritten(<< >>, m) = << >>
        /\ Fresh(<< >>, m) \in Seq(Cell) /\ Len(Fresh(<< >>, m)) = Len(m)
        /\ Cardinality(PagesOf(Fresh(<< >>, m))) <= Pages /\ Tidy(Fresh(<< >>, m))
    BY <1>2, EmptyWrite
  <2>5. pipe'[p] = Fresh(<< >>, m) /\ left'[p] = << >> /\ << >> \in Seq(Byte)
    BY <1>8, <2>1, <2>3, <2>4
  <2>6. Len(m) \in Nat /\ Len(m) - 0 = Len(m)
    BY <1>2, LenProperties
  <2> HIDE DEF c
  <2>7. /\ pipe'[p] \in Seq(Cell) /\ Cardinality(PagesOf(pipe'[p])) <= Pages
        /\ Tidy(pipe'[p]) /\ left'[p] \in Seq(Byte)
        /\ c = << >> /\ left'[p] = << >> /\ Len(pipe'[p]) = Len(m)
        /\ Len(pipe'[p]) - Len(c) \in Nat
    BY <2>1, <2>4, <2>5, <2>6, <1>9
  <2>8. Chars(pipe'[p]) \o left'[p] = Chars(c) \o m
    BY <1>7, <1>8
  <2>9. QED
    BY <2>7, <2>8, <1>4, <1>8 DEF m, c
<1>10. CASE Len(c) = BufSz
  <2> DEFINE k == Tail0(c, m)
  <2>1. /\ Fresh(M, rest) = M /\ Unwritten(M, rest) = rest
        /\ M \in Seq(Cell) /\ Cardinality(PagesOf(M)) <= Pages /\ Tidy(M)
        /\ Len(M) = BufSz + k /\ Len(rest) = Len(m) - k /\ rest \in Seq(Byte)
        /\ k \in Nat
        /\ k # 0 => /\ k \in 1 .. PageSz - 1 /\ k = Len(m) % PageSz
                    /\ Odd + k <= PageSz /\ Len(m) < BufSz
                    /\ Len(rest) <= WholeSz
        /\ k # 0 /\ Len(m) <= PageSz => rest = << >>
    BY <1>2, <1>3, <1>4, <1>10, FullWrite DEF M, rest
  <2> HIDE DEF k, c
  <2>2. pipe'[p] = M /\ left'[p] = rest
    BY <1>8, <2>1
  <2>3. Len(M) - Len(c) = k
    BY <1>10, <2>1, Sizes
  <2>4. Chars(pipe'[p]) \o left'[p] = Chars(c) \o m
    BY <1>7, <1>8
  <2>5. QED
    BY <1>4, <1>8, <1>10, <2>1, <2>2, <2>3, <2>4 DEF m, c
<1>11. QED
  BY <1>4, <1>9, <1>10

(* A write that goes on ends, and what it has put into fresh pages lies     *)
(* behind nothing, or behind its own odd bytes.                             *)
LEMMA ResumeWrite ==
  ASSUME EchoTypeOK, NEW p \in Proc, LayoutKept(p), NEW last \in BOOLEAN, SndResume(p, last)
  PROVE  /\ pipe'[p] \in Seq(Cell) /\ Cardinality(PagesOf(pipe'[p])) <= Pages
         /\ left'[p] = << >>
         /\ Chars(pipe'[p]) \o << >> = Chars(pipe[p]) \o left[p]
         /\ pc[p] = (IF last THEN "write_last" ELSE "write")
         /\ pc'[p] = AfterWrite(p, last)
         /\ Len(pipe'[p]) < 2 * BufSz
         /\ ~ last => Tidy(pipe'[p]) /\ Len(pipe'[p]) = BufSz
<1> DEFINE c == pipe[p]
           m == left[p]
           from == IF last THEN "write_last" ELSE "write"
<1>1. /\ pc[p] = from /\ Room(c) > 0
      /\ pipe' = [pipe EXCEPT ![p] = Fresh(c, m)]
      /\ left' = [left EXCEPT ![p] = Unwritten(c, m)]
      /\ pc' = [pc EXCEPT ![p] = IF left'[p] = << >> THEN AfterWrite(p, last) ELSE from]
  BY DEF SndResume, Goes
<1>2. c \in Seq(Cell) /\ Cardinality(PagesOf(c)) <= Pages /\ m \in Seq(Byte)
  BY Contents
<1>3. /\ pipe'[p] = Fresh(c, m) /\ left'[p] = Unwritten(c, m)
      /\ pc'[p] = IF left'[p] = << >> THEN AfterWrite(p, last) ELSE from
  BY <1>1 DEF EchoTypeOK
<1>4. Chars(Fresh(c, m)) \o Unwritten(c, m) = Chars(c) \o m
  BY <1>2, FreshStream
<1>5. /\ Fresh(c, m) \in Seq(Cell) /\ Cardinality(PagesOf(Fresh(c, m))) <= Pages
      /\ Len(Fresh(c, m)) = Len(c) + Lesser(Len(m), Room(c))
      /\ Len(m) <= Room(c) <=> Unwritten(c, m) = << >>
  BY <1>2, FreshIs, UnwrittenIs
<1>6. /\ Len(c) \in Nat /\ Len(m) \in Nat /\ Room(c) \in Nat /\ BufSz \in Nat \ {0}
      /\ PageSz \in Nat /\ WholeSz \in Nat /\ Len(c) < 2 * BufSz
      /\ BufSz <= WholeSz + PageSz
  <2>1. BufSz \in Nat \ {0} /\ PageSz \in Nat
    BY Sizes
  <2>2. WholeSz \in Nat /\ BufSz <= WholeSz + PageSz
    BY <2>1, Layout
  <2>3. Len(c) \in Nat /\ Len(m) \in Nat /\ Room(c) \in Nat
    BY <1>2, LenProperties, RoomIs
  <2>4. Len(c) < 2 * BufSz
    BY DEF LayoutKept
  <2>5. QED
    BY <2>1, <2>2, <2>3, <2>4
<1>7. ~ last => Len(m) = BufSz
  BY <1>1 DEF LayoutKept
<1>8. m = << >> <=> Len(m) = 0
  BY <1>2, EmptySeq
<1>9. SUFFICES /\ Len(m) <= Room(c) /\ Len(c) + Len(m) < 2 * BufSz
               /\ ~ last => Tidy(Fresh(c, m)) /\ Len(c) = 0
  <2>1. ASSUME Len(m) <= Room(c) /\ Len(c) + Len(m) < 2 * BufSz,
               ~ last => Tidy(Fresh(c, m)) /\ Len(c) = 0
        PROVE  /\ left'[p] = << >> /\ pc'[p] = AfterWrite(p, last)
               /\ Len(Fresh(c, m)) = Len(c) + Len(m)
               /\ Len(Fresh(c, m)) < 2 * BufSz
               /\ ~ last => Tidy(Fresh(c, m)) /\ Len(Fresh(c, m)) = BufSz
    <3>1. Lesser(Len(m), Room(c)) = Len(m)
      BY <1>6, <2>1 DEF Lesser
    <3> HIDE DEF c, m, from
    <3>2. QED
      BY <1>3, <1>5, <1>6, <1>7, <2>1, <3>1
  <2>2. QED
    BY <1>1, <1>3, <1>4, <1>5, <2>1
<1>10. CASE m = << >>
  BY <1>6, <1>7, <1>8, <1>10
<1>11. CASE m # << >>
  <2>1. /\ Tidy(c)
        /\ \/ Len(c) \in {0, BufSz} /\ Len(m) <= BufSz
           \/ \E odd \in 1 .. PageSz - 1 :
                /\ Len(c) \in {odd, BufSz + odd}
                /\ Len(m) < BufSz - odd /\ Len(m) <= WholeSz
    BY <1>11 DEF LayoutKept, WholeSz
  <2> HIDE DEF c, m, from
  <2>2. ~ (Len(c) >= BufSz)
    <3>1. Len(c) >= BufSz => Room(c) = 0
      BY <1>2, <2>1, FullRoom
    <3>2. QED
      BY <1>1, <1>6, <3>1 DEF c
  <2>3. CASE Len(c) = 0
    <3>1. c = << >>
      BY <1>2, <2>3, Cells
    <3>2. Len(m) <= BufSz
      BY <1>6, <2>1, <2>3
    <3>3. Tidy(Fresh(<< >>, m)) /\ Room(<< >>) = WholeSz + PageSz
      BY <1>2, <3>2, EmptyWrite, EmptyRoom
    <3>4. Tidy(Fresh(c, m)) /\ Room(c) = WholeSz + PageSz
      BY <3>1, <3>3
    <3>5. QED
      BY <1>6, <2>3, <3>2, <3>4
  <2>4. CASE Len(c) # 0
    <3>1. PICK odd \in 1 .. PageSz - 1 :
            Len(c) = odd /\ Len(m) < BufSz - odd /\ Len(m) <= WholeSz
      BY <1>6, <2>1, <2>2, <2>4
    <3>2. Room(c) = WholeSz
      BY <1>2, <1>6, <2>1, <2>2, <3>1, OddRoom
    <3>3. last
      BY <1>6, <1>7, <3>1 DEF m
    <3>4. QED
      BY <1>6, <3>1, <3>2, <3>3
  <2>5. QED
    BY <2>3, <2>4
<1>12. QED
  BY <1>10, <1>11

LEMMA TidyEmpty == Tidy(<< >>) /\ Len(<< >>) = 0 /\ << >> \in Seq(Cell) /\ << >> \in Seq(Byte)
  BY EmptySeq DEF Tidy

(* What a read leaves in the pipe.                                          *)
LEMMA ReadLeaves ==
  ASSUME NEW c \in Seq(Cell), Cardinality(PagesOf(c)) <= Pages
  PROVE  LET d == SubSeq(c, BufSz + 1, Len(c))
         IN /\ d \in Seq(Cell) /\ Cardinality(PagesOf(d)) <= Pages
            /\ Len(c) <= BufSz => d = << >>
            /\ Len(c) > BufSz => Len(d) = Len(c) - BufSz
            /\ \A n \in 1 .. Len(d) : BufSz + n \in 1 .. Len(c) /\ d[n] = c[BufSz + n]
            /\ Tidy(c) /\ Len(c) < BufSz + PageSz => Tidy(d)
<1> DEFINE d == SubSeq(c, BufSz + 1, Len(c))
<1>1. Len(c) \in Nat /\ DOMAIN c = 1 .. Len(c)
  BY Cells
<1>2. BufSz \in Nat /\ PageSz \in Nat /\ PageSz > 0 /\ 1 * PageSz = PageSz
  BY Sizes
<1>3. /\ d \in Seq(Cell)
      /\ BufSz < Len(c) => Len(d) = Len(c) - BufSz
      /\ BufSz >= Len(c) => d = << >>
      /\ \A n \in 1 .. Len(d) : BufSz + n \in 1 .. Len(c) /\ d[n] = c[BufSz + n]
      /\ PagesOf(d) \subseteq PagesOf(c)
  BY <1>2, TakenIs, Zenon
<1>4. Cardinality(PagesOf(d)) <= Pages
  BY <1>3, FewerPages
<1> HIDE DEF d
<1>5. ASSUME Tidy(c), BufSz < Len(c), Len(c) < BufSz + PageSz PROVE Tidy(d)
  <2>1. DOMAIN d = 1 .. Len(d) /\ Len(d) = Len(c) - BufSz
    BY <1>3, <1>5, Cells
  <2>2. Len(d) \in Nat /\ Len(d) > 0 /\ Len(d) < PageSz
    BY <1>1, <1>2, <1>5, <2>1
  <2>3. ASSUME NEW n \in 1 .. Len(d)
        PROVE  d[n][2] = LastPage(c) /\ (n - 1) \div PageSz = 0 /\ d[n][2] \in Nat
               /\ n <= BufSz + n
    <3>1. n \in Nat \ {0} /\ n <= 1 * PageSz /\ ~ (BufSz + n <= BufSz) /\ n <= BufSz + n
      BY <1>2, <2>2
    <3>2. BufSz + n \in DOMAIN c /\ d[n] = c[BufSz + n]
      BY <1>1, <1>3
    <3>3. (n - 1) \div PageSz \in Nat /\ (n - 1) \div PageSz < 1
      BY <3>1, PageIs
    <3>4. d[n][2] \in Nat
      BY <1>3, Cells
    <3>5. c[BufSz + n][2] = LastPage(c)
      BY <1>5, <3>1, <3>2 DEF Tidy
    <3>6. QED
      BY <3>1, <3>2, <3>3, <3>4, <3>5
  <2>4. 1 \in 1 .. Len(d) /\ Len(d) \in 1 .. Len(d)
    BY <2>2
  <2>5. d # << >>
    BY <1>3, <2>2, Cells
  <2>6. d[1][2] = LastPage(c) /\ LastPage(d) = LastPage(c) /\ LastPage(c) \in Nat
    BY <2>3, <2>4, <2>5 DEF LastPage
  <2>7. ASSUME NEW n \in DOMAIN d
        PROVE  d[n][2] = d[1][2] + ((n - 1) \div PageSz) /\ d[n][2] = LastPage(d)
    BY <2>1, <2>3, <2>6
  <2>8. QED
    BY <2>7 DEF Tidy
<1>6. BufSz >= Len(c) => Tidy(d)
  BY <1>3, TidyEmpty
<1>7. Tidy(c) /\ Len(c) < BufSz + PageSz => Tidy(d)
  BY <1>1, <1>2, <1>5, <1>6
<1>8. /\ Len(c) <= BufSz => d = << >>
      /\ Len(c) > BufSz => Len(d) = Len(c) - BufSz
  BY <1>1, <1>2, <1>3
<1>9. QED
  BY <1>3, <1>4, <1>7, <1>8, Zenon DEF d

(***************************************************************************)
(* Types.                                                                  *)
(***************************************************************************)
LEMMA NumberIs ==
  ASSUME NEW n \in 0 .. Numbers - 1
  PROVE  NextNumber(n) \in 0 .. Numbers - 1
<1>1. n + 1 \in Int /\ n + 1 >= 0 /\ Numbers \in Int /\ Numbers > 0
  BY Sizes
<1>2. (n + 1) % Numbers \in 0 .. Numbers - 1
  BY <1>1, Division
<1>3. QED
  BY <1>2 DEF NextNumber

LEMMA WrittenIs ==
  ASSUME NEW b \in [1 .. BufSz -> Byte], NEW beyond \in Byte
  PROVE  length(b) \in Nat /\ Written(b, beyond) \in Seq(Byte) /\ Len(Written(b, beyond)) = length(b)
<1>1. BufSz \in Nat /\ BufSz = MaxData + 3 /\ MaxData \in Nat /\ Base \in Nat /\ Base > 0
  BY Sizes
<1>2. b[2] - 1 \in Int /\ b[3] - 1 \in Int
  BY <1>1 DEF Byte
<1>3. \A n \in Int : Char(n) \in Nat
  BY <1>1 DEF Char
<1>4. Char(b[2] - 1) \in Nat /\ Char(b[3] - 1) \in Nat
  BY <1>2, <1>3
<1>5. length(b) \in Nat
  <2> DEFINE x == Char(b[2] - 1)
             y == Char(b[3] - 1)
  <2>1. x \in Nat /\ y \in Nat
    BY <1>4
  <2>2. length(b) = x * Base + y
    BY DEF length
  <2> HIDE DEF x, y
  <2>3. QED
    BY <1>1, <2>1, <2>2
<1>6. \A n \in 1 .. length(b) : (IF n <= MaxData THEN b[n + 3] ELSE beyond) \in Byte
  BY <1>1, <1>5
<1>7. QED
  <2> DEFINE e(n) == IF n <= MaxData THEN b[n + 3] ELSE beyond
  <2>1. \A n \in 1 .. length(b) : e(n) \in Byte
    BY <1>6
  <2>2. Written(b, beyond) = [n \in 1 .. length(b) |-> e(n)]
    BY DEF Written
  <2> HIDE DEF e
  <2>3. QED
    BY <1>5, <2>1, <2>2

LEMMA FilledIs ==
  ASSUME EchoTypeOK, NEW p \in Proc
  PROVE  Filled(p) \in [1 .. BufSz -> Byte]
<1>1. Other(p) \in Proc
  BY Procs
<1>2. pipe[Other(p)] \in Seq(Cell) /\ buf[p] \in [1 .. BufSz -> Byte]
  BY <1>1, Contents DEF EchoTypeOK
<1>3. ASSUME NEW n \in 1 .. BufSz
      PROVE  (IF n <= Len(pipe[Other(p)]) THEN pipe[Other(p)][n][1] ELSE buf[p][n]) \in Byte
  <2>1. CASE n <= Len(pipe[Other(p)])
    <3>1. n \in 1 .. Len(pipe[Other(p)])
      BY <1>2, <2>1, LenProperties
    <3>2. pipe[Other(p)][n][1] \in Byte
      BY <1>2, <3>1, Cells
    <3>3. QED
      BY <2>1, <3>2
  <2>2. CASE ~ (n <= Len(pipe[Other(p)]))
    BY <1>2, <2>2
  <2>3. QED
    BY <2>1, <2>2
<1>4. QED
  BY <1>3 DEF Filled

LEMMA EchoTypeStep ==
  ASSUME EchoTypeOK, \A p \in Proc : LayoutKept(p) /\ PosKept(p), [EchoNext]_echoVars
  PROVE  EchoTypeOK'
<1>0. 1 \in 0 .. Numbers - 1 /\ << >> \in Seq(Byte) /\ Cell = Byte \X Nat
  BY Sizes, EmptySeq DEF Cell
<1>1. ASSUME NEW p \in Proc, SndOpen(p) PROVE EchoTypeOK'
  BY <1>0, <1>1 DEF SndOpen, Goes, ExitFds, EchoTypeOK, PC
<1>2. ASSUME NEW p \in Proc, SndPacket(p) PROVE EchoTypeOK'
  <2>1. /\ pipe'[p] \in Seq(Cell) /\ Cardinality(PagesOf(pipe'[p])) <= Pages
        /\ left'[p] \in Seq(Byte)
    BY <1>2, PacketWrite
  <2>2. pc[p] = "snd" /\ UNCHANGED <<orig, file, buf, fd>>
    BY <1>2 DEF SndPacket, Goes
  <2>3. pos' \in [Proc -> Nat]
    <3>1. pos[p] + last_sym(p) \in 0 .. Len(Content(p)) /\ Len(Content(p)) \in Nat
      BY <2>2, SenderFacts, Contents
    <3>2. pos' = [pos EXCEPT ![p] = pos[p] + last_sym(p)]
      BY <1>2 DEF SndPacket
    <3>3. pos[p] + last_sym(p) \in Nat
      BY <3>1
    <3>4. QED
      BY <3>2, <3>3 DEF EchoTypeOK
  <2>4. i' \in [Proc -> 0 .. Numbers - 1]
    <3>1. NextNumber(i[p]) \in 0 .. Numbers - 1
      BY NumberIs DEF EchoTypeOK
    <3>2. i' = [i EXCEPT ![p] = NextNumber(i[p])]
      BY <1>2 DEF SndPacket
    <3>3. QED
      BY <3>1, <3>2 DEF EchoTypeOK
  <2>5. pc' \in [Proc -> PC]
    <3>1. PICK to \in PC : Goes(p, "snd", to)
      BY <1>2 DEF SndPacket, AfterWrite, PC
    <3>2. QED
      BY <3>1 DEF Goes, EchoTypeOK
  <2>6. PICK P, L : pipe' = [pipe EXCEPT ![p] = P] /\ left' = [left EXCEPT ![p] = L]
    BY <1>2, Zenon DEF SndPacket
  <2>7. P \in Seq(Cell) /\ L \in Seq(Byte) /\ Cardinality(PagesOf(P)) <= Pages
    BY <2>1, <2>6 DEF EchoTypeOK
  <2>8. /\ pipe' \in [Proc -> Seq(Byte \X Nat)] /\ left' \in [Proc -> Seq(Byte)]
        /\ \A q \in Proc : Cardinality(PagesOf(pipe'[q])) <= Pages
    BY <1>0, <2>1, <2>6, <2>7 DEF EchoTypeOK
  <2>9. QED
    BY <2>2, <2>3, <2>4, <2>5, <2>8 DEF EchoTypeOK
<1>3. ASSUME NEW p \in Proc, NEW last \in BOOLEAN, SndResume(p, last) PROVE EchoTypeOK'
  <2>1. /\ pipe'[p] \in Seq(Cell) /\ Cardinality(PagesOf(pipe'[p])) <= Pages
        /\ left'[p] = << >> /\ pc'[p] = AfterWrite(p, last)
    BY <1>3, ResumeWrite
  <2>2. UNCHANGED <<orig, file, i, pos, buf, fd>>
    BY <1>3 DEF SndResume
  <2>3. PICK P, L, C : /\ pipe' = [pipe EXCEPT ![p] = P] /\ left' = [left EXCEPT ![p] = L]
                       /\ pc' = [pc EXCEPT ![p] = C]
    BY <1>3, Zenon DEF SndResume, Goes
  <2>4. P \in Seq(Cell) /\ L = << >> /\ Cardinality(PagesOf(P)) <= Pages /\ C \in PC
    BY <2>1, <2>3 DEF EchoTypeOK, AfterWrite, PC
  <2>5. /\ pipe' \in [Proc -> Seq(Byte \X Nat)] /\ left' \in [Proc -> Seq(Byte)]
        /\ pc' \in [Proc -> PC]
        /\ \A q \in Proc : Cardinality(PagesOf(pipe'[q])) <= Pages
    BY <1>0, <2>1, <2>3, <2>4 DEF EchoTypeOK
  <2>6. QED
    BY <2>2, <2>5 DEF EchoTypeOK
<1>4. ASSUME NEW p \in Proc, SndKilled(p) PROVE EchoTypeOK'
  BY <1>4 DEF SndKilled, Goes, ExitFds, EchoTypeOK, PC
<1>5. ASSUME NEW p \in Proc, SndClose(p) PROVE EchoTypeOK'
  BY <1>5 DEF SndClose, Goes, ExitFds, EchoTypeOK, PC
<1>6. ASSUME NEW p \in Proc, RcvOpen(p) PROVE EchoTypeOK'
  BY <1>0, <1>6 DEF RcvOpen, RcvFds, Goes, EchoTypeOK, PC
<1>7. ASSUME NEW p \in Proc, RcvRead(p) PROVE EchoTypeOK'
  <2> DEFINE o == Other(p)
             d == SubSeq(pipe[o], BufSz + 1, Len(pipe[o]))
  <2>1. /\ pc' = [pc EXCEPT ![p] = "rcv"] /\ pipe' = [pipe EXCEPT ![o] = d]
        /\ buf' = [buf EXCEPT ![p] = Filled(p)] /\ UNCHANGED <<orig, pos, left, fd>>
    BY <1>7 DEF RcvRead, Goes
  <2>2. o \in Proc /\ pipe[o] \in Seq(Cell) /\ Cardinality(PagesOf(pipe[o])) <= Pages
    BY Procs, Contents
  <2>3. d \in Seq(Cell) /\ Cardinality(PagesOf(d)) <= Pages
    BY <2>2, ReadLeaves
  <2> HIDE DEF o, d
  <2>4. /\ pipe' \in [Proc -> Seq(Byte \X Nat)]
        /\ \A q \in Proc : Cardinality(PagesOf(pipe'[q])) <= Pages
    BY <1>0, <2>1, <2>2, <2>3, Zenon DEF EchoTypeOK
  <2>5. buf' \in [Proc -> [1 .. BufSz -> Byte]] /\ pc' \in [Proc -> PC]
    BY <2>1, FilledIs DEF EchoTypeOK, PC
  <2>6. CASE Awaited(Filled(p), i[p])
    <3>1. PICK beyond \in Byte :
            /\ i' = [i EXCEPT ![p] = NextNumber(i[p])]
            /\ file' = [file EXCEPT ![p] = file[p] \o Written(Filled(p), beyond)]
      BY <1>7, <2>6 DEF RcvRead
    <3>2. NextNumber(i[p]) \in 0 .. Numbers - 1
      BY NumberIs DEF EchoTypeOK
    <3>3. Written(Filled(p), beyond) \in Seq(Byte) /\ file[p] \in Seq(Byte)
      BY FilledIs, WrittenIs DEF EchoTypeOK
    <3> DEFINE f == file[p] \o Written(Filled(p), beyond)
    <3>4. f \in Seq(Byte)
      BY <3>3, ConcatProperties
    <3> HIDE DEF f
    <3>5. file' \in [Proc -> Seq(Byte)] /\ i' \in [Proc -> 0 .. Numbers - 1]
      BY <3>1, <3>2, <3>4 DEF EchoTypeOK, f
    <3>6. QED
      BY <2>1, <2>4, <2>5, <3>5 DEF EchoTypeOK
  <2>7. CASE ~ Awaited(Filled(p), i[p])
    <3>1. UNCHANGED <<i, file>>
      BY <1>7, <2>7 DEF RcvRead
    <3>2. QED
      BY <2>1, <2>4, <2>5, <3>1 DEF EchoTypeOK
  <2>8. QED
    BY <2>6, <2>7
<1>8. ASSUME NEW p \in Proc, RcvCrash(p) PROVE EchoTypeOK'
  BY <1>8 DEF RcvCrash, Goes, ExitFds, EchoTypeOK, PC
<1>9. ASSUME NEW p \in Proc, RcvClose(p) PROVE EchoTypeOK'
  BY <1>9 DEF RcvClose, Goes, ExitFds, EchoTypeOK, PC
<1>10. CASE UNCHANGED echoVars
  BY <1>10 DEF echoVars, EchoTypeOK
<1>11. QED
  BY <1>1, <1>2, <1>3, <1>4, <1>5, <1>6, <1>7, <1>8, <1>9, <1>10 DEF EchoNext, Process

(***************************************************************************)
(* The layout of the pipes.                                                *)
(***************************************************************************)
LEMMA LayoutStays ==
  ASSUME NEW q \in Proc, LayoutKept(q), pipe'[q] = pipe[q], left'[q] = left[q],
         \/ pc'[q] = pc[q]
         \/ pc'[q] \notin {"snd", "write"} /\ (left[q] = << >> \/ pc'[q] = "killed")
  PROVE  LayoutKept(q)'
  BY DEF LayoutKept

LEMMA PacketLayout ==
  ASSUME EchoTypeOK, NEW p \in Proc, PosKept(p), LayoutKept(p), SndPacket(p)
  PROVE  LayoutKept(p)'
<1> DEFINE m == Packet(p)
           last == last_sym(p) < MaxData
           k == Len(pipe'[p]) - Len(pipe[p])
<1>1. /\ pipe'[p] \in Seq(Cell) /\ Tidy(pipe'[p]) /\ left'[p] \in Seq(Byte) /\ k \in Nat
      /\ pc'[p] = IF left'[p] = << >> THEN AfterWrite(p, last)
                  ELSE IF last THEN "write_last" ELSE "write"
      /\ \/ /\ pipe[p] = << >> /\ left'[p] = << >> /\ Len(pipe'[p]) = Len(m)
         \/ /\ Len(pipe[p]) = BufSz /\ Len(left'[p]) = Len(m) - k
            /\ k # 0 => /\ k \in 1 .. PageSz - 1
                        /\ Odd + k <= PageSz /\ Len(m) < BufSz
                        /\ Len(left'[p]) <= WholeSz
  BY PacketWrite
<1>2. Len(m) \in Nat /\ Len(m) <= BufSz /\ (last <=> Len(m) < BufSz)
  <2>1. pc[p] = "snd"
    BY DEF SndPacket, Goes
  <2>2. m \in Seq(Byte) /\ Len(m) <= BufSz /\ (last <=> Len(m) < BufSz)
    BY <2>1, SenderFacts
  <2>3. QED
    BY <2>2, LenProperties
<1> HIDE DEF m, last
<1>3. /\ Len(pipe'[p]) \in Nat /\ Len(left'[p]) \in Nat /\ Len(pipe[p]) \in Nat
      /\ left'[p] = << >> <=> Len(left'[p]) = 0
  BY <1>1, LenProperties, EmptySeq, Contents
<1>4. BufSz \in Nat /\ BufSz > 0 /\ PageSz \in Nat /\ Odd \in Nat /\ Odd <= BufSz
      /\ PageSz < Odd + Odd
  BY Layout, Sizes
<1> DEFINE P == pipe'[p]
           L == left'[p]
           C == pc'[p]
<1> SUFFICES /\ C = "snd" => Len(P) \in {0, BufSz}
             /\ C = "write" => Len(P) \in {0, BufSz} /\ Len(L) = BufSz
             /\ C \in {"write", "write_last", "killed"} \/ L = << >>
             /\ Len(P) < 2 * BufSz
             /\ L # << >> =>
                  \/ Len(P) \in {0, BufSz} /\ Len(L) <= BufSz
                  \/ \E odd \in 1 .. PageSz - 1 :
                       /\ Len(P) \in {odd, BufSz + odd}
                       /\ Len(L) < BufSz - odd /\ Len(L) <= WholeSz
  BY <1>1 DEF LayoutKept, WholeSz
<1>5. CASE pipe[p] = << >> /\ L = << >> /\ Len(P) = Len(m)
  <2>1. C = IF last THEN "snd_close" ELSE "snd"
    BY <1>1, <1>5 DEF AfterWrite
  <2> HIDE DEF P, L, C
  <2>2. QED
    BY <1>2, <1>4, <1>5, <2>1
<1>6. CASE /\ Len(pipe[p]) = BufSz /\ Len(L) = Len(m) - k
           /\ k # 0 => /\ k \in 1 .. PageSz - 1
                       /\ Odd + k <= PageSz /\ Len(m) < BufSz
                       /\ Len(L) <= WholeSz
  <2>1. C = IF L = << >> THEN IF last THEN "snd_close" ELSE "snd"
                         ELSE IF last THEN "write_last" ELSE "write"
    BY <1>1 DEF AfterWrite
  <2>2. Len(P) = BufSz + k /\ k \in Nat
    BY <1>1, <1>3, <1>4, <1>6
  <2>3. L = << >> <=> Len(L) = 0
    BY <1>3
  <2> HIDE DEF P, L, C, k
  <2>4. k < BufSz
    BY <1>4, <1>6, <2>2
  <2>5. CASE k = 0
    <3>1. Len(P) = BufSz /\ Len(L) = Len(m)
      BY <1>2, <1>4, <1>6, <2>2, <2>5
    <3>2. QED
      BY <1>2, <1>4, <2>1, <2>3, <3>1
  <2>6. CASE k # 0
    <3>1. Len(m) < BufSz /\ last /\ k \in 1 .. PageSz - 1 /\ Len(L) <= WholeSz
          /\ Len(L) < BufSz - k
      BY <1>2, <1>4, <1>6, <2>2, <2>6
    <3>2. QED
      BY <1>4, <2>1, <2>2, <2>4, <3>1
  <2>7. QED
    BY <2>5, <2>6
<1>7. QED
  BY <1>1, <1>5, <1>6

LEMMA ReadLayout ==
  ASSUME EchoTypeOK, NEW o \in Proc, LayoutKept(o), pc'[o] = pc[o], left'[o] = left[o],
         pipe' = [pipe EXCEPT ![o] = SubSeq(pipe[o], BufSz + 1, Len(pipe[o]))]
  PROVE  LayoutKept(o)'
<1> DEFINE c == pipe[o]
           d == SubSeq(c, BufSz + 1, Len(c))
           l == left[o]
<1>1. c \in Seq(Cell) /\ Cardinality(PagesOf(c)) <= Pages /\ pipe'[o] = d
  BY Contents DEF EchoTypeOK
<1> HIDE DEF c
<1>2. /\ d \in Seq(Cell)
      /\ Len(c) <= BufSz => d = << >>
      /\ Len(c) > BufSz => Len(d) = Len(c) - BufSz
      /\ Tidy(c) /\ Len(c) < BufSz + PageSz => Tidy(d)
  BY <1>1, ReadLeaves
<1> HIDE DEF d
<1>3. /\ Len(c) \in Nat /\ BufSz \in Nat /\ BufSz > 0 /\ PageSz \in Nat /\ PageSz > 0
      /\ Len(l) \in Nat
  <2>1. BufSz \in Nat /\ BufSz > 0 /\ PageSz \in Nat /\ PageSz > 0
    BY Sizes
  <2>2. QED
    BY <1>1, <2>1, LenProperties, Contents
<1>4. /\ pc[o] = "snd" => Len(c) \in {0, BufSz}
      /\ pc[o] = "write" => Len(c) \in {0, BufSz} /\ Len(l) = BufSz
      /\ pc[o] \in {"write", "write_last", "killed"} \/ l = << >>
      /\ Len(c) < 2 * BufSz
      /\ l # << >> =>
           /\ Tidy(c)
           /\ \/ Len(c) \in {0, BufSz} /\ Len(l) <= BufSz
              \/ \E odd \in 1 .. PageSz - 1 :
                   /\ Len(c) \in {odd, BufSz + odd}
                   /\ Len(l) < BufSz - odd
                   /\ Len(l) <= (Pages - 1) * PageSz
  BY DEF LayoutKept, c
<1>5. Tidy(<< >>) /\ Len(<< >>) = 0
  BY TidyEmpty
<1> HIDE DEF l
<1>6. /\ pc[o] = "snd" => d = << >>
      /\ pc[o] = "write" => d = << >>
      /\ Len(d) < 2 * BufSz
  BY <1>2, <1>3, <1>4, <1>5
<1>7. ASSUME l # << >>
      PROVE  /\ Tidy(d)
             /\ \/ Len(d) \in {0, BufSz} /\ Len(l) <= BufSz
                \/ \E odd \in 1 .. PageSz - 1 :
                     /\ Len(d) \in {odd, BufSz + odd}
                     /\ Len(l) < BufSz - odd
                     /\ Len(l) <= (Pages - 1) * PageSz
  <2>1. CASE Len(c) <= BufSz
    <3>1. Len(l) <= BufSz
      BY <1>3, <1>4, <1>7
    <3>2. QED
      BY <1>2, <1>5, <2>1, <3>1
  <2>2. CASE Len(c) > BufSz
    <3>1. PICK odd \in 1 .. PageSz - 1 :
            /\ Len(c) \in {odd, BufSz + odd}
            /\ Len(l) < BufSz - odd
            /\ Len(l) <= (Pages - 1) * PageSz
      BY <1>3, <1>4, <1>7, <2>2
    <3>2. Len(c) = BufSz + odd
      BY <1>3, <2>2, <3>1
    <3>3. Len(d) = odd /\ Len(c) < BufSz + PageSz
      BY <1>2, <1>3, <2>2, <3>2
    <3>4. QED
      BY <1>2, <1>4, <1>7, <3>1, <3>3
  <2>3. QED
    BY <1>3, <2>1, <2>2
<1>8. QED
  BY <1>1, <1>4, <1>5, <1>6, <1>7 DEF LayoutKept, l

LEMMA LayoutStep ==
  ASSUME EchoTypeOK, \A p \in Proc : LayoutKept(p) /\ PosKept(p), [EchoNext]_echoVars
  PROVE  \A p \in Proc : LayoutKept(p)'
<1>1. ASSUME NEW p \in Proc, NEW q \in Proc, SndOpen(p) PROVE LayoutKept(q)'
  <2>1. UNCHANGED <<pipe, left>>
    BY <1>1 DEF SndOpen
  <2>2. CASE q = p
    <3>1. pipe[p] = << >> /\ left[p] = << >> /\ Tidy(<< >>) /\ Len(<< >>) = 0 /\ BufSz \in Nat
          /\ BufSz > 0
      BY <1>1, TidyEmpty, Sizes DEF PosKept, HasNotSent, SndOpen, Goes
    <3>2. pc'[p] \in {"snd", "crashed"}
      BY <1>1 DEF SndOpen, Goes, EchoTypeOK
    <3>3. QED
      BY <2>1, <2>2, <3>1, <3>2 DEF LayoutKept
  <2>3. CASE q # p
    <3>1. pc'[q] = pc[q]
      BY <1>1, <2>3 DEF SndOpen, Goes, EchoTypeOK
    <3>2. QED
      BY <2>1, <3>1, LayoutStays
  <2>4. QED
    BY <2>2, <2>3
<1>2. ASSUME NEW p \in Proc, NEW q \in Proc, SndPacket(p) PROVE LayoutKept(q)'
  <2>1. CASE q = p
    BY <1>2, <2>1, PacketLayout
  <2>2. CASE q # p
    <3>1. PICK P, L, C : /\ pipe' = [pipe EXCEPT ![p] = P] /\ left' = [left EXCEPT ![p] = L]
                         /\ pc' = [pc EXCEPT ![p] = C]
      BY <1>2, Zenon DEF SndPacket, Goes
    <3>2. pipe'[q] = pipe[q] /\ left'[q] = left[q] /\ pc'[q] = pc[q]
      BY <2>2, <3>1 DEF EchoTypeOK
    <3>3. QED
      BY <3>2, LayoutStays
  <2>3. QED
    BY <2>1, <2>2
<1>3. ASSUME NEW p \in Proc, NEW q \in Proc, NEW last \in BOOLEAN, SndResume(p, last)
      PROVE  LayoutKept(q)'
  <2>1. CASE q = p
    <3>1. /\ left'[p] = << >> /\ pc'[p] = AfterWrite(p, last)
          /\ Len(pipe'[p]) < 2 * BufSz
          /\ ~ last => Tidy(pipe'[p]) /\ Len(pipe'[p]) = BufSz
      BY <1>3, ResumeWrite
    <3>2. pc'[p] = IF last THEN "snd_close" ELSE "snd"
      BY <3>1 DEF AfterWrite
    <3>3. QED
      BY <2>1, <3>1, <3>2 DEF LayoutKept
  <2>2. CASE q # p
    <3>1. PICK P, L, C : /\ pipe' = [pipe EXCEPT ![p] = P] /\ left' = [left EXCEPT ![p] = L]
                         /\ pc' = [pc EXCEPT ![p] = C]
      BY <1>3, Zenon DEF SndResume, Goes
    <3>2. pipe'[q] = pipe[q] /\ left'[q] = left[q] /\ pc'[q] = pc[q]
      BY <2>2, <3>1 DEF EchoTypeOK
    <3>3. QED
      BY <3>2, LayoutStays
  <2>3. QED
    BY <2>1, <2>2
<1>4. ASSUME NEW p \in Proc, NEW q \in Proc, UNCHANGED <<pipe, left>>,
             NEW from, NEW to, Goes(p, from, to),
             to = "killed" \/ (to \notin {"snd", "write"} /\ from \notin {"write", "write_last", "killed"})
      PROVE  LayoutKept(q)'
  <2>1. pc[p] = from /\ pc'[p] = to /\ (q # p => pc'[q] = pc[q])
    BY <1>4 DEF Goes, EchoTypeOK
  <2>2. from \notin {"write", "write_last", "killed"} => left[p] = << >>
    BY <2>1 DEF LayoutKept
  <2>3. QED
    BY <1>4, <2>1, <2>2, LayoutStays
<1>5. ASSUME NEW p \in Proc, NEW q \in Proc, SndKilled(p) PROVE LayoutKept(q)'
  BY <1>4, <1>5 DEF SndKilled
<1>6. ASSUME NEW p \in Proc, NEW q \in Proc, SndClose(p) PROVE LayoutKept(q)'
  BY <1>4, <1>6 DEF SndClose
<1>7. ASSUME NEW p \in Proc, NEW q \in Proc, RcvOpen(p) PROVE LayoutKept(q)'
  BY <1>4, <1>7 DEF RcvOpen
<1>8. ASSUME NEW p \in Proc, NEW q \in Proc, RcvRead(p) PROVE LayoutKept(q)'
  <2> DEFINE o == Other(p)
  <2>1. /\ o \in Proc /\ pc' = [pc EXCEPT ![p] = "rcv"] /\ pc[p] = "rcv"
        /\ pipe' = [pipe EXCEPT ![o] = SubSeq(pipe[o], BufSz + 1, Len(pipe[o]))]
        /\ left' = left
    BY <1>8, Procs DEF RcvRead, Goes
  <2>2. pc'[q] = pc[q]
    BY <2>1 DEF EchoTypeOK
  <2> HIDE DEF o
  <2>3. CASE q = o
    BY <2>1, <2>2, <2>3, ReadLayout
  <2>4. CASE q # o
    <3>1. pipe'[q] = pipe[q]
      BY <2>1, <2>4 DEF EchoTypeOK
    <3>2. QED
      BY <2>1, <2>2, <3>1, LayoutStays
  <2>5. QED
    BY <2>3, <2>4
<1>9. ASSUME NEW p \in Proc, NEW q \in Proc, RcvCrash(p) PROVE LayoutKept(q)'
  BY <1>4, <1>9 DEF RcvCrash
<1>10. ASSUME NEW p \in Proc, NEW q \in Proc, RcvClose(p) PROVE LayoutKept(q)'
  BY <1>4, <1>10 DEF RcvClose
<1>11. CASE UNCHANGED echoVars
  BY <1>11, LayoutStays DEF echoVars
<1>12. QED
  BY <1>1, <1>2, <1>3, <1>5, <1>6, <1>7, <1>8, <1>9, <1>10, <1>11 DEF EchoNext, Process

(* A full packet, once some of it can be read, can be read as a whole.      *)
LEMMA WholeRead ==
  ASSUME EchoTypeOK, NEW p \in Proc, LayoutKept(p), pipe[p] # << >>,
         Len(pipe[p]) + Len(left[p]) >= BufSz
  PROVE  Len(pipe[p]) >= BufSz
<1> DEFINE a == Len(pipe[p])
           b == Len(left[p])
<1>1. BufSz \in Nat /\ PageSz \in Nat
  BY Sizes
<1>2. a \in Nat /\ b \in Nat /\ a > 0 /\ (left[p] = << >> => b = 0) /\ a + b >= BufSz
  BY Contents, Cells, LenProperties, EmptySeq
<1>3. left[p] # << >> =>
        \/ a \in {0, BufSz}
        \/ \E odd \in 1 .. PageSz - 1 : a \in {odd, BufSz + odd} /\ b < BufSz - odd
  BY DEF LayoutKept
<1> HIDE DEF a, b
<1>4. left[p] # << >> => a >= BufSz
  <2>1. ASSUME NEW odd \in 1 .. PageSz - 1, a \in {odd, BufSz + odd}, b < BufSz - odd
        PROVE  a >= BufSz
    BY <1>1, <1>2, <2>1
  <2>2. QED
    BY <1>1, <1>2, <1>3, <2>1
<1>5. a >= BufSz
  BY <1>1, <1>2, <1>4
<1>6. QED
  BY <1>5 DEF a

(***************************************************************************)
(* How far the contents are sent.                                          *)
(***************************************************************************)
LEMMA OtherStays ==
  ASSUME EchoTypeOK, NEW p \in Proc, Process(p), NEW q \in Proc, q # p
  PROVE  /\ orig' = orig /\ file'[q] = file[q] /\ pc'[q] = pc[q] /\ i'[q] = i[q]
         /\ pos'[q] = pos[q] /\ left'[q] = left[q]
         /\ pipe'[q] # pipe[q] => RcvRead(p)
<1> SUFFICES /\ orig' = orig
             /\ file' = file \/ \E x : file' = [file EXCEPT ![p] = x]
             /\ \E x : pc' = [pc EXCEPT ![p] = x]
             /\ i' = i \/ \E x : i' = [i EXCEPT ![p] = x]
             /\ pos' = pos \/ \E x : pos' = [pos EXCEPT ![p] = x]
             /\ left' = left \/ \E x : left' = [left EXCEPT ![p] = x]
             /\ pipe' = pipe \/ (\E x : pipe' = [pipe EXCEPT ![p] = x]) \/ RcvRead(p)
  BY DEF EchoTypeOK
<1>1. CASE SndOpen(p)
  BY <1>1, Zenon DEF SndOpen, Goes
<1>2. CASE SndPacket(p)
  BY <1>2, Zenon DEF SndPacket, Goes
<1>3. ASSUME NEW last \in BOOLEAN, SndResume(p, last)
      PROVE  /\ orig' = orig
             /\ file' = file \/ \E x : file' = [file EXCEPT ![p] = x]
             /\ \E x : pc' = [pc EXCEPT ![p] = x]
             /\ i' = i \/ \E x : i' = [i EXCEPT ![p] = x]
             /\ pos' = pos \/ \E x : pos' = [pos EXCEPT ![p] = x]
             /\ left' = left \/ \E x : left' = [left EXCEPT ![p] = x]
             /\ pipe' = pipe \/ (\E x : pipe' = [pipe EXCEPT ![p] = x]) \/ RcvRead(p)
  BY <1>3, Zenon DEF SndResume, Goes
<1>4. CASE SndKilled(p)
  BY <1>4, Zenon DEF SndKilled, Goes
<1>5. CASE SndClose(p)
  BY <1>5, Zenon DEF SndClose, Goes
<1>6. CASE RcvOpen(p)
  BY <1>6, Zenon DEF RcvOpen, Goes
<1>7. CASE RcvRead(p)
  <2>1. /\ orig' = orig /\ (\E x : pc' = [pc EXCEPT ![p] = x])
        /\ pos' = pos /\ left' = left
    BY <1>7, Zenon DEF RcvRead, Goes
  <2>2. \/ \E beyond \in Byte : file' = [file EXCEPT ![p] = file[p] \o Written(Filled(p), beyond)]
        \/ file' = file
    BY <1>7 DEF RcvRead
  <2>3. i' = i \/ i' = [i EXCEPT ![p] = NextNumber(i[p])]
    BY <1>7 DEF RcvRead
  <2>4. QED
    BY <1>7, <2>1, <2>2, <2>3, Zenon
<1>8. CASE RcvCrash(p)
  BY <1>8, Zenon DEF RcvCrash, Goes
<1>9. CASE RcvClose(p)
  BY <1>9, Zenon DEF RcvClose, Goes
<1>10. QED
  BY <1>1, <1>2, <1>3, <1>4, <1>5, <1>6, <1>7, <1>8, <1>9 DEF Process

(* The places a process gets to, and what it leaves alone on the way.       *)
LEMMA Steps ==
  ASSUME EchoTypeOK, NEW p \in Proc, Process(p)
  PROVE  \/ /\ pc[p] = "snd_open" /\ pc'[p] \in {"snd", "crashed"} /\ pos'[p] = 0
            /\ i'[p] = 1 /\ UNCHANGED <<file, left, pipe>>
         \/ SndPacket(p) /\ pc[p] = "snd" /\ file' = file
         \/ (\E last \in BOOLEAN : SndResume(p, last)) /\ UNCHANGED <<file, pos, i>>
         \/ /\ pc[p] \in Sending /\ pc'[p] = "killed" /\ ~ HasReader(p)
            /\ UNCHANGED <<file, pos, left, pipe, i>>
         \/ /\ pc[p] = "snd_close" /\ pc'[p] = (IF p = "parent" THEN "rcv_open" ELSE "done")
            /\ UNCHANGED <<file, pos, left, pipe, i>>
         \/ /\ pc[p] = "rcv_open" /\ pc'[p] \in {"rcv", "rcv_null"} /\ i'[p] = 1
            /\ file' = [file EXCEPT ![p] = << >>] \/ (pc'[p] = "rcv_null" /\ file' = file)
            /\ UNCHANGED <<pos, left, pipe>>
         \/ RcvRead(p) /\ pc[p] = "rcv" /\ pc'[p] = "rcv"
         \/ /\ pc[p] = "rcv_null" /\ pc'[p] = "crashed"
            /\ UNCHANGED <<file, pos, left, pipe, i>>
         \/ /\ RcvClose(p) /\ pc[p] = "rcv"
            /\ pc'[p] = (IF p = "parent" THEN "done" ELSE "snd_open")
            /\ UNCHANGED <<file, pos, left, pipe, i>>
<1> USE DEF Goes, EchoTypeOK
<1>1. CASE SndOpen(p)
  BY <1>1 DEF SndOpen
<1>2. CASE SndPacket(p)
  <2>1. pc[p] = "snd" /\ file' = file
    BY <1>2 DEF SndPacket
  <2>2. QED
    BY <1>2, <2>1
<1>3. ASSUME NEW last \in BOOLEAN, SndResume(p, last)
      PROVE  UNCHANGED <<file, pos, i>>
  BY <1>3 DEF SndResume
<1>4. CASE SndKilled(p)
  BY <1>4 DEF SndKilled, Sending
<1>5. CASE SndClose(p)
  BY <1>5 DEF SndClose
<1>6. CASE RcvOpen(p)
  BY <1>6 DEF RcvOpen
<1>7. CASE RcvRead(p)
  <2>1. pc[p] = "rcv" /\ pc'[p] = "rcv"
    BY <1>7 DEF RcvRead
  <2>2. QED
    BY <1>7, <2>1
<1>8. CASE RcvCrash(p)
  BY <1>8 DEF RcvCrash
<1>9. CASE RcvClose(p)
  <2>1. /\ pc[p] = "rcv" /\ pc'[p] = (IF p = "parent" THEN "done" ELSE "snd_open")
        /\ UNCHANGED <<file, pos, left, pipe, i>>
    BY <1>9 DEF RcvClose
  <2>2. QED
    BY <1>9, <2>1
<1>10. QED
  <2>1. SndOpen(p) \/ SndPacket(p) \/ SndKilled(p) \/ SndClose(p) \/ RcvOpen(p) \/ RcvRead(p)
        \/ RcvCrash(p) \/ RcvClose(p) \/ \E last \in BOOLEAN : SndResume(p, last)
    BY DEF Process
  <2>2. CASE \E last \in BOOLEAN : SndResume(p, last)
    BY <1>3, <2>2, Zenon
  <2>3. QED
    BY <1>1, <1>2, <1>4, <1>5, <1>6, <1>7, <1>8, <1>9, <2>1, <2>2, Zenon

LEMMA PacketMove ==
  ASSUME EchoTypeOK, NEW p \in Proc, PosKept(p), SndPacket(p)
  PROVE  /\ pos'[p] = pos[p] + last_sym(p) /\ i'[p] = NextNumber(i[p])
         /\ pc'[p] \in {"snd", "write", "write_last", "snd_close"}
         /\ pc'[p] \in {"snd", "write"} => last_sym(p) = MaxData
         /\ pc'[p] \in {"write_last", "snd_close"} => last_sym(p) < MaxData
<1> DEFINE last == last_sym(p) < MaxData
<1>1. PICK to : /\ Goes(p, "snd", to)
                /\ to = AfterWrite(p, last) \/ to = IF last THEN "write_last" ELSE "write"
  BY Zenon DEF SndPacket
<1>2. pc'[p] = to /\ pc[p] = "snd"
  BY <1>1 DEF Goes, EchoTypeOK
<1>3. last_sym(p) \in 0 .. MaxData /\ MaxData \in Nat
  BY <1>2, SenderFacts, Sizes
<1>4. pos'[p] = pos[p] + last_sym(p) /\ i'[p] = NextNumber(i[p])
  BY DEF SndPacket, EchoTypeOK
<1>5. QED
  BY <1>1, <1>2, <1>3, <1>4 DEF AfterWrite

LEMMA ResumeMove ==
  ASSUME EchoTypeOK, NEW p \in Proc, LayoutKept(p), NEW last \in BOOLEAN, SndResume(p, last)
  PROVE  \/ pc[p] = "write" /\ pc'[p] = "snd"
         \/ pc[p] = "write_last" /\ pc'[p] = "snd_close"
  BY ResumeWrite DEF AfterWrite

LEMMA MultipleOf ==
  ASSUME NEW n \in Nat, n % MaxData = 0
  PROVE  (n + MaxData) % MaxData = 0
<1> DEFINE q == n \div MaxData
<1>1. MaxData \in Int /\ MaxData > 0 /\ n \in Int /\ n >= 0
  BY Sizes
<1>2. q \in Int /\ q >= 0 /\ n = q * MaxData + (n % MaxData)
  BY <1>1, Division
<1> HIDE DEF q
<1>3. q * MaxData \in Int /\ (q + 1) * MaxData = q * MaxData + MaxData
  BY <1>1, <1>2
<1>4. n + MaxData = (q + 1) * MaxData + 0
  BY <1>1, <1>2, <1>3
<1>5. ((q + 1) * MaxData + 0) % MaxData = 0
  <2>1. q + 1 \in Int /\ q + 1 >= 0 /\ 0 \in Int /\ 0 < MaxData
    BY <1>1, <1>2
  <2>2. QED
    BY <1>1, <2>1, QuotientIs
<1>6. QED
  BY <1>4, <1>5

LEMMA SourceStep ==
  ASSUME EchoTypeOK, PosKept("parent"), NEW p \in Proc, Process(p)
  PROVE  pc'["parent"] \in ToSend \union {"rcv_open"} => file'["parent"] = orig'
<1> SUFFICES ASSUME pc'["parent"] \in ToSend \union {"rcv_open"} PROVE file'["parent"] = orig'
  OBVIOUS
<1>0. pc["parent"] \in ToSend \union {"rcv_open"} => file["parent"] = orig
  BY DEF PosKept
<1>1. CASE p = "child"
  BY <1>0, <1>1, Procs, OtherStays
<1>2. CASE p = "parent"
  <2>1. orig' = orig
    BY Procs, OtherStays
  <2>2. pc["parent"] \in ToSend \union {"rcv_open"} /\ file' = file
    BY <1>2, Steps DEF ToSend, Sending, SndResume, Goes
  <2>3. QED
    BY <1>0, <2>1, <2>2
<1>3. QED
  BY <1>1, <1>2, Procs

LEMMA ContentStays ==
  ASSUME EchoTypeOK, NEW p \in Proc, Process(p), NEW q \in Proc
  PROVE  Content(q)' = Content(q) \/ (q = p /\ q = "child" /\ pc[q] \in ToReceive)
<1>1. orig' = orig
  BY Procs, OtherStays
<1>2. CASE q = "parent"
  BY <1>1, <1>2 DEF Content
<1>3. CASE q = "child" /\ q # p
  BY <1>3, OtherStays DEF Content, Procs
<1>4. CASE q = "child" /\ q = p
  BY <1>4, Steps DEF Content, ToReceive
<1>5. QED
  BY <1>2, <1>3, <1>4, Procs

LEMMA PosStep ==
  ASSUME EchoTypeOK, \A p \in Proc : LayoutKept(p) /\ PosKept(p), EchoTypeOK',
         NEW p \in Proc, Process(p), NEW q \in Proc
  PROVE  PosKept(q)'
<1>1. pc'["parent"] \in ToSend \union {"rcv_open"} => file'["parent"] = orig'
  BY Procs, SourceStep
<1>2. /\ pos[q] \in Nat /\ pos'[q] \in Nat
      /\ Len(Content(q)) \in Nat /\ Len(Content(q)') \in Nat
  <2>1. EchoTypeOK => Len(Content(q)) \in Nat /\ pos[q] \in Nat
    BY Contents
  <2>2. EchoTypeOK' => Len(Content(q)') \in Nat
    <3>1. orig' \in Seq(Byte) /\ file'["child"] \in Seq(Byte)
      BY SourcesAssumption, Procs DEF EchoTypeOK
    <3>2. Content(q)' \in Seq(Byte)
      BY <3>1 DEF Content
    <3>3. QED
      BY <3>2, LenProperties
  <2>3. QED
    BY <2>1, <2>2 DEF EchoTypeOK
<1>3. /\ pos[q] <= Len(Content(q))
      /\ pc[q] \in HasNotSent(q) =>
           pos[q] = 0 /\ pipe[q] = << >> /\ left[q] = << >>
      /\ pc[q] \in {"snd", "write"} => pos[q] % MaxData = 0
      /\ pc[q] \in HasSent(q) => pos[q] = Len(Content(q))
  BY DEF PosKept
<1>4. SUFFICES /\ pos'[q] <= Len(Content(q)')
               /\ pc'[q] \in HasNotSent(q) =>
                    pos'[q] = 0 /\ pipe'[q] = << >> /\ left'[q] = << >>
               /\ pc'[q] \in {"snd", "write"} => pos'[q] % MaxData = 0
               /\ pc'[q] \in HasSent(q) => pos'[q] = Len(Content(q)')
  BY <1>1 DEF PosKept
<1>5. CASE q # p
  <2>1. /\ pc'[q] = pc[q] /\ pos'[q] = pos[q] /\ left'[q] = left[q]
        /\ pipe'[q] # pipe[q] => RcvRead(p)
        /\ Content(q)' = Content(q)
    BY <1>5, OtherStays, ContentStays
  <2>2. RcvRead(p) => pipe[q] # << >>
    <3>1. q = Other(p)
      BY <1>5, Procs
    <3>2. QED
      BY <3>1 DEF RcvRead
  <2>3. QED
    BY <1>3, <2>1, <2>2
<1>6. CASE q = p
  <2> USE DEF HasNotSent, HasSent, ToReceive, Sending
  <2>1. CASE SndPacket(p) /\ pc[p] = "snd" /\ file' = file
    <3>1. /\ pos'[p] = pos[p] + last_sym(p)
          /\ pc'[p] \in {"snd", "write", "write_last", "snd_close"}
          /\ pc'[p] \in {"snd", "write"} => last_sym(p) = MaxData
          /\ pc'[p] \in {"write_last", "snd_close"} => last_sym(p) < MaxData
      BY <2>1, PacketMove
    <3>2. /\ last_sym(p) < MaxData => pos[p] + last_sym(p) = Len(Content(p))
          /\ pos[p] + last_sym(p) \in 0 .. Len(Content(p))
      BY <2>1, SenderFacts
    <3>3. Content(p)' = Content(p)
      BY <2>1, ContentStays
    <3>4. pc'[p] \in {"snd", "write"} => pos'[p] % MaxData = 0
      BY <1>2, <1>3, <1>6, <2>1, <3>1, MultipleOf
    <3>5. QED
      BY <1>6, <3>1, <3>2, <3>3, <3>4
  <2>2. CASE (\E last \in BOOLEAN : SndResume(p, last)) /\ UNCHANGED <<file, pos, i>>
    <3>1. \/ pc[p] = "write" /\ pc'[p] = "snd"
          \/ pc[p] = "write_last" /\ pc'[p] = "snd_close"
      BY <2>2, ResumeMove
    <3>2. Content(p)' = Content(p)
      BY <3>1, ContentStays
    <3>3. QED
      BY <1>3, <1>6, <2>2, <3>1, <3>2
  <2>3. CASE /\ pc[p] = "snd_open" /\ pc'[p] \in {"snd", "crashed"} /\ pos'[p] = 0
             /\ UNCHANGED <<file, left, pipe>>
    <3>1. Content(p)' = Content(p) /\ 0 % MaxData = 0
      BY <2>3, ContentStays, Sizes
    <3>2. QED
      BY <1>2, <1>3, <1>6, <2>3, <3>1
  <2>4. CASE pc[p] \notin ToReceive /\ UNCHANGED <<file, pos, left, pipe>>
             /\ pc'[p] \in {"killed", "rcv_open", "done"}
             /\ (pc'[p] = "killed" \/ (pc[p] = "snd_close" /\ (p = "child" => pc'[p] = "done")))
    <3>1. Content(p)' = Content(p)
      BY <2>4, ContentStays
    <3>2. QED
      BY <1>3, <1>6, <2>4, <3>1, Procs
  <2>5. CASE pc[p] \in ToReceive /\ p = "parent" /\ pos' = pos
             /\ pc'[p] \in {"rcv", "rcv_null", "crashed", "done"}
    <3>1. Content(p)' = Content(p)
      BY <2>5, ContentStays
    <3>2. QED
      BY <1>3, <1>6, <2>5, <3>1
  <2>6. CASE pc[p] \in ToReceive /\ p = "child" /\ UNCHANGED <<pos, left>> /\ pipe'[p] = pipe[p]
             /\ pc'[p] \in ToReceive \union {"crashed", "snd_open"}
    BY <1>2, <1>3, <1>6, <2>6
  <2>7. RcvRead(p) => UNCHANGED <<pos, left>> /\ pipe'[p] = pipe[p]
    BY Procs, Zenon DEF RcvRead, EchoTypeOK
  <2>8. QED
    BY <1>6, <2>1, <2>2, <2>3, <2>4, <2>5, <2>6, <2>7, Steps, Procs
<1>7. QED
  BY <1>5, <1>6
(***************************************************************************)
(* What is under way, told without the variables: no packet, one or two.   *)
(***************************************************************************)
Carries(content, at, number, bytes, end, next) ==
  LET data == DataAt(content, at)
      more == DataAt(content, at + Len(data))
  IN \/ bytes = << >> /\ end = at /\ next = number
     \/ /\ bytes = PacketOf(data, number)
        /\ end = at + Len(data) /\ next = NextNumber(number)
     \/ /\ Len(data) = MaxData
        /\ bytes = PacketOf(data, number) \o PacketOf(more, NextNumber(number))
        /\ end = at + Len(data) + Len(more) /\ next = NextNumber(NextNumber(number))

LEMMA FlightIs ==
  ASSUME NEW p \in Proc
  PROVE  InFlight(p) <=>
    LET number == Expected(Other(p))
        at == Len(Got(Other(p)))
    IN /\ at <= Len(Content(p)) /\ Got(Other(p)) = SubSeq(Content(p), 1, at)
       /\ left[p] # << >> => Len(pipe[p]) \in {0, BufSz}
       /\ pc[p] \in HasNotSent(p) => number = 1
       /\ \E next : /\ Carries(Content(p), at, number, Stream(p), pos[p], next)
                    /\ pc[p] \in Sending => i[p] = next
  BY DEF InFlight, UnderWay, Carries

(* The first packet and the content behind it.                              *)
LEMMA FirstOf ==
  ASSUME NEW content \in Seq(Byte), NEW at \in 0 .. Len(content),
         NEW number \in 0 .. Numbers - 1
  PROVE  LET data == DataAt(content, at)
             m == PacketOf(data, number)
         IN /\ m \in Seq(Byte) /\ Len(m) = Len(data) + 3 /\ Len(m) \in 3 .. BufSz
            /\ m # << >>
            /\ Len(m) = BufSz => Len(data) = MaxData
            /\ at + Len(data) \in 0 .. Len(content)
            /\ data \in Seq(Byte) /\ Len(data) \in 0 .. MaxData
            /\ NextNumber(number) \in 0 .. Numbers - 1
<1> DEFINE data == DataAt(content, at)
           m == PacketOf(data, number)
<1>1. /\ data \in Seq(Byte) /\ Len(data) \in 0 .. MaxData
      /\ at + Len(data) \in 0 .. Len(content)
  BY DataIs
<1> HIDE DEF data
<1>2. m \in Seq(Byte) /\ Len(m) = Len(data) + 3
  BY <1>1, Sizes, PacketIs
<1> HIDE DEF m
<1>3. Len(m) \in 3 .. BufSz /\ (Len(m) = BufSz => Len(data) = MaxData)
  BY <1>1, <1>2, Sizes
<1>4. m # << >>
  BY <1>3
<1>5. NextNumber(number) \in 0 .. Numbers - 1
  BY NumberIs
<1>6. /\ m \in Seq(Byte) /\ Len(m) = Len(data) + 3 /\ Len(m) \in 3 .. BufSz
      /\ m # << >>
      /\ Len(m) = BufSz => Len(data) = MaxData
      /\ at + Len(data) \in 0 .. Len(content)
      /\ data \in Seq(Byte) /\ Len(data) \in 0 .. MaxData
      /\ NextNumber(number) \in 0 .. Numbers - 1
  BY <1>1, <1>2, <1>3, <1>4, <1>5
<1>7. QED
  BY <1>6, Zenon DEF m, data

(* The stream grows by a packet while there is none, or a full one.         *)
LEMMA CarriesMore ==
  ASSUME NEW content \in Seq(Byte), NEW at \in 0 .. Len(content),
         NEW number \in 0 .. Numbers - 1, NEW bytes, NEW end, NEW next,
         Carries(content, at, number, bytes, end, next),
         Len(bytes) \in {0, BufSz}
  PROVE  /\ Carries(content, at, number, bytes \o PacketOf(DataAt(content, end), next),
                    end + Len(DataAt(content, end)), NextNumber(next))
         /\ bytes = << >> \/ end >= MaxData
<1> DEFINE data == DataAt(content, at)
           m == PacketOf(data, number)
           more == DataAt(content, at + Len(data))
           m2 == PacketOf(more, NextNumber(number))
<1>1. /\ m \in Seq(Byte) /\ Len(m) = Len(data) + 3 /\ Len(m) \in 3 .. BufSz
      /\ Len(m) = BufSz => Len(data) = MaxData
      /\ at + Len(data) \in 0 .. Len(content)
      /\ data \in Seq(Byte) /\ Len(data) \in 0 .. MaxData
      /\ NextNumber(number) \in 0 .. Numbers - 1
  BY FirstOf
<1>2. m2 \in Seq(Byte) /\ Len(m2) >= 3
  BY <1>1, FirstOf
<1>3. /\ Carries(content, at, number, << >> \o m, at + Len(data), NextNumber(number))
      /\ Len(data) = MaxData =>
           Carries(content, at, number, m \o m2, at + Len(data) + Len(more),
                   NextNumber(NextNumber(number)))
  <2>1. << >> \o m = m
    BY <1>1, ConcatEmptySeq
  <2>2. QED
    BY <2>1, Zenon DEF Carries
<1>4. CASE bytes = << >> /\ end = at /\ next = number
  BY <1>3, <1>4, Zenon
<1>5. CASE bytes = m /\ end = at + Len(data) /\ next = NextNumber(number)
  <2>1. Len(data) = MaxData
    <3> HIDE DEF m, data
    <3>1. QED
      BY <1>1, <1>5
  <2>2. end >= MaxData
    <3> HIDE DEF m, data
    <3>1. QED
      BY <1>1, <1>5, <2>1, Sizes
  <2>3. QED
    BY <1>3, <1>5, <2>1, <2>2, Zenon
<1>6. CASE Len(data) = MaxData /\ bytes = m \o m2
  <2>1. FALSE
    <3> HIDE DEF m, m2, data
    <3>1. Len(m \o m2) = Len(m) + Len(m2)
      BY <1>1, <1>2, ConcatOfBytes, Zenon
    <3>2. QED
      BY <1>1, <1>2, <1>6, <3>1, Sizes
  <2>2. QED
    BY <2>1
<1>7. QED
  BY <1>4, <1>5, <1>6, Zenon DEF Carries

(* A read takes the first packet, and no more: it gets all of it, and what  *)
(* is behind it is left.                                                    *)
LEMMA CarriesLess ==
  ASSUME NEW content \in Seq(Byte), NEW at \in 0 .. Len(content),
         NEW number \in 0 .. Numbers - 1, NEW c \in Seq(Cell), NEW l \in Seq(Byte),
         Cardinality(PagesOf(c)) <= Pages, NEW end, NEW next,
         Carries(content, at, number, Chars(c) \o l, end, next),
         c # << >>, l = << >> \/ Len(c) = BufSz
  PROVE  LET data == DataAt(content, at)
             d == SubSeq(c, BufSz + 1, Len(c))
         IN /\ Len(data) + 3 <= Len(c)
            /\ \A n \in 1 .. Len(data) + 3 : c[n][1] = PacketOf(data, number)[n]
            /\ Carries(content, at + Len(data), NextNumber(number), Chars(d) \o l, end, next)
<1> DEFINE data == DataAt(content, at)
           m == PacketOf(data, number)
           more == DataAt(content, at + Len(data))
           m2 == PacketOf(more, NextNumber(number))
           d == SubSeq(c, BufSz + 1, Len(c))
           bytes == Chars(c) \o l
<1>1. /\ m \in Seq(Byte) /\ Len(m) = Len(data) + 3 /\ Len(m) \in 3 .. BufSz
      /\ at + Len(data) \in 0 .. Len(content)
      /\ Len(data) \in 0 .. MaxData
      /\ NextNumber(number) \in 0 .. Numbers - 1
  BY FirstOf
<1>2. m2 \in Seq(Byte) /\ Len(m2) >= 3
  <2>1. m2 \in Seq(Byte) /\ Len(m2) \in 3 .. BufSz
    BY <1>1, FirstOf, Zenon
  <2> HIDE DEF m2
  <2>2. QED
    BY <2>1
<1>3. /\ Chars(c) \in Seq(Byte) /\ Len(Chars(c)) = Len(c)
      /\ \A n \in 1 .. Len(c) : Chars(c)[n] = c[n][1]
  BY CharsAre
<1>4. /\ bytes \in Seq(Byte) /\ Len(bytes) = Len(c) + Len(l)
      /\ \A n \in 1 .. Len(c) : bytes[n] = c[n][1]
      /\ \A n \in 1 .. Len(l) : bytes[Len(c) + n] = l[n]
  <2>1. /\ bytes \in Seq(Byte) /\ Len(bytes) = Len(Chars(c)) + Len(l)
        /\ \A n \in 1 .. Len(Chars(c)) + Len(l) :
             bytes[n] = IF n <= Len(Chars(c)) THEN Chars(c)[n] ELSE l[n - Len(Chars(c))]
    BY <1>3, ConcatOfBytes, Zenon
  <2> HIDE DEF bytes
  <2>2. bytes \in Seq(Byte) /\ Len(bytes) = Len(c) + Len(l)
    BY <1>3, <2>1
  <2>3. \A n \in 1 .. Len(c) : bytes[n] = c[n][1]
    BY <1>3, <2>1
  <2>4. \A n \in 1 .. Len(l) : bytes[Len(c) + n] = l[n]
    BY <1>3, <2>1
  <2>5. QED
    BY <2>2, <2>3, <2>4
<1>5. /\ d \in Seq(Cell)
      /\ Len(c) <= BufSz => d = << >>
      /\ Len(c) > BufSz => Len(d) = Len(c) - BufSz
      /\ \A n \in 1 .. Len(d) : BufSz + n \in 1 .. Len(c) /\ d[n] = c[BufSz + n]
  BY ReadLeaves
<1>6. Len(c) > 0 /\ Len(c) \in Nat /\ Len(l) \in Nat /\ BufSz \in Nat /\ BufSz = MaxData + 3
  BY Sizes
<1>7. /\ Chars(d) \in Seq(Byte) /\ Len(Chars(d)) = Len(d)
      /\ \A n \in 1 .. Len(d) : Chars(d)[n] = d[n][1]
      /\ Chars(d) = << >> <=> d = << >>
  BY <1>5, CharsAre
<1>8. CASE bytes = << >> /\ end = at /\ next = number
  <2> HIDE DEF bytes, m, m2, data
  <2>1. FALSE
    BY <1>4, <1>6, <1>8
  <2>2. QED
    BY <2>1
<1>9. CASE bytes = m /\ end = at + Len(data) /\ next = NextNumber(number)
  <2>1. l = << >> /\ Len(c) = Len(m) /\ \A n \in 1 .. Len(m) : c[n][1] = m[n]
    <3> HIDE DEF bytes, m, m2, data
    <3>1. l = << >> /\ Len(c) = Len(m)
      BY <1>1, <1>4, <1>6, <1>9
    <3>2. \A n \in 1 .. Len(m) : c[n][1] = m[n]
      BY <1>4, <1>9, <3>1
    <3>3. QED
      BY <3>1, <3>2
  <2>2. Chars(d) \o l = << >>
    <3> HIDE DEF m, data, d
    <3>1. d = << >>
      BY <1>1, <1>5, <1>6, <2>1
    <3>2. Chars(d) = << >>
      BY <1>7, <3>1
    <3>3. QED
      BY <2>1, <3>2
  <2>3. Carries(content, at + Len(data), NextNumber(number), << >>, end, next)
    BY <1>9, Zenon DEF Carries
  <2>4. /\ Len(data) + 3 <= Len(c)
        /\ \A n \in 1 .. Len(data) + 3 : c[n][1] = m[n]
    <3> HIDE DEF m, data
    <3>1. QED
      BY <1>1, <1>6, <2>1
  <2>5. QED
    BY <2>2, <2>3, <2>4, Zenon
<1>10. CASE /\ Len(data) = MaxData /\ bytes = m \o m2
            /\ end = at + Len(data) + Len(more) /\ next = NextNumber(NextNumber(number))
  <2>1. /\ Len(bytes) = Len(m) + Len(m2)
        /\ \A n \in 1 .. Len(m) + Len(m2) : bytes[n] = IF n <= Len(m) THEN m[n] ELSE m2[n - Len(m)]
    <3> HIDE DEF bytes, m, m2, data
    <3>1. QED
      BY <1>1, <1>2, <1>10, ConcatOfBytes, Zenon
  <2>2. /\ Len(m) = BufSz /\ Len(c) >= BufSz
        /\ \A n \in 1 .. BufSz : bytes[n] = m[n]
        /\ \A n \in 1 .. Len(m2) : bytes[BufSz + n] = m2[n]
        /\ Len(c) + Len(l) = BufSz + Len(m2)
    <3> HIDE DEF bytes, m, m2, data
    <3>1. Len(m) = BufSz /\ Len(c) + Len(l) = BufSz + Len(m2) /\ Len(m2) \in Nat
      BY <1>1, <1>2, <1>4, <1>6, <1>10, <2>1
    <3>2. Len(c) >= BufSz
      BY <1>2, <1>6, <3>1
    <3>3. \A n \in 1 .. BufSz : bytes[n] = m[n]
      BY <1>6, <2>1, <3>1
    <3>4. \A n \in 1 .. Len(m2) : bytes[BufSz + n] = m2[n]
      BY <1>6, <2>1, <3>1
    <3>5. QED
      BY <3>1, <3>2, <3>3, <3>4
  <2>3. Chars(d) \o l = m2
    <3> HIDE DEF bytes, m, m2, data, d
    <3>1. CASE l = << >>
      <4>1. Len(c) > BufSz /\ Len(d) = Len(m2)
        BY <1>2, <1>5, <1>6, <2>2, <3>1
      <4>2. Chars(d) \in Seq(Byte) /\ Len(Chars(d)) = Len(m2)
        BY <1>7, <4>1
      <4>3. ASSUME NEW n \in 1 .. Len(m2) PROVE Chars(d)[n] = m2[n]
        <5>1. Chars(d)[n] = d[n][1] /\ d[n] = c[BufSz + n] /\ BufSz + n \in 1 .. Len(c)
          BY <1>5, <1>7, <4>1
        <5>2. QED
          BY <1>4, <2>2, <5>1
      <4>4. Chars(d) = m2
        BY <1>2, <4>2, <4>3, SeqEqual
      <4>5. QED
        BY <1>7, <3>1, <4>4, ConcatEmptySeq
    <3>2. CASE Len(c) = BufSz
      <4>1. d = << >> /\ Len(l) = Len(m2)
        BY <1>2, <1>5, <1>6, <2>2, <3>2
      <4>2. \A n \in 1 .. Len(m2) : l[n] = m2[n]
        BY <1>4, <2>2, <3>2, <4>1
      <4>3. l = m2
        BY <1>2, <4>1, <4>2, SeqEqual
      <4>4. Chars(d) = << >>
        BY <1>7, <4>1
      <4>5. QED
        BY <1>2, <4>3, <4>4, ConcatEmptySeq
    <3>3. QED
      BY <3>1, <3>2
  <2>4. Carries(content, at + Len(data), NextNumber(number), m2, end, next)
    BY <1>10, Zenon DEF Carries
  <2>5. /\ Len(data) + 3 <= Len(c)
        /\ \A n \in 1 .. Len(data) + 3 : c[n][1] = m[n]
    <3> HIDE DEF bytes, m, m2, data
    <3>1. Len(data) + 3 = BufSz
      BY <1>1, <1>6, <2>2
    <3>2. ASSUME NEW n \in 1 .. BufSz PROVE c[n][1] = m[n]
      <4>1. n \in 1 .. Len(c)
        BY <1>6, <2>2
      <4>2. QED
        BY <1>4, <2>2, <4>1
    <3>3. QED
      BY <2>2, <3>1, <3>2
  <2>6. QED
    BY <2>3, <2>4, <2>5, Zenon
<1>11. QED
  <2>1. \/ bytes = << >> /\ end = at /\ next = number
        \/ bytes = m /\ end = at + Len(data) /\ next = NextNumber(number)
        \/ /\ Len(data) = MaxData /\ bytes = m \o m2
           /\ end = at + Len(data) + Len(more) /\ next = NextNumber(NextNumber(number))
    BY Zenon DEF Carries
  <2>2. QED
    BY <1>8, <1>9, <1>10, <2>1, Zenon

(* A packet in the buffer is the one that is waited for, and its data is    *)
(* what is written.                                                         *)
LEMMA PacketWritten ==
  ASSUME NEW b \in [1 .. BufSz -> Byte], NEW data \in Seq(Byte), Len(data) \in 0 .. MaxData,
         NEW number \in 0 .. Numbers - 1, NEW beyond \in Byte,
         \A n \in 1 .. Len(data) + 3 : b[n] = PacketOf(data, number)[n]
  PROVE  Awaited(b, number) /\ Written(b, beyond) = data
<1>1. /\ PacketOf(data, number)[1] = number
      /\ PacketOf(data, number)[2] = num_pcg(Len(data))
      /\ PacketOf(data, number)[3] = num_l_pcg(Len(data))
      /\ \A n \in 1 .. Len(data) : PacketOf(data, number)[n + 3] = data[n]
  BY PacketIs
<1>2. /\ b[1] = number /\ b[2] = num_pcg(Len(data)) /\ b[3] = num_l_pcg(Len(data))
      /\ \A n \in 1 .. Len(data) : b[n + 3] = data[n]
  BY <1>1
<1>3. length(b) = Len(data)
  BY <1>2, HeaderIs DEF length
<1>4. /\ Written(b, beyond) \in Seq(Byte) /\ Len(Written(b, beyond)) = Len(data)
  BY <1>3, WrittenIs
<1>5. ASSUME NEW n \in 1 .. Len(data) PROVE Written(b, beyond)[n] = data[n]
  BY <1>2, <1>3, Sizes DEF Written
<1>6. Written(b, beyond) = data
  BY <1>4, <1>5, SeqEqual
<1>7. QED
  BY <1>2, <1>6 DEF Awaited

(* A front of the content and the data behind it.                           *)
LEMMA FrontGrows ==
  ASSUME NEW content \in Seq(Byte), NEW at \in 0 .. Len(content)
  PROVE  LET data == DataAt(content, at)
             front == SubSeq(content, 1, at)
         IN /\ front \in Seq(Byte) /\ Len(front) = at
            /\ front \o data = SubSeq(content, 1, at + Len(data))
            /\ Len(front \o data) = at + Len(data)
<1> DEFINE data == DataAt(content, at)
           front == SubSeq(content, 1, at)
           longer == SubSeq(content, 1, at + Len(data))
<1>1. /\ data \in Seq(Byte) /\ Len(data) \in Nat
      /\ at + Len(data) \in 0 .. Len(content)
      /\ \A n \in 1 .. Len(data) : data[n] = content[at + n]
  BY DataIs
<1> HIDE DEF data
<1>2. /\ front \in Seq(Byte) /\ Len(front) = at
      /\ \A n \in 1 .. at : front[n] = content[n]
  OBVIOUS
<1>3. /\ longer \in Seq(Byte) /\ Len(longer) = at + Len(data)
      /\ \A n \in 1 .. at + Len(data) : longer[n] = content[n]
  BY <1>1
<1> HIDE DEF front, longer
<1>4. /\ front \o data \in Seq(Byte) /\ Len(front \o data) = Len(front) + Len(data)
      /\ \A n \in 1 .. Len(front) + Len(data) :
           (front \o data)[n] = IF n <= Len(front) THEN front[n] ELSE data[n - Len(front)]
  BY <1>1, <1>2, ConcatOfBytes, Zenon
<1> DEFINE both == front \o data
<1> HIDE DEF both
<1>5. both \in Seq(Byte) /\ Len(both) = at + Len(data)
  BY <1>2, <1>4 DEF both
<1>6. ASSUME NEW n \in 1 .. at + Len(data) PROVE both[n] = longer[n]
  <2>1. both[n] = IF n <= at THEN front[n] ELSE data[n - at]
    BY <1>2, <1>4 DEF both
  <2>2. longer[n] = content[n]
    BY <1>3
  <2>3. CASE n <= at
    BY <1>2, <2>1, <2>2, <2>3
  <2>4. CASE n > at
    <3>1. n - at \in 1 .. Len(data) /\ at + (n - at) = n
      BY <1>1, <2>4
    <3>2. data[n - at] = content[n]
      BY <1>1, <3>1
    <3>3. both[n] = data[n - at]
      BY <2>1, <2>4
    <3>4. QED
      BY <2>2, <3>2, <3>3
  <2>5. QED
    BY <2>3, <2>4
<1>7. both = longer
  BY <1>3, <1>5, <1>6, SeqEqual
<1>8. QED
  BY <1>2, <1>5, <1>7, Zenon DEF both, longer, front, data

(* A content that is sent in whole packets and a last one that is not full. *)
LEMMA LastLength ==
  ASSUME NEW size \in Nat, NEW at \in Nat, NEW rest \in Nat,
         at % MaxData = 0, at + rest = size, rest < MaxData
  PROVE  size % MaxData = rest
<1>1. /\ at \div MaxData \in Int /\ at \div MaxData >= 0
      /\ at = (at \div MaxData) * MaxData + (at % MaxData)
  BY Sizes, Division
<1>2. ((at \div MaxData) * MaxData + rest) % MaxData = rest
  BY <1>1, Sizes, QuotientIs, SMTT(30)
<1>3. QED
  <2> DEFINE q == (at \div MaxData) * MaxData
  <2>1. at = q + 0 /\ q \in Int
    BY <1>1, Sizes
  <2> HIDE DEF q
  <2>2. size = q + rest
    BY <2>1
  <2>3. (q + rest) % MaxData = rest
    BY <1>2 DEF q
  <2>4. QED
    BY <2>2, <2>3

(* What waits for a page waits behind a whole packet, or the content splits.*)
LEMMA WaitsWhole ==
  ASSUME EchoTypeOK, NEW p \in Proc, PosKept(p), LayoutKept(p), SndPacket(p),
         pipe[p] = << >> \/ pos[p] >= MaxData, ~ Splits(Content(p))
  PROVE  left'[p] # << >> => Len(pipe'[p]) \in {0, BufSz}
<1> DEFINE m == Packet(p)
           k == Len(pipe'[p]) - Len(pipe[p])
<1>1. SUFFICES ASSUME left'[p] # << >> PROVE Len(pipe'[p]) \in {0, BufSz}
  OBVIOUS
<1>2. /\ Len(pipe[p]) = BufSz /\ k \in Nat
      /\ k # 0 => /\ k \in 1 .. PageSz - 1 /\ k = Len(m) % PageSz
                  /\ Odd + k <= PageSz /\ Len(m) < BufSz
      /\ k # 0 /\ Len(m) <= PageSz => left'[p] = << >>
      /\ pipe'[p] \in Seq(Cell)
  BY <1>1, PacketWrite
<1>3. /\ Len(m) = last_sym(p) + 3 /\ last_sym(p) \in 0 .. MaxData
      /\ Len(m) < BufSz => /\ last_sym(p) < MaxData
                           /\ pos[p] + last_sym(p) = Len(Content(p))
      /\ pos[p] \in Nat /\ Len(Content(p)) \in Nat
  <2>1. pc[p] = "snd"
    BY DEF SndPacket, Goes
  <2>2. QED
    BY <2>1, SenderFacts, Contents
<1>4. pos[p] % MaxData = 0
  BY DEF PosKept, SndPacket, Goes
<1> HIDE DEF m
<1>5. CASE k = 0
  BY <1>2, <1>5, Cells
<1>6. CASE k # 0
  <2>1. /\ last_sym(p) < MaxData /\ pos[p] + last_sym(p) = Len(Content(p))
        /\ Len(m) > PageSz /\ Len(m) \in Nat
    BY <1>1, <1>2, <1>3, <1>6, Sizes
  <2>2. Len(Content(p)) % MaxData = last_sym(p)
    BY <1>3, <1>4, <2>1, LastLength
  <2>3. pos[p] >= MaxData
    <3>1. BufSz # 0
      BY Sizes
    <3>2. Len(<< >>) = 0
      OBVIOUS
    <3>3. QED
      BY <1>2, <3>1, <3>2
  <2>4. Len(Content(p)) >= MaxData
    BY <1>3, <2>1, <2>3, Sizes
  <2>5. (Len(m) % PageSz) \in 1 .. PageSz - Odd
    <3>1. Odd \in Nat /\ PageSz \in Nat
      BY Layout
    <3>2. k \in 1 .. PageSz - Odd /\ k = Len(m) % PageSz
      <4> HIDE DEF k
      <4>1. QED
        BY <1>2, <1>6, <3>1
    <3>3. QED
      BY <3>2
  <2>6. Splits(Content(p))
    BY <1>3, <2>1, <2>2, <2>4, <2>5 DEF Splits, Odd
  <2>7. QED
    BY <2>6
<1>7. QED
  BY <1>5, <1>6

LEMMA FlightNext ==
  ASSUME NEW p \in Proc, NEW next,
         Len(Got(Other(p))') <= Len(Content(p)'),
         Got(Other(p))' = SubSeq(Content(p)', 1, Len(Got(Other(p))')),
         left'[p] # << >> => Len(pipe'[p]) \in {0, BufSz},
         pc'[p] \in HasNotSent(p) => Expected(Other(p))' = 1,
         Carries(Content(p)', Len(Got(Other(p))'), Expected(Other(p))', Stream(p)', pos'[p], next),
         pc'[p] \in Sending => i'[p] = next
  PROVE  InFlight(p)'
  BY DEF InFlight, UnderWay, Carries

(* The receiver's part.                                                     *)
LEMMA ReceiverHas ==
  ASSUME EchoTypeOK, NEW o \in Proc
  PROVE  /\ Got(o) \in Seq(Byte) /\ Len(Got(o)) \in Nat
         /\ Expected(o) \in 0 .. Numbers - 1
<1>1. /\ file[o] \in Seq(Byte) /\ i[o] \in 0 .. Numbers - 1
  BY DEF EchoTypeOK
<1>2. Got(o) \in Seq(Byte)
  BY <1>1 DEF Got
<1>3. Expected(o) \in 0 .. Numbers - 1
  BY <1>1, Sizes DEF Expected
<1>4. QED
  BY <1>2, <1>3, LenProperties

LEMMA ReceiverStays ==
  ASSUME EchoTypeOK, NEW o \in Proc, pc'[o] = pc[o], file'[o] = file[o], i'[o] = i[o]
  PROVE  Got(o)' = Got(o) /\ Expected(o)' = Expected(o)
  BY DEF Got, Expected

(* What is under way does not change when only places change.               *)
LEMMA FlightStays ==
  ASSUME EchoTypeOK, NEW p \in Proc, InFlight(p),
         Got(Other(p))' = Got(Other(p)), Expected(Other(p))' = Expected(Other(p)),
         Content(p)' = Content(p), pipe'[p] = pipe[p], left'[p] = left[p], pos'[p] = pos[p],
         pc'[p] \in HasNotSent(p) => pc[p] \in HasNotSent(p),
         pc'[p] \in Sending => pc[p] \in Sending /\ i'[p] = i[p]
  PROVE  InFlight(p)'
<1>1. Stream(p)' = Stream(p)
  BY DEF Stream
<1>2. PICK next : /\ Carries(Content(p), Len(Got(Other(p))), Expected(Other(p)), Stream(p),
                             pos[p], next)
                  /\ pc[p] \in Sending => i[p] = next
  BY FlightIs
<1>3. /\ Len(Got(Other(p))) <= Len(Content(p))
      /\ Got(Other(p)) = SubSeq(Content(p), 1, Len(Got(Other(p))))
      /\ left[p] # << >> => Len(pipe[p]) \in {0, BufSz}
      /\ pc[p] \in HasNotSent(p) => Expected(Other(p)) = 1
  BY FlightIs
<1>4. QED
  BY <1>1, <1>2, <1>3, FlightNext

LEMMA StreamIs ==
  ASSUME EchoTypeOK, NEW p \in Proc
  PROVE  /\ Stream(p) = Chars(pipe[p]) \o left[p]
         /\ Stream(p) = << >> => pipe[p] = << >> /\ left[p] = << >>
         /\ pipe[p] = << >> /\ left[p] = << >> => Stream(p) = << >>
         /\ left[p] = << >> => Len(Stream(p)) = Len(pipe[p])
<1>1. Stream(p) = Chars(pipe[p]) \o left[p]
  BY DEF Stream, Chars
<1>2. pipe[p] \in Seq(Cell) /\ left[p] \in Seq(Byte)
  BY Contents
<1>3. /\ Chars(pipe[p]) \in Seq(Byte) /\ Len(Chars(pipe[p])) = Len(pipe[p])
      /\ Chars(pipe[p]) = << >> <=> pipe[p] = << >>
  BY <1>2, CharsAre
<1>4. Len(Chars(pipe[p]) \o left[p]) = Len(Chars(pipe[p])) + Len(left[p])
  BY <1>2, <1>3, ConcatOfBytes, Zenon
<1>5. Len(Stream(p)) = Len(pipe[p]) + Len(left[p])
  BY <1>1, <1>3, <1>4
<1>6. Len(pipe[p]) \in Nat /\ Len(left[p]) \in Nat /\ Len(<< >>) = 0
  BY <1>2, LenProperties
<1>7. Stream(p) = << >> => pipe[p] = << >> /\ left[p] = << >>
  <2>1. SUFFICES ASSUME Len(Stream(p)) = 0 PROVE pipe[p] = << >> /\ left[p] = << >>
    BY <1>6
  <2>2. Len(pipe[p]) = 0 /\ Len(left[p]) = 0
    <3>1. \A a, b \in Nat : a + b = 0 => a = 0 /\ b = 0
      OBVIOUS
    <3>2. Len(pipe[p]) + Len(left[p]) = 0
      BY <1>5, <2>1, Zenon
    <3>3. QED
      BY <1>6, <3>1, <3>2, Zenon
  <2>3. QED
    BY <1>2, <2>2, EmptySeq
<1>8. left[p] = << >> => Len(Stream(p)) = Len(pipe[p])
  BY <1>5, <1>6
<1>9. ASSUME pipe[p] = << >>, left[p] = << >> PROVE Stream(p) = << >>
  <2>1. Chars(pipe[p]) = << >>
    BY <1>3, <1>9
  <2>2. << >> \o << >> = << >>
    OBVIOUS
  <2>3. QED
    BY <1>1, <1>9, <2>1, <2>2
<1>10. QED
  BY <1>1, <1>7, <1>8, <1>9

(* Nothing is under way: the receiver is where the sender is.               *)
LEMMA NothingUnderWay ==
  ASSUME EchoTypeOK, NEW p \in Proc, InFlight(p), pipe[p] = << >>, left[p] = << >>
  PROVE  /\ Len(Got(Other(p))) = pos[p]
         /\ pc[p] \in Sending => i[p] = Expected(Other(p))
<1> DEFINE number == Expected(Other(p))
           at == Len(Got(Other(p)))
<1>1. PICK next : /\ Carries(Content(p), at, number, Stream(p), pos[p], next)
                  /\ pc[p] \in Sending => i[p] = next
  BY FlightIs
<1>2. Stream(p) = << >>
  BY StreamIs
<1>3. at \in 0 .. Len(Content(p)) /\ number \in 0 .. Numbers - 1 /\ Content(p) \in Seq(Byte)
  BY ReceiverHas, Contents, FlightIs
<1> HIDE DEF number, at
<1> DEFINE data == DataAt(Content(p), at)
           m == PacketOf(data, number)
           more == DataAt(Content(p), at + Len(data))
           m2 == PacketOf(more, NextNumber(number))
<1>4. /\ m # << >> /\ m \in Seq(Byte) /\ at + Len(data) \in 0 .. Len(Content(p))
      /\ NextNumber(number) \in 0 .. Numbers - 1 /\ Len(m) \in 3 .. BufSz
  BY <1>3, FirstOf
<1>5. m2 \in Seq(Byte) /\ Len(m2) \in 3 .. BufSz
  BY <1>3, <1>4, FirstOf, Zenon
<1>6. m \o m2 # << >>
  <2> HIDE DEF m, m2
  <2>1. Len(m \o m2) = Len(m) + Len(m2)
    BY <1>4, <1>5, ConcatOfBytes, Zenon
  <2>2. QED
    BY <1>4, <1>5, <2>1
<1>7. pos[p] = at /\ next = number
  BY <1>1, <1>2, <1>4, <1>6, Zenon DEF Carries
<1>8. QED
  BY <1>1, <1>7 DEF at, number

(* A packet more.                                                           *)
LEMMA PacketFlight ==
  ASSUME EchoTypeOK, NEW p \in Proc, PosKept(p), LayoutKept(p), SndPacket(p), InFlight(p),
         ~ Splits(Content(p)), Content(p)' = Content(p),
         Got(Other(p))' = Got(Other(p)), Expected(Other(p))' = Expected(Other(p))
  PROVE  InFlight(p)'
<1> DEFINE content == Content(p)
           at == Len(Got(Other(p)))
           number == Expected(Other(p))
           m == Packet(p)
<1>1. /\ pc[p] = "snd" /\ pc[p] \in Sending
      /\ left[p] = << >> /\ Len(pipe[p]) \in {0, BufSz}
  BY DEF LayoutKept, SndPacket, Goes, Sending
<1>2. /\ Carries(content, at, number, Stream(p), pos[p], i[p])
      /\ at <= Len(content) /\ Got(Other(p)) = SubSeq(content, 1, at)
  BY <1>1, FlightIs
<1>3. /\ content \in Seq(Byte) /\ at \in 0 .. Len(content) /\ number \in 0 .. Numbers - 1
      /\ pipe[p] \in Seq(Cell)
  BY <1>2, ReceiverHas, Contents
<1>4. /\ Stream(p) = Chars(pipe[p]) \o << >> /\ Len(Stream(p)) \in {0, BufSz}
      /\ Stream(p) = << >> => pipe[p] = << >>
  BY <1>1, StreamIs
<1>5. Stream(p) = Chars(pipe[p])
  BY <1>3, <1>4, CharsAre, ConcatEmptySeq
<1>6. /\ m = PacketOf(DataAt(content, pos[p]), i[p])
      /\ last_sym(p) = Len(DataAt(content, pos[p]))
  BY <1>1, SenderFacts
<1>7. Stream(p)' = Stream(p) \o m
  <2>1. Chars(pipe'[p]) \o left'[p] = Chars(pipe[p]) \o m
    BY PacketWrite
  <2>2. Stream(p)' = Chars(pipe'[p]) \o left'[p]
    BY DEF Stream, Chars
  <2>3. QED
    BY <1>5, <2>1, <2>2
<1>8. /\ pos'[p] = pos[p] + Len(DataAt(content, pos[p])) /\ i'[p] = NextNumber(i[p])
      /\ pc'[p] \notin HasNotSent(p)
  <2>1. /\ pos'[p] = pos[p] + last_sym(p) /\ i'[p] = NextNumber(i[p])
        /\ pc'[p] \in {"snd", "write", "write_last", "snd_close"}
    BY PacketMove
  <2>2. QED
    BY <1>6, <2>1 DEF HasNotSent, ToReceive
<1> HIDE DEF content, at, number, m
<1>9. /\ Carries(content, at, number, Stream(p) \o PacketOf(DataAt(content, pos[p]), i[p]),
                 pos[p] + Len(DataAt(content, pos[p])), NextNumber(i[p]))
      /\ Stream(p) = << >> \/ pos[p] >= MaxData
  BY <1>2, <1>3, <1>4, CarriesMore
<1>10. left'[p] # << >> => Len(pipe'[p]) \in {0, BufSz}
  BY <1>4, <1>9, WaitsWhole
<1>11. Carries(content, at, number, Stream(p)', pos'[p], i'[p])
  BY <1>6, <1>7, <1>8, <1>9
<1>12. QED
  BY <1>2, <1>8, <1>10, <1>11, FlightNext DEF content, at, number

(* The rest of a packet.                                                    *)
LEMMA ResumeFlight ==
  ASSUME EchoTypeOK, NEW p \in Proc, LayoutKept(p), NEW last \in BOOLEAN, SndResume(p, last),
         InFlight(p), Content(p)' = Content(p),
         Got(Other(p))' = Got(Other(p)), Expected(Other(p))' = Expected(Other(p))
  PROVE  InFlight(p)'
<1>1. /\ left'[p] = << >> /\ pos'[p] = pos[p] /\ i'[p] = i[p]
      /\ Chars(pipe'[p]) \o << >> = Chars(pipe[p]) \o left[p]
  BY ResumeWrite DEF SndResume
<1>2. pc[p] \in {"write", "write_last"} /\ pc'[p] \in {"snd", "snd_close"}
  BY ResumeMove
<1>3. Stream(p)' = Stream(p)
  <2>1. Stream(p)' = Chars(pipe'[p]) \o left'[p]
    BY DEF Stream, Chars
  <2>2. QED
    BY <1>1, <2>1, StreamIs
<1>4. pc[p] \in Sending /\ pc'[p] \notin HasNotSent(p)
  BY <1>2 DEF Sending, HasNotSent, ToReceive
<1>5. /\ Carries(Content(p), Len(Got(Other(p))), Expected(Other(p)), Stream(p), pos[p], i[p])
      /\ Len(Got(Other(p))) <= Len(Content(p))
      /\ Got(Other(p)) = SubSeq(Content(p), 1, Len(Got(Other(p))))
  BY <1>4, FlightIs
<1>6. QED
  BY <1>1, <1>3, <1>4, <1>5, FlightNext

(* The sender, when it has not sent anything, is where the receiver is,     *)
(* whatever it does with its own file meanwhile.                            *)
LEMMA UnsentFlight ==
  ASSUME EchoTypeOK, EchoTypeOK', NEW p \in Proc, PosKept(p), InFlight(p),
         pc[p] \in HasNotSent(p),
         Got(Other(p))' = Got(Other(p)), Expected(Other(p))' = Expected(Other(p)),
         pipe'[p] = pipe[p], left'[p] = left[p], pos'[p] = 0,
         pc'[p] \in Sending => i'[p] = 1
  PROVE  InFlight(p)'
<1>1. pos[p] = 0 /\ pipe[p] = << >> /\ left[p] = << >> /\ Expected(Other(p)) = 1
  BY FlightIs DEF PosKept
<1>2. Len(Got(Other(p))) = 0 /\ Got(Other(p)) = << >>
  <2>1. Len(Got(Other(p))) = 0
    BY <1>1, NothingUnderWay
  <2>2. Got(Other(p)) \in Seq(Byte)
    BY Procs, ReceiverHas
  <2>3. QED
    BY <2>1, <2>2, EmptySeq
<1>3. Stream(p) = << >>
  BY <1>1, StreamIs
<1>4. Stream(p)' = Stream(p)
  BY DEF Stream
<1>5. Carries(Content(p)', 0, 1, << >>, 0, 1)
  BY Zenon DEF Carries
<1>6. 0 <= Len(Content(p)') /\ << >> = SubSeq(Content(p)', 1, 0)
  <2>1. orig' \in Seq(Byte) /\ file'["child"] \in Seq(Byte)
    BY SourcesAssumption, Procs DEF EchoTypeOK
  <2>2. Content(p)' \in Seq(Byte)
    BY <2>1 DEF Content
  <2>3. QED
    BY <2>2
<1>7. QED
  BY <1>1, <1>2, <1>3, <1>4, <1>5, <1>6, FlightNext

(* A read takes a packet, and the receiver writes its data.                 *)
LEMMA ReadFlight ==
  ASSUME EchoTypeOK, NEW p \in Proc, NEW o \in Proc, p = Other(o), RcvRead(p), InFlight(o),
         PosKept(o), Content(o)' = Content(o), pc'[o] = pc[o], i'[o] = i[o]
  PROVE  InFlight(o)'
<1> DEFINE content == Content(o)
           at == Len(Got(p))
           number == Expected(p)
           c == pipe[o]
           l == left[o]
           d == SubSeq(c, BufSz + 1, Len(c))
           data == DataAt(content, at)
           b == Filled(p)
<1>1. /\ pc[p] = "rcv" /\ pc'[p] = "rcv" /\ c # << >>
      /\ pipe'[o] = d /\ left'[o] = l /\ pos'[o] = pos[o]
      /\ o = Other(p)
  BY Procs DEF RcvRead, Goes, EchoTypeOK
<1>2. PICK next : /\ Carries(content, at, number, Stream(o), pos[o], next)
                  /\ pc[o] \in Sending => i[o] = next
  BY FlightIs
<1>3. /\ at <= Len(content) /\ Got(p) = SubSeq(content, 1, at)
      /\ l # << >> => Len(c) \in {0, BufSz}
  BY FlightIs
<1>4. /\ content \in Seq(Byte) /\ at \in 0 .. Len(content) /\ number \in 0 .. Numbers - 1
      /\ c \in Seq(Cell) /\ l \in Seq(Byte) /\ Cardinality(PagesOf(c)) <= Pages
  BY <1>3, ReceiverHas, Contents
<1>5. /\ number = i[p] /\ Got(p) = file[p]
  BY <1>1 DEF Expected, Got
<1>6. Stream(o) = Chars(c) \o l
  BY StreamIs
<1>7. l = << >> \/ Len(c) = BufSz
  <2>1. Len(c) # 0
    BY <1>1, <1>4, EmptySeq
  <2>2. QED
    BY <1>3, <2>1
<1>8. pc[o] \notin HasNotSent(o)
  BY <1>1 DEF PosKept
<1>9. b \in [1 .. BufSz -> Byte]
  BY FilledIs
<1>10. /\ data \in Seq(Byte) /\ Len(data) \in 0 .. MaxData
       /\ at + Len(data) \in 0 .. Len(content)
  BY <1>4, DataIs
<1>11. \A n \in 1 .. BufSz : n <= Len(c) => b[n] = c[n][1]
  BY <1>1 DEF Filled
<1> HIDE DEF content, at, number, c, l, data, b, d
<1>12. /\ Len(data) + 3 <= Len(c)
       /\ \A n \in 1 .. Len(data) + 3 : c[n][1] = PacketOf(data, number)[n]
       /\ Carries(content, at + Len(data), NextNumber(number), Chars(d) \o l, pos[o], next)
  <2>1. Carries(content, at, number, Chars(c) \o l, pos[o], next)
    BY <1>2, <1>6
  <2>2. c # << >>
    BY <1>1
  <2>3. QED
    BY <1>4, <1>7, <2>1, <2>2, CarriesLess DEF data, d
<1>13. \A n \in 1 .. Len(data) + 3 : b[n] = PacketOf(data, number)[n]
  <2>1. ASSUME NEW n \in 1 .. Len(data) + 3 PROVE b[n] = c[n][1]
    <3>1. n \in 1 .. BufSz /\ n <= Len(c)
      BY <1>4, <1>10, <1>12, Sizes, Cells
    <3>2. QED
      BY <1>11, <3>1
  <2>2. QED
    BY <1>12, <2>1
<1>14. /\ Awaited(b, number)
       /\ \A beyond \in Byte : Written(b, beyond) = data
  <2>1. 0 \in Byte
    BY Sizes DEF Byte
  <2>2. QED
    BY <1>4, <1>9, <1>10, <1>13, <2>1, PacketWritten
<1>15. i'[p] = NextNumber(number) /\ file'[p] = Got(p) \o data
  <2>1. Awaited(b, i[p])
    BY <1>5, <1>14
  <2>2. /\ i' = [i EXCEPT ![p] = NextNumber(i[p])]
        /\ \E beyond \in Byte : file' = [file EXCEPT ![p] = file[p] \o Written(b, beyond)]
    BY <2>1 DEF RcvRead, b
  <2>3. PICK beyond \in Byte : file' = [file EXCEPT ![p] = file[p] \o Written(b, beyond)]
    BY <2>2
  <2>4. Written(b, beyond) = data
    BY <1>14
  <2>5. QED
    BY <1>5, <2>2, <2>3, <2>4 DEF EchoTypeOK
<1>16. /\ Got(p)' = SubSeq(content, 1, at + Len(data)) /\ Len(Got(p)') = at + Len(data)
       /\ Expected(p)' = NextNumber(number)
  <2>1. Got(p)' = Got(p) \o data /\ Expected(p)' = NextNumber(number)
    BY <1>1, <1>15 DEF Got, Expected
  <2>2. /\ SubSeq(content, 1, at) \o data = SubSeq(content, 1, at + Len(data))
        /\ Len(SubSeq(content, 1, at) \o data) = at + Len(data)
    BY <1>4, FrontGrows DEF data
  <2>3. QED
    BY <1>3, <2>1, <2>2
<1>17. Stream(o)' = Chars(d) \o l
  <2>1. Stream(o)' = Chars(pipe'[o]) \o left'[o]
    BY DEF Stream, Chars
  <2>2. QED
    BY <1>1, <2>1
<1>18. left'[o] # << >> => Len(pipe'[o]) \in {0, BufSz}
  <2>1. Len(c) <= BufSz => d = << >>
    BY <1>4, ReadLeaves DEF d
  <2>2. l # << >> => d = << >>
    BY <1>4, <1>7, <2>1, Cells, Sizes
  <2>3. QED
    BY <1>1, <2>2
<1>19. Carries(content, at + Len(data), NextNumber(number), Stream(o)', pos'[o], next)
  BY <1>1, <1>12, <1>17
<1>20. /\ Len(Got(Other(o))') <= Len(Content(o)')
       /\ Got(Other(o))' = SubSeq(Content(o)', 1, Len(Got(Other(o))'))
       /\ pc'[o] \in HasNotSent(o) => Expected(Other(o))' = 1
       /\ Carries(Content(o)', Len(Got(Other(o))'), Expected(Other(o))', Stream(o)', pos'[o], next)
       /\ pc'[o] \in Sending => i'[o] = next
  <2>1. at + Len(data) <= Len(content)
    BY <1>4, <1>10
  <2>2. content = Content(o)
    BY DEF content
  <2>3. QED
    BY <1>2, <1>8, <1>16, <1>19, <2>1, <2>2
<1>21. QED
  BY <1>18, <1>20, FlightNext

(* The sender's step while somebody receives, or will.                      *)
LEMMA SenderFlight ==
  ASSUME EchoTypeOK, EchoTypeOK', NEW p \in Proc, Process(p), LayoutKept(p), PosKept(p),
         InFlight(p), pc[p] \in Sending => ~ Splits(Content(p))
  PROVE  InFlight(p)'
<1>1. /\ Got(Other(p))' = Got(Other(p)) /\ Expected(Other(p))' = Expected(Other(p))
  <2>1. Other(p) \in Proc /\ Other(p) # p
    BY Procs
  <2>2. /\ pc'[Other(p)] = pc[Other(p)] /\ file'[Other(p)] = file[Other(p)]
        /\ i'[Other(p)] = i[Other(p)]
    BY <2>1, OtherStays
  <2>3. QED
    BY <2>1, <2>2, ReceiverStays
<1>2. pc[p] \notin ToReceive \/ p = "parent" => Content(p)' = Content(p)
  BY ContentStays
<1>3. CASE /\ pc[p] = "snd_open" /\ pc'[p] \in {"snd", "crashed"} /\ pos'[p] = 0
           /\ i'[p] = 1 /\ UNCHANGED <<file, left, pipe>>
  <2>1. pc[p] \in HasNotSent(p)
    BY <1>3 DEF HasNotSent
  <2>2. QED
    BY <1>1, <1>3, <2>1, UnsentFlight
<1>4. CASE SndPacket(p) /\ pc[p] = "snd"
  <2>1. pc[p] \in Sending /\ pc[p] \notin ToReceive
    BY <1>4 DEF Sending, ToReceive
  <2>2. QED
    BY <1>1, <1>2, <1>4, <2>1, PacketFlight
<1>5. ASSUME NEW last \in BOOLEAN, SndResume(p, last) PROVE InFlight(p)'
  <2>1. pc[p] \notin ToReceive
    BY <1>5, ResumeMove DEF ToReceive
  <2>2. QED
    BY <1>1, <1>2, <1>5, <2>1, ResumeFlight
<1>6. CASE /\ pc[p] \in ToSend /\ UNCHANGED <<file, pos, left, pipe, i>>
           /\ pc'[p] \in {"killed", "done", "rcv_open"} /\ (p = "child" => pc'[p] # "rcv_open")
  <2>1. pc[p] \notin ToReceive /\ pc'[p] \notin HasNotSent(p) /\ pc'[p] \notin Sending
    BY <1>6, Procs DEF ToSend, ToReceive, Sending, HasNotSent
  <2>2. QED
    BY <1>1, <1>2, <1>6, <2>1, FlightStays
<1>7. CASE /\ pc[p] \in ToReceive /\ pipe'[p] = pipe[p] /\ left'[p] = left[p] /\ pos'[p] = pos[p]
           /\ pc'[p] \in ToReceive \union
                {"crashed", IF p = "parent" THEN "done" ELSE "snd_open"}
  <2>1. CASE p = "parent"
    <3>1. pc'[p] \notin HasNotSent(p) /\ pc'[p] \notin Sending
      BY <1>7, <2>1 DEF ToReceive, Sending, HasNotSent
    <3>2. QED
      BY <1>1, <1>2, <1>7, <2>1, <3>1, FlightStays
  <2>2. CASE p = "child"
    <3>1. pc[p] \in HasNotSent(p) /\ pc'[p] \notin Sending
      BY <1>7, <2>2 DEF ToReceive, Sending, HasNotSent
    <3>2. pos'[p] = 0
      BY <1>7, <3>1 DEF PosKept
    <3>3. QED
      BY <1>1, <1>7, <3>1, <3>2, UnsentFlight
  <2>3. QED
    BY <2>1, <2>2, Procs
<1>8. RcvRead(p) => pipe'[p] = pipe[p] /\ left'[p] = left[p] /\ pos'[p] = pos[p]
  BY Procs, Zenon DEF RcvRead, EchoTypeOK
<1>9. QED
  <2>1. {"write", "write_last"} \subseteq Sending /\ Sending \subseteq ToSend
        /\ "snd_close" \in ToSend
        /\ {"rcv_open", "rcv", "rcv_null"} = ToReceive
    BY DEF Sending, ToSend, ToReceive
  <2>2. QED
    BY <1>3, <1>4, <1>5, <1>6, <1>7, <1>8, <2>1, Steps, Procs

LEMMA PacketPlaces ==
  ASSUME EchoTypeOK, NEW p \in Proc
  PROVE  /\ SndPacket(p) => pc'[p] \notin {"rcv_open", "rcv"}
         /\ \A last \in BOOLEAN : SndResume(p, last) => pc'[p] \notin {"rcv_open", "rcv"}
  BY DEF SndPacket, SndResume, Goes, AfterWrite, EchoTypeOK

(* The receiver's step, and the one with which it becomes one.              *)
LEMMA ReceiverFlight ==
  ASSUME EchoTypeOK, EchoTypeOK', TurnsKept, NEW p \in Proc, Process(p),
         NEW q \in Proc, q # p, PosKept(q), pc'[p] \in {"rcv_open", "rcv"},
         pc[p] \in {"rcv_open", "rcv"} => InFlight(q)
  PROVE  InFlight(q)'
<1>1. /\ p = Other(q) /\ orig' = orig /\ pc'[q] = pc[q] /\ i'[q] = i[q]
      /\ pos'[q] = pos[q] /\ left'[q] = left[q] /\ (pipe'[q] # pipe[q] => RcvRead(p))
      /\ Content(q)' = Content(q)
  BY Procs, OtherStays, ContentStays
<1>2. CASE pc[p] = "snd_close" /\ p = "parent" /\ pc'[p] = "rcv_open" /\ pipe' = pipe
  <2>1. pc[q] \in HasNotSent(q)
    BY <1>1, <1>2, Procs DEF TurnsKept, ToSend, HasNotSent
  <2>2. pos[q] = 0 /\ pipe[q] = << >> /\ left[q] = << >>
    BY <2>1 DEF PosKept
  <2>3. pc'[q] \notin Sending
    BY <1>1, <1>2, Procs DEF TurnsKept, ToSend, ToReceive, Sending
  <2>4. Got(p)' = << >> /\ Expected(p)' = 1
    BY <1>2 DEF Got, Expected
  <2>5. Stream(q)' = Stream(q) /\ Stream(q) = << >>
    <3>1. Stream(q) = << >>
      BY <2>2, StreamIs
    <3>2. QED
      BY <1>1, <1>2, <3>1 DEF Stream
  <2>6. Carries(Content(q)', 0, 1, << >>, 0, 1)
    BY Zenon DEF Carries
  <2>7. 0 <= Len(Content(q)') /\ << >> = SubSeq(Content(q)', 1, 0) /\ Len(<< >>) = 0
    <3>1. Content(q) \in Seq(Byte)
      BY Contents
    <3>2. QED
      BY <1>1, <3>1
  <2>8. QED
    BY <1>1, <1>2, <2>2, <2>3, <2>4, <2>5, <2>6, <2>7, FlightNext
<1>3. CASE /\ pc[p] = "rcv_open" /\ i'[p] = 1 /\ pipe' = pipe /\ pc'[p] = "rcv"
           /\ file' = [file EXCEPT ![p] = << >>]
  <2>1. Got(p)' = Got(p) /\ Expected(p)' = Expected(p)
    <3>1. file'[p] = << >>
      BY <1>3 DEF EchoTypeOK
    <3>2. QED
      BY <1>3, <3>1 DEF Got, Expected
  <2>2. pc'[q] \in HasNotSent(q) => pc[q] \in HasNotSent(q)
    BY <1>1
  <2>3. QED
    BY <1>1, <1>3, <2>1, <2>2, FlightStays
<1>4. CASE RcvRead(p) /\ pc[p] = "rcv"
  BY <1>1, <1>4, ReadFlight
<1>5. QED
  <2>1. pc'[p] \notin {"snd", "crashed", "killed", "rcv_null", "done", "snd_open"}
    OBVIOUS
  <2>2. SndPacket(p) => pc'[p] \notin {"rcv_open", "rcv"}
    BY PacketPlaces
  <2>3. \A last \in BOOLEAN : SndResume(p, last) => pc'[p] \notin {"rcv_open", "rcv"}
    BY PacketPlaces
  <2>4. QED
    BY <1>2, <1>3, <1>4, <2>1, <2>2, <2>3, Steps

(* A whole content has arrived when its sender has sent it all and nothing  *)
(* of it is in the pipe.                                                    *)
LEMMA AllArrived ==
  ASSUME EchoTypeOK, NEW p \in Proc, NEW o \in Proc, o = Other(p), InFlight(o),
         pc[p] = "rcv", pipe[o] = << >>, left[o] = << >>, pos[o] = Len(Content(o))
  PROVE  file[p] = Content(o)
<1>1. p = Other(o) /\ Got(p) = file[p]
  BY Procs DEF Got
<1>2. Len(file[p]) = Len(Content(o)) /\ file[p] = SubSeq(Content(o), 1, Len(file[p]))
  BY <1>1, NothingUnderWay, FlightIs
<1>3. Content(o) \in Seq(Byte)
  BY Contents
<1>4. SubSeq(Content(o), 1, Len(Content(o))) = Content(o)
  BY <1>3
<1>5. QED
  BY <1>2, <1>4

(* A sender that cannot write any more has nothing left to write.           *)
LEMMA NothingLeft ==
  ASSUME EchoTypeOK, FdsKept, TurnsKept, NEW p \in Proc, RcvClose(p), LayoutKept(Other(p))
  PROVE  /\ pc[Other(p)] \notin ToSend
         /\ left[Other(p)] = << >> \/ pc[Other(p)] = "killed"
         /\ p = "child" => left["parent"] = << >>
<1>1. pc[p] = "rcv" /\ ~ HasWriter(Other(p))
  BY DEF RcvClose, Goes
<1>2. pc[Other(p)] \notin ToSend
  BY <1>1, NobodyThere, Procs
<1>3. left[Other(p)] = << >> \/ pc[Other(p)] = "killed"
  BY <1>2 DEF LayoutKept, ToSend, Sending
<1>4. ASSUME p = "child" PROVE left["parent"] = << >>
  BY <1>1, <1>3, <1>4, Procs DEF TurnsKept
<1>5. QED
  BY <1>2, <1>3, <1>4

(* When the child has come to its turn, it has the file.                    *)
LEMMA ChildStep ==
  ASSUME EchoTypeOK, FdsKept, TurnsKept, \A p \in Proc : LayoutKept(p) /\ PosKept(p),
         EchoKept, NEW p \in Proc, Process(p),
         pc'["child"] \in ToSend \union {"done"}, pos'["parent"] = Len(orig')
  PROVE  file'["child"] = orig'
<1>1. orig' = orig /\ "parent" \in Proc /\ "child" \in Proc
  BY Procs, OtherStays
<1>2. CASE p = "child" /\ RcvClose(p)
  <2>1. /\ pc["child"] = "rcv" /\ pipe["parent"] = << >> /\ file' = file
        /\ pos'["parent"] = pos["parent"]
    BY <1>2, Procs DEF RcvClose, Goes
  <2>2. left["parent"] = << >>
    BY <1>2, Procs, NothingLeft
  <2>3. InFlight("parent")
    BY <2>1, Procs DEF EchoKept
  <2>4. Content("parent") = orig
    BY DEF Content
  <2>5. file["child"] = orig
    BY <1>1, <2>1, <2>2, <2>3, <2>4, Procs, AllArrived
  <2>6. QED
    BY <1>1, <2>1, <2>5
<1>3. CASE p = "child" /\ ~ RcvClose(p)
  <2>1. pos'["parent"] = pos["parent"]
    BY <1>1, <1>3, Procs, OtherStays
  <2>2. pc["child"] \in ToSend /\ file' = file
    BY <1>3, Steps DEF ToSend, Sending, SndResume, Goes
  <2>3. QED
    BY <1>1, <2>1, <2>2 DEF EchoKept
<1>4. CASE p = "parent"
  <2>1. pc["child"] \in ToSend \union {"done"} /\ file'["child"] = file["child"]
    BY <1>1, <1>4, Procs, OtherStays
  <2>2. pc["parent"] \notin ToSend
    BY <2>1 DEF TurnsKept, ToSend, ToReceive, Sending
  <2>3. pos'["parent"] = pos["parent"]
    BY <1>4, <2>2, Steps DEF ToSend, Sending, RcvRead, SndResume, Goes
  <2>4. QED
    BY <1>1, <2>1, <2>3 DEF EchoKept
<1>5. QED
  BY <1>2, <1>3, <1>4, Procs

LEMMA PacketEnd ==
  ASSUME EchoTypeOK, NEW p \in Proc
  PROVE  /\ SndPacket(p) => pc'[p] # "done"
         /\ \A last \in BOOLEAN : SndResume(p, last) => pc'[p] # "done"
  BY DEF SndPacket, SndResume, Goes, AfterWrite, EchoTypeOK

(* When both are done, the file has come back.                              *)
LEMMA DoneStep ==
  ASSUME EchoTypeOK, FdsKept, TurnsKept, \A p \in Proc : LayoutKept(p) /\ PosKept(p),
         EchoKept, NEW p \in Proc, Process(p), \A q \in Proc : pc'[q] = "done"
  PROVE  file'["parent"] = orig'
<1>1. orig' = orig /\ "parent" \in Proc /\ "child" \in Proc /\ pc'[p] = "done"
  BY Procs, OtherStays
<1>2. CASE p = "child"
  <2>1. pc["parent"] = "done"
    BY <1>1, <1>2, Procs, OtherStays
  <2>2. pc["child"] \in Ended
    BY <2>1 DEF TurnsKept
  <2>3. pc["child"] \notin Ended
    BY <1>2, Steps DEF Ended, Sending, SndResume, Goes
  <2>4. QED
    BY <2>2, <2>3
<1>3. CASE p = "parent"
  <2>1. pc["child"] = "done"
    BY <1>1, <1>3, Procs, OtherStays
  <2>2. RcvClose(p) /\ pc["parent"] = "rcv" /\ file' = file
    BY <1>1, <1>3, Steps, PacketEnd DEF EchoTypeOK
  <2>3. pipe["child"] = << >> /\ Other(p) = "child"
    BY <1>3, <2>2, Procs DEF RcvClose
  <2>4. left["child"] = << >>
    <3>1. LayoutKept(Other(p))
      BY Procs
    <3>2. left[Other(p)] = << >> \/ pc[Other(p)] = "killed"
      BY <2>2, <3>1, NothingLeft
    <3>3. QED
      BY <2>1, <2>3, <3>2
  <2>5. InFlight("child")
    BY <2>2, Procs DEF EchoKept
  <2>6. Content("child") = file["child"]
    BY DEF Content
  <2>7. pos["child"] = Len(Content("child")) /\ pos["parent"] = Len(Content("parent"))
    BY <1>1, <2>1, <2>2 DEF PosKept, HasSent, ToReceive
  <2>8. file["parent"] = Content("child")
    BY <1>1, <1>3, <2>2, <2>3, <2>4, <2>5, <2>7, Procs, AllArrived
  <2>9. file["child"] = orig
    BY <2>1, <2>7 DEF EchoKept, Content
  <2>10. QED
    BY <1>1, <2>2, <2>6, <2>8, <2>9
<1>4. QED
  BY <1>2, <1>3, Procs

(* The packets under way and the files, after any step.                     *)
LEMMA KeptStep ==
  ASSUME EchoTypeOK, EchoTypeOK', FdsKept, TurnsKept,
         \A p \in Proc : LayoutKept(p) /\ PosKept(p),
         ~ Splits(orig), EchoKept, NEW p \in Proc, Process(p)
  PROVE  EchoKept'
<1>1. ASSUME NEW q \in Proc, pc'[Other(q)] \in {"rcv_open", "rcv"} PROVE InFlight(q)'
  <2>1. CASE q = p
    <3>1. pc[Other(p)] \in {"rcv_open", "rcv"}
      BY <1>1, <2>1, Procs, OtherStays
    <3>2. InFlight(p)
      BY <3>1 DEF EchoKept
    <3>3. pc[p] \in Sending => Content(p) = orig
      <4>1. CASE p = "parent"
        BY <4>1 DEF Content
      <4>2. CASE p = "child"
        <5>1. pos["parent"] = Len(orig)
          BY <3>1, <4>2, Procs DEF PosKept, HasSent, ToReceive, Content
        <5>2. QED
          BY <4>2, <5>1 DEF EchoKept, ToSend, Content
      <4>3. QED
        BY <4>1, <4>2, Procs
    <3>4. QED
      BY <2>1, <3>2, <3>3, SenderFlight
  <2>2. CASE q # p
    <3>1. p = Other(q)
      BY <2>2, Procs
    <3>2. pc[p] \in {"rcv_open", "rcv"} => InFlight(q)
      BY <3>1 DEF EchoKept
    <3>3. QED
      BY <1>1, <2>2, <3>1, <3>2, ReceiverFlight
  <2>3. QED
    BY <2>1, <2>2
<1>2. pc'["child"] \in ToSend \union {"done"} /\ pos'["parent"] = Len(orig') =>
        file'["child"] = orig'
  BY ChildStep
<1>3. (\A q \in Proc : pc'[q] = "done") => file'["parent"] = orig'
  BY DoneStep
<1>4. QED
  BY <1>1, <1>2, <1>3 DEF EchoKept

LEMMA InitEchoInv ==
  ASSUME EchoInit
  PROVE  EchoInv
<1>1. EchoTypeOK
  <2>1. orig \in Sources /\ orig \in Seq(Byte)
    BY SourcesAssumption DEF EchoInit
  <2>2. << >> \in Seq(Byte) /\ << >> \in Seq(Byte \X Nat)
    OBVIOUS
  <2>3. Cardinality(PagesOf(<< >>)) <= Pages
    BY EmptyRoom
  <2>4. 1 \in 0 .. Numbers - 1 /\ 0 \in Byte
    BY Sizes DEF Byte
  <2>5. file \in [Proc -> Seq(Byte)]
    BY <2>1, <2>2 DEF EchoInit
  <2>6. pc \in [Proc -> PC]
    BY Procs DEF EchoInit, PC
  <2>7. QED
    BY <2>1, <2>2, <2>3, <2>4, <2>5, <2>6 DEF EchoInit, EchoTypeOK
<1>2. FdsKept
  BY Procs DEF EchoInit, FdsKept, BeforeSending, BeforeReceiving, ToSend, ToReceive, Sending
<1>3. TurnsKept
  BY DEF EchoInit, TurnsKept, ToReceive
<1>4. ASSUME NEW p \in Proc PROVE LayoutKept(p)
  <2>1. Len(<< >>) < 2 * BufSz
    BY Sizes
  <2>2. pc[p] \in {"snd_open", "rcv_open"} /\ left[p] = << >> /\ pipe[p] = << >>
    BY <1>4, Procs DEF EchoInit
  <2>3. QED
    BY <2>1, <2>2 DEF LayoutKept
<1>5. ASSUME NEW p \in Proc PROVE PosKept(p)
  <2>1. pos[p] = 0 /\ pipe[p] = << >> /\ left[p] = << >> /\ file["parent"] = orig
    BY Procs DEF EchoInit
  <2>2. pc[p] = IF p = "parent" THEN "snd_open" ELSE "rcv_open"
    BY Procs DEF EchoInit
  <2>3. 0 <= Len(Content(p))
    BY <1>1, Contents
  <2>4. QED
    BY <2>1, <2>2, <2>3, Procs DEF PosKept, HasSent, ToReceive
<1>6. EchoKept
  <2>1. ASSUME NEW p \in Proc, pc[Other(p)] \in {"rcv_open", "rcv"} PROVE InFlight(p)
    <3>1. p = "parent" /\ Other(p) = "child"
      BY <2>1, Procs DEF EchoInit
    <3>2. /\ Got(Other(p)) = << >> /\ Expected(Other(p)) = 1 /\ pc[p] \notin Sending
          /\ left[p] = << >> /\ pipe[p] = << >> /\ pos[p] = 0
      BY <3>1 DEF EchoInit, Got, Expected, Sending
    <3>3. Stream(p) = << >>
      BY <1>1, <3>2, StreamIs
    <3>4. Carries(Content(p), 0, 1, << >>, 0, 1)
      BY Zenon DEF Carries
    <3>5. 0 <= Len(Content(p)) /\ << >> = SubSeq(Content(p), 1, 0) /\ Len(<< >>) = 0
      BY <1>1, Contents
    <3>6. QED
      BY <3>2, <3>3, <3>4, <3>5, FlightIs
  <2>2. pc["child"] \notin ToSend \union {"done"} /\ ~ \A p \in Proc : pc[p] = "done"
    BY Procs DEF EchoInit, ToSend, Sending
  <2>3. QED
    BY <2>1, <2>2 DEF EchoKept
<1>7. QED
  BY <1>1, <1>2, <1>3, <1>4, <1>5, <1>6 DEF EchoInv

LEMMA NextEchoInv ==
  ASSUME EchoInv, [EchoNext]_echoVars
  PROVE  EchoInv'
<1>1. /\ EchoTypeOK /\ FdsKept /\ TurnsKept
      /\ \A p \in Proc : LayoutKept(p) /\ PosKept(p)
      /\ ~ Splits(orig) => EchoKept
  BY DEF EchoInv
<1>2. EchoTypeOK' /\ FdsKept' /\ TurnsKept'
  BY <1>1, EchoTypeStep, FdsStep, TurnsStep
<1>3. \A p \in Proc : LayoutKept(p)'
  BY <1>1, LayoutStep
<1>4. ASSUME NEW p \in Proc, Process(p) PROVE EchoInv'
  <2>1. \A q \in Proc : PosKept(q)'
    BY <1>1, <1>2, <1>4, PosStep
  <2>2. orig' = orig
    BY <1>1, <1>4, Procs, OtherStays
  <2>3. ~ Splits(orig) => EchoKept'
    BY <1>1, <1>2, <1>4, KeptStep
  <2>4. ~ Splits(orig') => EchoKept'
    BY <2>2, <2>3
  <2>5. QED
    BY <1>2, <1>3, <2>1, <2>4 DEF EchoInv
<1>5. CASE UNCHANGED echoVars
  <2>1. EchoKept' = EchoKept /\ \A p \in Proc : PosKept(p)' = PosKept(p)
    BY <1>5 DEF echoVars, EchoKept, InFlight, UnderWay, Stream, Got, Expected, Content, PosKept
  <2>2. orig' = orig
    BY <1>5 DEF echoVars
  <2>3. QED
    BY <1>1, <1>2, <1>3, <2>1, <2>2 DEF EchoInv
<1>6. QED
  BY <1>4, <1>5 DEF EchoNext

(* The types hold, the packets lie in the pages as described, and what is   *)
(* under way carries on where the receiver is.                              *)
THEOREM EchoInvariantHolds == EchoSpec => []EchoInv
<1>1. EchoInit => EchoInv
  BY InitEchoInv
<1>2. EchoInv /\ [EchoNext]_echoVars => EchoInv'
  BY NextEchoInv
<1>3. QED
  BY <1>1, <1>2, PTL DEF EchoSpec

(* A read of a pipe in which a full packet is still to come gets all of it, *)
(* with any page size and number of pages a full packet fills but for the   *)
(* end of the last page (p_rcv in dp_pipe.c).                               *)
THEOREM FullPacketsRead == EchoSpec => []FullPacketsWhole
<1>1. EchoInv => FullPacketsWhole
  BY WholeRead DEF EchoInv, FullPacketsWhole
<1>2. QED
  BY <1>1, EchoInvariantHolds, PTL

(* For every file whose last packet does not fall into two reads: the child *)
(* has all of it before it sends, and it comes back as it was sent.         *)
THEOREM EchoComesBack == EchoSpec => []EchoIntact
<1>1. EchoInv => EchoIntact
  BY DEF EchoInv, EchoKept, EchoIntact, ToSend, Sending
<1>2. QED
  BY <1>1, EchoInvariantHolds, PTL
=============================================================================
