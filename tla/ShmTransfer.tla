---------------------------- MODULE ShmTransfer -----------------------------
(***************************************************************************)
(* task3/shr-mem-SYSV: a file is copied byte by byte through a ring buffer *)
(* in a System V shared memory segment, guarded by three semaphores.  The  *)
(* parent runs send(), the forked child runs receive(); a program counter  *)
(* per process names the next call, so that every interleaving of the two  *)
(* between system calls is a behaviour.                                    *)
(*                                                                         *)
(* A semaphore is a natural number, its semop() calls are atomic.  read()  *)
(* and write() of the two files succeed; opening either may fail.  The     *)
(* words status, s_ind, r_ind and the ring do not overlap in the segment,  *)
(* which holds for SHM_SZ up to 64, the value of the source.               *)
(***************************************************************************)
EXTENDS Integers, Sequences

CONSTANTS
  BufSz,     \* BUF_SZ, the slots of the ring (40 in the source)
  Byte,      \* the values of a byte
  Sources,   \* the contents the source file may have
  Stale      \* what a slot of a fresh segment holds

ASSUME BufSzAssumption == BufSz \in Nat \ {0}
ASSUME SourcesAssumption == Sources \subseteq Seq(Byte)

VARIABLES
  src,       \* the source file
  dst,       \* the destination file
  sent,      \* the offset of the sender's descriptor: bytes it has read
  spc, rpc,  \* where the sender and the receiver are
  status,    \* *Shmem->status: 1 while sending, 0 at the end of the file
  s_ind,     \* *Shmem->s_ind: the slot the sender fills next
  r_ind,     \* *Shmem->r_ind: the slot the receiver empties next
  buf,       \* Shmem->buf
  sem        \* the values of the three semaphores

vars == <<src, dst, sent, spc, rpc, status, s_ind, r_ind, buf, sem>>

Slots == 0 .. (BufSz - 1)
Semaphores == {"empty", "mutex", "full"}

SenderPC == {"open", "failed", "loop", "wait_empty", "wait_mutex", "fill",
             "post_mutex", "post_full", "spin", "reap", "done"}
ReceiverPC == {"open", "failed", "wait_full", "wait_mutex", "check",
               "post_mutex", "post_empty", "stop_mutex", "stop_empty",
               "finish", "done"}

(***************************************************************************)
(* The state at the fork.                                                  *)
(***************************************************************************)
SharedMemoryInit ==
  /\ status = 1
  /\ s_ind = 0
  /\ r_ind = 0
  /\ buf = [i \in Slots |-> Stale]

SemaphoresInit ==
  sem = [s \in Semaphores |->
           CASE s = "empty" -> BufSz [] s = "mutex" -> 1 [] s = "full" -> 0]

Init ==
  /\ SharedMemoryInit
  /\ SemaphoresInit
  /\ src \in Sources
  /\ dst = << >>
  /\ sent = 0
  /\ spc = "open"
  /\ rpc = "open"

(***************************************************************************)
(* Helpers of both processes.                                              *)
(***************************************************************************)
MySemWait(s) == sem[s] > 0 /\ sem' = [sem EXCEPT ![s] = @ - 1]
MySemPost(s) == sem' = [sem EXCEPT ![s] = @ + 1]

Advance(i) == (i + 1) % BufSz

SenderGoes(from, to) == spc = from /\ spc' = to /\ UNCHANGED rpc
ReceiverGoes(from, to) == rpc = from /\ rpc' = to /\ UNCHANGED spc

files == <<src, dst, sent>>
shm == <<status, s_ind, r_ind, buf>>

(***************************************************************************)
(* The parent: send(), then wait(NULL).                                    *)
(***************************************************************************)
SndOpen ==
  /\ \E to \in {"loop", "failed"} : SenderGoes("open", to)
  /\ UNCHANGED <<files, shm, sem>>

(* The loop's test: with status 0 the sender goes on to its busy wait.      *)
SndTest ==
  /\ SenderGoes("loop", IF status # 0 THEN "wait_empty" ELSE "spin")
  /\ UNCHANGED <<files, shm, sem>>

SndWaitEmpty ==
  /\ SenderGoes("wait_empty", "wait_mutex")
  /\ MySemWait("empty")
  /\ UNCHANGED <<files, shm>>

SndWaitMutex ==
  /\ SenderGoes("wait_mutex", "fill")
  /\ MySemWait("mutex")
  /\ UNCHANGED <<files, shm>>

SndFill ==
  /\ SenderGoes("fill", "post_mutex")
  /\ sent < Len(src)
  /\ buf' = [buf EXCEPT ![s_ind] = src[sent + 1]]
  /\ s_ind' = Advance(s_ind)
  /\ sent' = sent + 1
  /\ UNCHANGED <<src, dst, status, r_ind, sem>>

SndEOF ==
  /\ SenderGoes("fill", "post_mutex")
  /\ sent = Len(src)
  /\ status' = 0
  /\ UNCHANGED <<files, s_ind, r_ind, buf, sem>>

SndPostMutex ==
  /\ SenderGoes("post_mutex", "post_full")
  /\ MySemPost("mutex")
  /\ UNCHANGED <<files, shm>>

(* Mutant: the end of the file is not posted to full.                       *)
SndPostFullOfData ==
  /\ SenderGoes("post_full", "loop")
  /\ IF status = 1 THEN MySemPost("full") ELSE UNCHANGED sem
  /\ UNCHANGED <<files, shm>>

SndPostFull ==
  /\ SenderGoes("post_full", "loop")
  /\ MySemPost("full")
  /\ UNCHANGED <<files, shm>>

(* The busy wait on status == 0.                                            *)
SndSpin ==
  /\ SenderGoes("spin", "reap")
  /\ status # 0
  /\ UNCHANGED <<files, shm, sem>>

(* wait(NULL); the removal calls that follow leave the semaphores alone:    *)
(* MySemRemove reaches IPC_RMID only when no semaphore was found.           *)
SndReap ==
  /\ SenderGoes("reap", "done")
  /\ rpc \in {"done", "failed"}
  /\ UNCHANGED <<files, shm, sem>>

(***************************************************************************)
(* The child: receive().                                                   *)
(***************************************************************************)
RcvOpen ==
  /\ \E to \in {"wait_full", "failed"} : ReceiverGoes("open", to)
  /\ UNCHANGED <<files, shm, sem>>

RcvWaitFull ==
  /\ ReceiverGoes("wait_full", "wait_mutex")
  /\ MySemWait("full")
  /\ UNCHANGED <<files, shm>>

(* Mutant: the critical section is entered without its semaphore.           *)
RcvSkipMutex ==
  /\ ReceiverGoes("wait_mutex", "check")
  /\ UNCHANGED <<files, shm, sem>>

RcvWaitMutex ==
  /\ ReceiverGoes("wait_mutex", "check")
  /\ MySemWait("mutex")
  /\ UNCHANGED <<files, shm>>

(* Mutants: each operand of the test alone.                                 *)
StatusNotOne == status # 1
FullIsZero == sem["full"] = 0

(* The test of receive(): neither status == 1 nor GETVAL(full) != 0.        *)
NothingLeft == status # 1 /\ sem["full"] = 0

RcvStop ==
  /\ ReceiverGoes("check", "stop_mutex")
  /\ NothingLeft
  /\ UNCHANGED <<files, shm, sem>>

RcvCopy ==
  /\ ReceiverGoes("check", "post_mutex")
  /\ ~ NothingLeft
  /\ dst' = Append(dst, buf[r_ind])
  /\ r_ind' = Advance(r_ind)
  /\ UNCHANGED <<src, sent, status, s_ind, buf, sem>>

RcvPostMutex ==
  /\ \/ ReceiverGoes("post_mutex", "post_empty")
     \/ ReceiverGoes("stop_mutex", "stop_empty")
  /\ MySemPost("mutex")
  /\ UNCHANGED <<files, shm>>

(* Mutant: the slot is given back to the wrong semaphore.                   *)
RcvPostFull ==
  /\ \/ ReceiverGoes("post_empty", "wait_full")
     \/ ReceiverGoes("stop_empty", "finish")
  /\ MySemPost("full")
  /\ UNCHANGED <<files, shm>>

RcvPostEmpty ==
  /\ \/ ReceiverGoes("post_empty", "wait_full")
     \/ ReceiverGoes("stop_empty", "finish")
  /\ MySemPost("empty")
  /\ UNCHANGED <<files, shm>>

(* Mutant: the sender is not told.                                          *)
RcvFinishSilently ==
  /\ ReceiverGoes("finish", "done")
  /\ UNCHANGED <<files, shm, sem>>

(* status = 1, after the loop and outside the critical section.             *)
RcvFinish ==
  /\ ReceiverGoes("finish", "done")
  /\ status' = 1
  /\ UNCHANGED <<files, s_ind, r_ind, buf, sem>>

(***************************************************************************)
(* The specification: neither process is suspended for ever.               *)
(***************************************************************************)
Sender ==
  \/ SndOpen \/ SndTest \/ SndWaitEmpty \/ SndWaitMutex \/ SndFill \/ SndEOF
  \/ SndPostMutex \/ SndPostFull \/ SndSpin \/ SndReap

Receiver ==
  \/ RcvOpen \/ RcvWaitFull \/ RcvWaitMutex \/ RcvStop \/ RcvCopy
  \/ RcvPostMutex \/ RcvPostEmpty \/ RcvFinish

Next == Sender \/ Receiver

Spec == Init /\ [][Next]_vars

FairSpec == Spec /\ WF_vars(Sender) /\ WF_vars(Receiver)

(***************************************************************************)
(* Properties.                                                             *)
(***************************************************************************)

(* The types of the variables: in particular neither index leaves the ring *)
(* and no semaphore is driven below zero (send, receive).                  *)
TypeOK ==
  /\ src \in Sources
  /\ dst \in Seq(Byte)
  /\ sent \in 0 .. Len(src)
  /\ spc \in SenderPC
  /\ rpc \in ReceiverPC
  /\ status \in {0, 1}
  /\ s_ind \in Slots
  /\ r_ind \in Slots
  /\ buf \in [Slots -> Byte \union {Stale}]
  /\ sem \in [Semaphores -> Nat]

(* What receive() has written is a prefix of what send() has to read: no    *)
(* slot is read before it is filled, read twice or overwritten unread, and  *)
(* the token of the end of file never makes receive() write a byte more.    *)
PrefixOK ==
  /\ Len(dst) <= Len(src)
  /\ \A i \in 1 .. Len(dst) : dst[i] = src[i]

Stopping == {"stop_mutex", "stop_empty", "finish", "done"}

(* When receive() leaves its loop at most the last byte of the file is      *)
(* missing: tokens of full that arrive late cannot cost more.               *)
LosesAtMostLastByte == rpc \in Stopping => Len(src) - Len(dst) <= 1

(* The semaphore mutex does its work: at most one process is inside what    *)
(* the comments of send() and receive() call the critical section.          *)
SenderInside == spc \in {"fill", "post_mutex"}
ReceiverInside == rpc \in {"check", "post_mutex", "stop_mutex"}
MutualExclusion == ~ (SenderInside /\ ReceiverInside)

(* The promise of README.md for task 3, and what the loop's condition is    *)
(* for: receive() stops only when everything has been copied.               *)
CompleteTransfer == rpc = "done" => dst = src

(* Once send() has opened its file, receive() comes to its end: every P     *)
(* it waits in is answered, whatever the order of the posts.                *)
ReceiverFinishes == spc = "loop" ~> rpc \in {"done", "failed"}

(* A send() that waits for the end of receive() when that one has stopped   *)
(* is told of it, and the parent exits.  A send() which is still on the way *)
(* to its busy wait may take the status = 1 of the finished receiver for    *)
(* "still sending", mark the end of the file again and wait for ever.       *)
SenderFinishes ==
  spc = "spin" /\ rpc \in {"stop_mutex", "stop_empty", "finish"} ~> spc = "done"

(* The copy through the ring implements the abstract transfer that may      *)
(* lose one trailing byte.                                                  *)
Transfer == INSTANCE FileTransfer WITH
              MaxLost <- 1, closed <- rpc \in Stopping

TransferSpec == Transfer!Spec

(***************************************************************************)
(* The inductive invariant behind the safety properties: where the tokens  *)
(* of the three semaphores are, and what lies between the two indices.     *)
(***************************************************************************)
One(b) == IF b THEN 1 ELSE 0
Wrap(i) == IF i >= BufSz THEN i - BufSz ELSE i

Unread == sent - Len(dst)
Stopped == rpc \in Stopping

(* Every slot's token is in empty, in full or held by a process between its *)
(* P and its V.                                                             *)
EmptyTokens ==
  sem["empty"] + sem["full"]
    + One(spc \in {"wait_mutex", "fill", "post_mutex", "post_full"})
    + One(rpc \in {"wait_mutex", "check", "post_mutex", "post_empty",
                   "stop_mutex", "stop_empty"}) = BufSz

MutexToken == sem["mutex"] + One(SenderInside) + One(ReceiverInside) = 1

(* The tokens of full, those on their way to it and the one the receiver    *)
(* has taken stand for the unread bytes and the end of the file.            *)
FullTokens ==
  ~ Stopped =>
    sem["full"] + One(spc \in {"post_mutex", "post_full"})
      + One(rpc \in {"wait_mutex", "check"}) = Unread + One(status = 0)

EndOfFile ==
  /\ status = 0 \/ Stopped => sent = Len(src)
  /\ Stopped => Unread <= 1
  /\ ~ Stopped /\ status = 0 =>
       spc \in {"post_mutex", "post_full", "loop", "spin"}
  /\ ~ Stopped => /\ spc \notin {"reap", "done"}
                  /\ spc = "spin" => status = 0

(* The unread bytes lie, in order, from r_ind up to s_ind.                  *)
Ring ==
  /\ s_ind = Wrap(r_ind + Unread)
  /\ \A j \in 0 .. (Unread - 1) :
       buf[Wrap(r_ind + j)] = src[Len(dst) + 1 + j]

IInv ==
  /\ TypeOK
  /\ Len(dst) <= sent
  /\ PrefixOK
  /\ EmptyTokens
  /\ MutexToken
  /\ FullTokens
  /\ EndOfFile
  /\ Ring
=============================================================================
