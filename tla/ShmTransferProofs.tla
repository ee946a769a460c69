------------------------- MODULE ShmTransferProofs --------------------------
(***************************************************************************)
(* Proofs about ShmTransfer, for a ring of any size and any source file.   *)
(***************************************************************************)
EXTENDS ShmTransfer, TLAPS

(* The remainder that send() and receive() take of an index is a wrap.      *)
LEMMA AdvanceWraps ==
  ASSUME NEW i \in Slots
  PROVE  /\ Advance(i) = Wrap(i + 1)
         /\ Advance(i) \in Slots
<1>1. BufSz \in Nat /\ BufSz > 0
  BY BufSzAssumption
<1>2. CASE i + 1 < BufSz
  BY <1>1, <1>2 DEF Advance, Wrap, Slots
<1>3. CASE i + 1 = BufSz
  BY <1>1, <1>3 DEF Advance, Wrap, Slots
<1>4. QED
  BY <1>1, <1>2, <1>3 DEF Slots

(* Taking a byte from one end of the ring leaves the other end in place.    *)
LEMMA WrapNext ==
  ASSUME NEW i \in Slots, NEW d \in 1 .. BufSz
  PROVE  Wrap(Wrap(i + 1) + (d - 1)) = Wrap(i + d)
<1>1. BufSz \in Nat /\ BufSz > 0
  BY BufSzAssumption
<1>2. CASE i + 1 = BufSz
  <2>1. Wrap(i + 1) = 0
    BY <1>1, <1>2 DEF Wrap, Slots
  <2>2. Wrap(0 + (d - 1)) = d - 1
    BY <1>1 DEF Wrap
  <2>3. Wrap(i + d) = d - 1
    BY <1>1, <1>2 DEF Wrap, Slots
  <2>4. QED
    BY <2>1, <2>2, <2>3
<1>3. CASE i + 1 < BufSz
  <2>1. Wrap(i + 1) = i + 1
    BY <1>1, <1>3 DEF Wrap, Slots
  <2>2. (i + 1) + (d - 1) = i + d
    BY <1>1 DEF Slots
  <2>3. QED
    BY <2>1, <2>2
<1>4. QED
  BY <1>1, <1>2, <1>3 DEF Slots

LEMMA InitIInv == Init => IInv
<1> SUFFICES ASSUME Init PROVE IInv
  OBVIOUS
<1> USE BufSzAssumption, SourcesAssumption
<1>1. TypeOK
  BY DEF Init, SharedMemoryInit, SemaphoresInit, TypeOK, Slots, Semaphores,
         SenderPC, ReceiverPC
<1>2. sem["empty"] = BufSz /\ sem["mutex"] = 1 /\ sem["full"] = 0
  BY DEF Init, SemaphoresInit, Semaphores
<1>3. /\ Len(dst) = 0 /\ Len(src) \in Nat
      /\ sent = 0 /\ status = 1 /\ s_ind = 0 /\ r_ind = 0
      /\ spc = "open" /\ rpc = "open"
  BY DEF Init, SharedMemoryInit
<1>4. PrefixOK
  BY <1>3 DEF Init, PrefixOK
<1>5. EmptyTokens
  BY <1>2 DEF Init, EmptyTokens, One
<1>6. MutexToken
  BY <1>2 DEF Init, MutexToken, One, SenderInside, ReceiverInside
<1>7. FullTokens
  BY <1>2, <1>3 DEF FullTokens, One, Unread
<1>8. EndOfFile
  BY <1>3 DEF EndOfFile, Stopped, Stopping
<1>9. Ring
  BY <1>3 DEF Ring, Unread, Wrap
<1>10. QED
  BY <1>1, <1>3, <1>4, <1>5, <1>6, <1>7, <1>8, <1>9 DEF IInv, Init


(* The values after a P and after a V.                                      *)
LEMMA WaitValues ==
  ASSUME sem \in [Semaphores -> Nat], NEW s \in Semaphores, MySemWait(s)
  PROVE  /\ sem' \in [Semaphores -> Nat]
         /\ sem[s] > 0 /\ sem'[s] = sem[s] - 1
         /\ \A t \in Semaphores \ {s} : sem'[t] = sem[t]
BY DEF MySemWait

LEMMA PostValues ==
  ASSUME sem \in [Semaphores -> Nat], NEW s \in Semaphores, MySemPost(s)
  PROVE  /\ sem' \in [Semaphores -> Nat]
         /\ sem'[s] = sem[s] + 1
         /\ \A t \in Semaphores \ {s} : sem'[t] = sem[t]
BY DEF MySemPost

(* What the numbers of the invariant are.                                   *)
LEMMA Numbers ==
  ASSUME TypeOK
  PROVE  /\ BufSz \in Nat /\ BufSz > 0
         /\ src \in Seq(Byte) /\ Len(src) \in Nat /\ Len(dst) \in Nat
         /\ sent \in Nat /\ sent <= Len(src)
         /\ s_ind \in Nat /\ s_ind < BufSz /\ r_ind \in Nat /\ r_ind < BufSz
         /\ sem["empty"] \in Nat /\ sem["mutex"] \in Nat /\ sem["full"] \in Nat
<1>1. src \in Seq(Byte) /\ dst \in Seq(Byte)
  BY SourcesAssumption DEF TypeOK
<1>2. sem["empty"] \in Nat /\ sem["mutex"] \in Nat /\ sem["full"] \in Nat
  BY DEF TypeOK, Semaphores
<1>3. Len(src) \in Nat /\ Len(dst) \in Nat
  BY <1>1
<1>4. QED
  BY <1>1, <1>2, <1>3, BufSzAssumption DEF TypeOK, Slots

(* Files, indices and slots are disturbed by SndFill and RcvCopy only.      *)
LEMMA DataUnchanged ==
  ASSUME IInv, UNCHANGED <<files, s_ind, r_ind, buf>>
  PROVE  (Len(dst) <= sent)' /\ PrefixOK' /\ Ring' /\ Unread' = Unread
BY DEF IInv, PrefixOK, Ring, Unread, Wrap, files


(* The steps that leave the bytes alone: what they do to the tokens.        *)
LEMMA ControlTokens ==
  ASSUME IInv, Next, ~ SndFill, ~ RcvCopy
  PROVE  /\ UNCHANGED <<files, s_ind, r_ind, buf>>
         /\ (EmptyTokens /\ MutexToken /\ FullTokens /\ EndOfFile)'
<1> USE SMTT(60) DEF IInv, EmptyTokens, MutexToken, FullTokens, EndOfFile,
        Unread, One, Stopped, Stopping, SenderInside, ReceiverInside, files, shm
<1>1. TypeOK /\ sem \in [Semaphores -> Nat] /\ status \in {0, 1}
  BY DEF TypeOK
<1>2. CASE SndOpen
  BY <1>1, <1>2, Numbers DEF SndOpen, SenderGoes
<1>3. CASE SndTest
  BY <1>1, <1>3, Numbers DEF SndTest, SenderGoes
<1>4. CASE SndWaitEmpty
  <2>1. /\ sem["empty"] > 0 /\ sem'["empty"] = sem["empty"] - 1
        /\ sem'["mutex"] = sem["mutex"] /\ sem'["full"] = sem["full"]
    BY <1>1, <1>4, WaitValues DEF SndWaitEmpty, Semaphores
  <2>2. (EmptyTokens /\ MutexToken)'
    BY <1>1, <1>4, <2>1, Numbers DEF SndWaitEmpty, SenderGoes
  <2>3. FullTokens'
    BY <1>1, <1>4, <2>1, Numbers DEF SndWaitEmpty, SenderGoes
  <2>4. EndOfFile'
    BY <1>1, <1>4, <2>1, Numbers DEF SndWaitEmpty, SenderGoes
  <2>5. QED
    BY <1>4, <2>2, <2>3, <2>4 DEF SndWaitEmpty
<1>5. CASE SndWaitMutex
  <2>1. /\ sem["mutex"] > 0 /\ sem'["mutex"] = sem["mutex"] - 1
        /\ sem'["empty"] = sem["empty"] /\ sem'["full"] = sem["full"]
    BY <1>1, <1>5, WaitValues DEF SndWaitMutex, Semaphores
  <2>2. (EmptyTokens /\ MutexToken)'
    BY <1>1, <1>5, <2>1, Numbers DEF SndWaitMutex, SenderGoes
  <2>3. FullTokens'
    BY <1>1, <1>5, <2>1, Numbers DEF SndWaitMutex, SenderGoes
  <2>4. EndOfFile'
    BY <1>1, <1>5, <2>1, Numbers DEF SndWaitMutex, SenderGoes
  <2>5. QED
    BY <1>5, <2>2, <2>3, <2>4 DEF SndWaitMutex
<1>6. CASE SndEOF
  BY <1>1, <1>6, Numbers DEF SndEOF, SenderGoes
<1>7. CASE SndPostMutex
  <2>1. /\ sem'["mutex"] = sem["mutex"] + 1
        /\ sem'["empty"] = sem["empty"] /\ sem'["full"] = sem["full"]
    BY <1>1, <1>7, PostValues DEF SndPostMutex, Semaphores
  <2>2. (EmptyTokens /\ MutexToken)'
    BY <1>1, <1>7, <2>1, Numbers DEF SndPostMutex, SenderGoes
  <2>3. FullTokens'
    BY <1>1, <1>7, <2>1, Numbers DEF SndPostMutex, SenderGoes
  <2>4. EndOfFile'
    BY <1>1, <1>7, <2>1, Numbers DEF SndPostMutex, SenderGoes
  <2>5. QED
    BY <1>7, <2>2, <2>3, <2>4 DEF SndPostMutex
<1>8. CASE SndPostFull
  <2>1. /\ sem'["full"] = sem["full"] + 1
        /\ sem'["empty"] = sem["empty"] /\ sem'["mutex"] = sem["mutex"]
    BY <1>1, <1>8, PostValues DEF SndPostFull, Semaphores
  <2>2. (EmptyTokens /\ MutexToken)'
    BY <1>1, <1>8, <2>1, Numbers DEF SndPostFull, SenderGoes
  <2>3. FullTokens'
    BY <1>1, <1>8, <2>1, Numbers DEF SndPostFull, SenderGoes
  <2>4. EndOfFile'
    BY <1>1, <1>8, <2>1, Numbers DEF SndPostFull, SenderGoes
  <2>5. QED
    BY <1>8, <2>2, <2>3, <2>4 DEF SndPostFull
<1>9. CASE SndSpin
  BY <1>1, <1>9, Numbers DEF SndSpin, SenderGoes
<1>10. CASE SndReap
  BY <1>1, <1>10, Numbers DEF SndReap, SenderGoes
<1>11. CASE RcvOpen
  BY <1>1, <1>11, Numbers DEF RcvOpen, ReceiverGoes
<1>12. CASE RcvWaitFull
  <2>1. /\ sem["full"] > 0 /\ sem'["full"] = sem["full"] - 1
        /\ sem'["empty"] = sem["empty"] /\ sem'["mutex"] = sem["mutex"]
    BY <1>1, <1>12, WaitValues DEF RcvWaitFull, Semaphores
  <2>2. (EmptyTokens /\ MutexToken)'
    BY <1>1, <1>12, <2>1, Numbers DEF RcvWaitFull, ReceiverGoes
  <2>3. FullTokens'
    BY <1>1, <1>12, <2>1, Numbers DEF RcvWaitFull, ReceiverGoes
  <2>4. EndOfFile'
    BY <1>1, <1>12, <2>1, Numbers DEF RcvWaitFull, ReceiverGoes
  <2>5. QED
    BY <1>12, <2>2, <2>3, <2>4 DEF RcvWaitFull
<1>13. CASE RcvWaitMutex
  <2>1. /\ sem["mutex"] > 0 /\ sem'["mutex"] = sem["mutex"] - 1
        /\ sem'["empty"] = sem["empty"] /\ sem'["full"] = sem["full"]
    BY <1>1, <1>13, WaitValues DEF RcvWaitMutex, Semaphores
  <2>2. (EmptyTokens /\ MutexToken)'
    BY <1>1, <1>13, <2>1, Numbers DEF RcvWaitMutex, ReceiverGoes
  <2>3. FullTokens'
    BY <1>1, <1>13, <2>1, Numbers DEF RcvWaitMutex, ReceiverGoes
  <2>4. EndOfFile'
    BY <1>1, <1>13, <2>1, Numbers DEF RcvWaitMutex, ReceiverGoes
  <2>5. QED
    BY <1>13, <2>2, <2>3, <2>4 DEF RcvWaitMutex
<1>14. CASE RcvStop
  BY <1>1, <1>14, Numbers DEF RcvStop, NothingLeft, ReceiverGoes
<1>15. CASE RcvPostMutex
  <2>1. /\ sem'["mutex"] = sem["mutex"] + 1
        /\ sem'["empty"] = sem["empty"] /\ sem'["full"] = sem["full"]
    BY <1>1, <1>15, PostValues DEF RcvPostMutex, Semaphores
  <2>2. (EmptyTokens /\ MutexToken)'
    BY <1>1, <1>15, <2>1, Numbers DEF RcvPostMutex, ReceiverGoes
  <2>3. FullTokens'
    BY <1>1, <1>15, <2>1, Numbers DEF RcvPostMutex, ReceiverGoes
  <2>4. EndOfFile'
    BY <1>1, <1>15, <2>1, Numbers DEF RcvPostMutex, ReceiverGoes
  <2>5. QED
    BY <1>15, <2>2, <2>3, <2>4 DEF RcvPostMutex
<1>16. CASE RcvPostEmpty
  <2>1. /\ sem'["empty"] = sem["empty"] + 1
        /\ sem'["mutex"] = sem["mutex"] /\ sem'["full"] = sem["full"]
    BY <1>1, <1>16, PostValues DEF RcvPostEmpty, Semaphores
  <2>2. (EmptyTokens /\ MutexToken)'
    BY <1>1, <1>16, <2>1, Numbers DEF RcvPostEmpty, ReceiverGoes
  <2>3. FullTokens'
    BY <1>1, <1>16, <2>1, Numbers DEF RcvPostEmpty, ReceiverGoes
  <2>4. EndOfFile'
    BY <1>1, <1>16, <2>1, Numbers DEF RcvPostEmpty, ReceiverGoes
  <2>5. QED
    BY <1>16, <2>2, <2>3, <2>4 DEF RcvPostEmpty
<1>17. CASE RcvFinish
  BY <1>1, <1>17, Numbers DEF RcvFinish, ReceiverGoes
<1>18. QED
  BY <1>2, <1>3, <1>4, <1>5, <1>6, <1>7, <1>8, <1>9, <1>10, <1>11, <1>12, <1>13, <1>14, <1>15, <1>16, <1>17 DEF Next, Sender, Receiver

LEMMA ControlIInv ==
  ASSUME IInv, Next, ~ SndFill, ~ RcvCopy
  PROVE  IInv'
<1>1. /\ UNCHANGED <<files, s_ind, r_ind, buf>>
      /\ (EmptyTokens /\ MutexToken /\ FullTokens /\ EndOfFile)'
  BY ControlTokens
<1>2. (Len(dst) <= sent)' /\ PrefixOK' /\ Ring'
  BY <1>1, DataUnchanged
<1>3. TypeOK
  BY DEF IInv
<1>4. sem' \in [Semaphores -> Nat]
  <2>1. \/ UNCHANGED sem
        \/ \E s \in Semaphores : MySemWait(s) \/ MySemPost(s)
    BY DEF Next, Sender, Receiver, Semaphores, SndOpen, SndTest, SndWaitEmpty,
           SndWaitMutex, SndEOF, SndPostMutex, SndPostFull, SndSpin, SndReap,
           RcvOpen, RcvWaitFull, RcvWaitMutex, RcvStop, RcvPostMutex,
           RcvPostEmpty, RcvFinish
  <2>2. QED
    BY <1>3, <2>1, WaitValues, PostValues DEF TypeOK
<1>5. spc' \in SenderPC /\ rpc' \in ReceiverPC /\ status' \in {0, 1}
  BY <1>3
     DEF TypeOK, SenderPC, ReceiverPC, shm, SenderGoes, ReceiverGoes,
         Next, Sender, Receiver, SndOpen, SndTest, SndWaitEmpty,
         SndWaitMutex, SndEOF, SndPostMutex, SndPostFull, SndSpin, SndReap,
         RcvOpen, RcvWaitFull, RcvWaitMutex, RcvStop, RcvPostMutex,
         RcvPostEmpty, RcvFinish
<1>6. TypeOK'
  BY <1>1, <1>3, <1>4, <1>5 DEF TypeOK, files
<1>7. QED
  BY <1>1, <1>2, <1>6 DEF IInv

(* send() fills the slot after the unread ones, which is free: the token it *)
(* has taken from empty is one of the BufSz.                                *)
LEMMA SndFillIInv ==
  ASSUME IInv, SndFill
  PROVE  IInv'
<1>1. TypeOK
  BY DEF IInv
<1>2. /\ spc = "fill" /\ spc' = "post_mutex" /\ rpc' = rpc
      /\ sent < Len(src) /\ sent' = sent + 1
      /\ UNCHANGED <<src, dst, status, r_ind, sem>>
  BY DEF SndFill, SenderGoes
<1>3. Len(dst) <= sent /\ PrefixOK /\ Ring
  BY DEF IInv
<1>4. ~ Stopped /\ status = 1
  BY <1>1, <1>2, Numbers DEF IInv, EndOfFile, TypeOK
<1>5. Unread \in Nat /\ Unread < BufSz /\ Unread' = Unread + 1
  <2>1. sem["empty"] + sem["full"] + 1
          + One(rpc \in {"wait_mutex", "check", "post_mutex", "post_empty",
                         "stop_mutex", "stop_empty"}) = BufSz
    BY <1>2 DEF IInv, EmptyTokens, One
  <2>2. sem["full"] + One(rpc \in {"wait_mutex", "check"}) = Unread
    BY <1>1, <1>2, <1>3, <1>4, Numbers DEF IInv, FullTokens, One, Unread
  <2>3. Unread \in Nat /\ Unread' = Unread + 1
    BY <1>1, <1>2, <1>3, Numbers DEF Unread
  <2>4. QED
    BY <1>1, <2>1, <2>2, <2>3, Numbers DEF One
<1>6. s_ind' = Wrap(s_ind + 1) /\ s_ind' \in Slots
  BY <1>1, AdvanceWraps DEF SndFill, TypeOK
<1>7. buf' = [buf EXCEPT ![s_ind] = src[sent + 1]]
  BY DEF SndFill
<1>8. TypeOK'
  <2>1. src[sent + 1] \in Byte
    BY <1>1, <1>2, Numbers
  <2>2. buf' \in [Slots -> Byte \union {Stale}]
    BY <1>1, <1>7, <2>1 DEF TypeOK
  <2>3. QED
    BY <1>1, <1>2, <1>6, <2>2, Numbers DEF TypeOK, SenderPC
<1>9. EmptyTokens' /\ MutexToken'
  BY <1>2 DEF IInv, EmptyTokens, MutexToken, One, SenderInside, ReceiverInside
<1>10. FullTokens'
  BY <1>1, <1>2, <1>4, <1>5, Numbers DEF IInv, FullTokens, One, Stopped
<1>11. EndOfFile'
  BY <1>2, <1>4 DEF EndOfFile, Stopped
<1>12. s_ind = Wrap(r_ind + Unread)
  BY <1>3 DEF Ring
<1>13. Ring'
  <2>1. s_ind' = Wrap(r_ind' + Unread')
    BY <1>1, <1>2, <1>5, <1>6, <1>12, Numbers DEF Wrap
  <2>2. ASSUME NEW j \in 0 .. (Unread' - 1)
        PROVE  (buf[Wrap(r_ind + j)])' = (src[Len(dst) + 1 + j])'
    <3>1. CASE j = Unread
      <4>1. Wrap(r_ind + j) = s_ind
        BY <1>12, <3>1
      <4>2. Len(dst) + 1 + j = sent + 1
        BY <1>1, <3>1, Numbers DEF Unread
      <4>3. QED
        BY <1>1, <1>2, <1>7, <4>1, <4>2 DEF TypeOK, Wrap
    <3>2. CASE j < Unread
      <4>1. Wrap(r_ind + j) # s_ind
        BY <1>1, <1>5, <1>12, <3>2, Numbers DEF Wrap
      <4>2. Wrap(r_ind + j) \in Slots
        BY <1>1, <1>5, <3>2, Numbers DEF Wrap, Slots
      <4>3. buf[Wrap(r_ind + j)] = src[Len(dst) + 1 + j]
        BY <1>3, <1>5, <3>2 DEF Ring
      <4>4. QED
        BY <1>1, <1>2, <1>7, <4>1, <4>2, <4>3 DEF TypeOK, Wrap
    <3>3. QED
      BY <1>5, <3>1, <3>2
  <2>3. QED
    BY <2>1, <2>2 DEF Ring
<1>14. (Len(dst) <= sent)' /\ PrefixOK'
  BY <1>1, <1>2, <1>3, Numbers DEF PrefixOK
<1>15. QED
  BY <1>8, <1>9, <1>10, <1>11, <1>13, <1>14 DEF IInv

(* receive() copies only when a byte is unread: the token it has taken is   *)
(* not that of the end of the file, or full holds another.                  *)
LEMMA CopyHasByte ==
  ASSUME IInv, RcvCopy
  PROVE  /\ Unread > 0
         /\ dst' = Append(dst, src[Len(dst) + 1])
<1>1. TypeOK
  BY DEF IInv
<1>2. rpc = "check" /\ ~ NothingLeft /\ ~ Stopped
  BY DEF RcvCopy, ReceiverGoes, Stopped, Stopping
<1>3. sem["full"] + One(spc \in {"post_mutex", "post_full"}) + 1
        = Unread + One(status = 0)
  BY <1>2 DEF IInv, FullTokens, One
<1>4. Unread > 0
  BY <1>1, <1>2, <1>3, Numbers DEF NothingLeft, One, Unread, TypeOK
<1>5. buf[Wrap(r_ind + 0)] = src[Len(dst) + 1 + 0]
  BY <1>1, <1>4, Numbers DEF IInv, Ring, Unread
<1>6. Wrap(r_ind + 0) = r_ind /\ Len(dst) + 1 + 0 = Len(dst) + 1
  BY <1>1, Numbers DEF Wrap
<1>7. QED
  BY <1>4, <1>5, <1>6 DEF RcvCopy

LEMMA RcvCopyIInv ==
  ASSUME IInv, RcvCopy
  PROVE  IInv'
<1>1. TypeOK /\ dst \in Seq(Byte)
  BY DEF IInv, TypeOK
<1>2. /\ rpc = "check" /\ rpc' = "post_mutex" /\ spc' = spc
      /\ UNCHANGED <<src, sent, status, s_ind, buf, sem>>
  BY DEF RcvCopy, ReceiverGoes
<1>3. Len(dst) <= sent /\ PrefixOK /\ Ring
  BY DEF IInv
<1>4. Unread > 0 /\ dst' = Append(dst, src[Len(dst) + 1])
  BY CopyHasByte
<1>5. ~ Stopped /\ ~ Stopped'
  BY <1>2 DEF Stopped, Stopping
<1>6. src[Len(dst) + 1] \in Byte /\ Len(dst) < sent
  BY <1>1, <1>3, <1>4, Numbers DEF Unread
<1>7. /\ dst' \in Seq(Byte) /\ Len(dst') = Len(dst) + 1
      /\ dst'[Len(dst) + 1] = src[Len(dst) + 1]
      /\ \A i \in 1 .. Len(dst) : dst'[i] = dst[i]
  BY <1>1, <1>4, <1>6
<1>8. Unread \in Nat /\ Unread' = Unread - 1
  BY <1>1, <1>2, <1>3, <1>4, <1>7, Numbers DEF Unread
<1>9. r_ind' = Wrap(r_ind + 1) /\ r_ind' \in Slots
  BY <1>1, AdvanceWraps DEF RcvCopy, TypeOK
<1>10. TypeOK'
  BY <1>1, <1>2, <1>7, <1>9 DEF TypeOK, ReceiverPC
<1>11. (Len(dst) <= sent)' /\ PrefixOK'
  BY <1>1, <1>2, <1>3, <1>6, <1>7, Numbers DEF PrefixOK
<1>12. EmptyTokens' /\ MutexToken'
  BY <1>2 DEF IInv, EmptyTokens, MutexToken, One, SenderInside, ReceiverInside
<1>13. FullTokens'
  BY <1>1, <1>2, <1>5, <1>8, Numbers DEF IInv, FullTokens, One
<1>14. EndOfFile'
  BY <1>2, <1>5 DEF IInv, EndOfFile
<1>15. Unread <= BufSz
  BY <1>1, <1>2, <1>5, <1>8, Numbers DEF IInv, EmptyTokens, FullTokens, One
<1>16. Ring'
  <2>1. s_ind' = Wrap(r_ind' + Unread')
    <3>1. s_ind' = Wrap(r_ind + Unread)
      BY <1>2, <1>3 DEF Ring
    <3>2. Wrap(Wrap(r_ind + 1) + (Unread - 1)) = Wrap(r_ind + Unread)
      BY <1>1, <1>4, <1>8, <1>15, WrapNext DEF TypeOK
    <3>3. QED
      BY <1>8, <1>9, <3>1, <3>2 DEF Wrap
  <2>2. ASSUME NEW j \in 0 .. (Unread' - 1)
        PROVE  (buf[Wrap(r_ind + j)])' = (src[Len(dst) + 1 + j])'
    <3>1. j + 1 \in 0 .. (Unread - 1)
      BY <1>8
    <3>2. buf[Wrap(r_ind + (j + 1))] = src[Len(dst) + 1 + (j + 1)]
      BY <1>3, <3>1 DEF Ring
    <3>3. Wrap(r_ind' + j) = Wrap(r_ind + (j + 1))
      BY <1>1, <1>8, <1>9, <1>15, <3>1, Numbers DEF Wrap
    <3>4. Len(dst') + 1 + j = Len(dst) + 1 + (j + 1)
      BY <1>1, <1>7, <1>8, Numbers
    <3>5. QED
      BY <1>2, <3>2, <3>3, <3>4 DEF Wrap
  <2>3. QED
    BY <2>1, <2>2 DEF Ring
<1>17. QED
  BY <1>10, <1>11, <1>12, <1>13, <1>14, <1>16 DEF IInv

LEMMA NextIInv == IInv /\ [Next]_vars => IInv'
<1> SUFFICES ASSUME IInv, [Next]_vars PROVE IInv'
  OBVIOUS
<1>1. CASE SndFill
  BY <1>1, SndFillIInv
<1>2. CASE RcvCopy
  BY <1>2, RcvCopyIInv
<1>3. CASE Next /\ ~ SndFill /\ ~ RcvCopy
  BY <1>3, ControlIInv
<1>4. CASE UNCHANGED vars
  BY <1>4
     DEF vars, IInv, TypeOK, PrefixOK, EmptyTokens, MutexToken, FullTokens,
         EndOfFile, Ring, Unread, Stopped, Wrap, SenderInside, ReceiverInside
<1>5. QED
  BY <1>1, <1>2, <1>3, <1>4

(* The token counts and the ring are right in every reachable state of the  *)
(* two processes.                                                           *)
THEOREM InvariantHolds == Spec => []IInv
<1>1. QED
  BY InitIInv, NextIInv, PTL DEF Spec

(* Indices stay in the ring and semaphores natural, for a ring of any size. *)
THEOREM TypesHold == Spec => []TypeOK
<1>1. IInv => TypeOK
  BY DEF IInv
<1>2. QED
  BY <1>1, InvariantHolds, PTL

(* What receive() writes is always a prefix of what send() reads.           *)
THEOREM PrefixHolds == Spec => []PrefixOK
<1>1. IInv => PrefixOK
  BY DEF IInv
<1>2. QED
  BY <1>1, InvariantHolds, PTL

(* send() and receive() are never both in their critical sections.          *)
THEOREM MutualExclusionHolds == Spec => []MutualExclusion
<1>1. ASSUME IInv PROVE MutualExclusion
  <2>1. TypeOK
    BY <1>1 DEF IInv
  <2>2. QED
    BY <1>1, <2>1, Numbers DEF IInv, MutexToken, MutualExclusion, One,
           SenderInside, ReceiverInside
<1>2. QED
  BY <1>1, InvariantHolds, PTL

(* The race at the end of the file costs at most one byte.                  *)
THEOREM LossBounded == Spec => []LosesAtMostLastByte
<1>1. ASSUME IInv PROVE LosesAtMostLastByte
  BY <1>1 DEF IInv, EndOfFile, LosesAtMostLastByte, Stopped, Unread
<1>2. QED
  BY <1>1, InvariantHolds, PTL

(* The ring implements the abstract transfer: the fork maps to its initial  *)
(* state, a copied byte to Deliver, leaving the loop to Close and every     *)
(* other step to a stutter.                                                 *)
LEMMA StepRefines ==
  ASSUME IInv, [Next]_vars
  PROVE  [Transfer!Next]_(Transfer!vars)
<1>1. TypeOK /\ PrefixOK
  BY DEF IInv
<1>2. CASE RcvCopy
  <2>1. Unread > 0 /\ dst' = Append(dst, src[Len(dst) + 1])
    BY <1>2, CopyHasByte
  <2>2. Len(dst) + 1 \in (Len(dst) + 1) .. Len(src)
    BY <1>1, <2>1, Numbers DEF Unread
  <2>3. dst' = SubSeq(src, 1, Len(dst) + 1)
    <3>1. src \in Seq(Byte) /\ dst \in Seq(Byte) /\ Len(dst) + 1 \in 1 .. Len(src)
      BY <1>1, <2>2, Numbers DEF TypeOK
    <3>2. \A i \in 1 .. Len(dst) : dst[i] = src[i]
      BY <1>1 DEF PrefixOK
    <3>3. QED
      BY <2>1, <3>1, <3>2
  <2>4. src' = src /\ ~ Stopped /\ ~ Stopped'
    BY <1>2 DEF RcvCopy, ReceiverGoes, Stopped, Stopping
  <2>5. Transfer!Deliver
    BY <2>2, <2>3, <2>4 DEF Transfer!Deliver, Stopped
  <2>6. QED
    BY <2>5 DEF Transfer!Next
<1>3. CASE RcvStop
  <2>1. UNCHANGED <<src, dst>> /\ ~ Stopped /\ Stopped'
    BY <1>3 DEF RcvStop, ReceiverGoes, Stopped, Stopping, files
  <2>2. LosesAtMostLastByte'
    BY <1>1, <1>3, NextIInv
       DEF IInv, EndOfFile, LosesAtMostLastByte, Stopped, Unread, Next, Receiver
  <2>3. Transfer!Close
    BY <2>1, <2>2 DEF Transfer!Close, Stopped, LosesAtMostLastByte
  <2>4. QED
    BY <2>3 DEF Transfer!Next
<1>4. CASE Next /\ ~ RcvCopy /\ ~ RcvStop
  <2>1. UNCHANGED <<src, dst>>
    BY <1>4
       DEF files, Next, Sender, Receiver, SndOpen, SndTest, SndWaitEmpty,
           SndWaitMutex, SndFill, SndEOF, SndPostMutex, SndPostFull, SndSpin,
           SndReap, RcvOpen, RcvWaitFull, RcvWaitMutex, RcvPostMutex,
           RcvPostEmpty, RcvFinish
  <2>2. Stopped' = Stopped
    BY <1>4
       DEF Stopped, Stopping, SenderGoes, ReceiverGoes,
           Next, Sender, Receiver, SndOpen, SndTest, SndWaitEmpty,
           SndWaitMutex, SndFill, SndEOF, SndPostMutex, SndPostFull, SndSpin,
           SndReap, RcvOpen, RcvWaitFull, RcvWaitMutex, RcvPostMutex,
           RcvPostEmpty, RcvFinish
  <2>3. QED
    BY <2>1, <2>2 DEF Transfer!vars, Stopped
<1>5. CASE UNCHANGED vars
  BY <1>5 DEF vars, Transfer!vars, Stopping
<1>6. QED
  BY <1>2, <1>3, <1>4, <1>5

THEOREM Refinement == Spec => TransferSpec
<1>1. Init => Transfer!Init
  BY DEF Init, Transfer!Init, Stopping
<1>2. IInv /\ [Next]_vars => [Transfer!Next]_(Transfer!vars)
  BY StepRefines
<1>3. QED
  BY <1>1, <1>2, InvariantHolds, PTL DEF Spec, Transfer!Spec, TransferSpec
=============================================================================
