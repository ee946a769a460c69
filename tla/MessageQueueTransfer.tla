------------------------ MODULE MessageQueueTransfer ------------------------
(***************************************************************************)
(* task3/msg-queue-SYSV: a child sends a file through a System V message   *)
(* queue in blocks of MSG_TEXT_SZ bytes, its parent writes the copy.  A    *)
(* message of another type, without data, is the last one and has the      *)
(* queue removed.                                                          *)
(*                                                                         *)
(* The key of the queue comes from the path of the program, so runs of it  *)
(* share a queue that outlives them: a run starts when the parent of the   *)
(* one before has ended, whatever that one's child still does, and the     *)
(* user may interrupt a run whose parent is there.  Nobody else removes    *)
(* the queue, so the receiver, the only one of its time, finds it.         *)
(*                                                                         *)
(* strcpy takes a block as a string.  Behind a block without a NUL lies a  *)
(* zero byte of the heap, which lands behind mtext: in read_sz where the   *)
(* compiler puts read_sz there (gcc without optimisation, as CMakeLists    *)
(* builds it), else on nothing that is used.  ftok, fork, the reads of the *)
(* source and the writes of the copy succeed.                              *)
(***************************************************************************)
EXTENDS Integers, Sequences, FiniteSets, SequencesExt

CONSTANTS
  TextSz,    \* MSG_TEXT_SZ (128)
  QBytes,    \* msg_qbytes: what the queue holds, in bytes and in messages
  Byte,      \* the values of a byte
  NUL,       \* the byte 0
  Junk,      \* what an uninitialised byte of the stack holds
  Sources,   \* the contents a source file may have
  MaxRuns    \* bound: how often the program is started

ASSUME TextSzAssumption == TextSz \in Nat \ {0}
ASSUME QBytesAssumption == QBytes \in Nat /\ QBytes >= TextSz
ASSUME ByteAssumption == NUL \in Byte /\ Junk \in Byte \ {NUL}
ASSUME SourcesAssumption == Sources \subseteq Seq(Byte)
ASSUME MaxRunsAssumption == MaxRuns \in Nat

VARIABLES
  behind,    \* the byte behind mtext is the low byte of read_sz
  queue,     \* the queue that has the key: id 0 when there is none
  src, dst,  \* the files of each run
  msgid,     \* the queue each run works on
  spc, rpc,  \* where the sender and the receiver of each run are
  sent,      \* the bytes each sender has read
  buf,       \* buf of each sender
  mtext,     \* s_msg.mtext of each sender
  found      \* what each run met: the messages, and whether nobody sends more

queueVars == <<behind, queue, src, dst, msgid, spc, rpc, sent, buf, mtext, found>>

Runs == 1 .. MaxRuns
Ended == {"done", "failed", "killed"}
Block == [1 .. TextSz -> Byte]
STD_MSG_TYPE == 1
LAST_MSG_TYPE == 255
LastMessage == [mtype |-> LAST_MSG_TYPE, text |-> << >>]

(* malloc gives the zero bytes of a fresh heap, the stack what it held.     *)
QueueInit ==
  /\ behind \in BOOLEAN
  /\ queue = [id |-> 0, msgs |-> << >>]
  /\ src \in [Runs -> Sources]
  /\ dst = [r \in Runs |-> << >>]
  /\ msgid = [r \in Runs |-> 0]
  /\ spc = [r \in Runs |-> "idle"]
  /\ rpc = [r \in Runs |-> "idle"]
  /\ sent = [r \in Runs |-> 0]
  /\ buf = [r \in Runs |-> [n \in 1 .. TextSz |-> NUL]]
  /\ mtext = [r \in Runs |-> [n \in 1 .. TextSz |-> Junk]]
  /\ found = [r \in Runs |-> [msgs |-> << >>, alone |-> TRUE]]

SenderGoes(r, from, to) == spc[r] = from /\ spc' = [spc EXCEPT ![r] = to]
ReceiverGoes(r, from, to) == rpc[r] = from /\ rpc' = [rpc EXCEPT ![r] = to]

SendingTo(id) == { s \in Runs : msgid[s] = id /\ spc[s] \in {"open", "send", "last"} }

(* msgget with IPC_CREAT: the queue that is there, or a new one.            *)
getmsgid(r) ==
  /\ queue' = IF queue.id = 0 THEN [id |-> r, msgs |-> << >>] ELSE queue
  /\ msgid' = [msgid EXCEPT ![r] = queue'.id]

(* The user starts the program, which forks.                                *)
Start(r) ==
  /\ r > 1 => rpc[r - 1] \in Ended
  /\ ReceiverGoes(r, "idle", "open")
  /\ spc' = [spc EXCEPT ![r] = "open"]
  /\ getmsgid(r)
  /\ found' = [found EXCEPT ![r] = [msgs |-> queue'.msgs,
                                    alone |-> SendingTo(queue'.id) = {}]]
  /\ UNCHANGED <<behind, src, dst, sent, buf, mtext>>

(* The user presses Ctrl-C.                                                 *)
Interrupt(r) ==
  /\ rpc[r] \in {"open", "receive"}
  /\ rpc' = [rpc EXCEPT ![r] = "killed"]
  /\ spc' = [spc EXCEPT ![r] = IF @ \in Ended THEN @ ELSE "killed"]
  /\ UNCHANGED <<behind, queue, src, dst, msgid, sent, buf, mtext, found>>

(***************************************************************************)
(* send.                                                                   *)
(***************************************************************************)
SndOpen(r) ==
  /\ \E to \in {"send", "failed"} : SenderGoes(r, "open", to)
  /\ UNCHANGED <<behind, queue, src, dst, msgid, rpc, sent, buf, mtext, found>>

(* The bytes in the queue.                                                  *)
Bytes(msgs) ==
  { place \in (1 .. Len(msgs)) \X (1 .. TextSz) : place[2] <= Len(msgs[place[1]].text) }
queued == Cardinality(Bytes(queue.msgs))

(* Mutant: msgsnd gives up when the queue is full.                          *)
msgsndNoWait(r, msg) ==
  queue' = IF /\ queue.id = msgid[r]
              /\ queued + Len(msg.text) <= QBytes
              /\ Len(queue.msgs) < QBytes
           THEN [queue EXCEPT !.msgs = Append(@, msg)]
           ELSE queue

(* msgsnd waits for room; it fails, which nobody looks at, when the queue   *)
(* has been removed.                                                        *)
msgsnd(r, msg) ==
  IF queue.id = msgid[r]
  THEN /\ queued + Len(msg.text) <= QBytes
       /\ Len(queue.msgs) < QBytes
       /\ queue' = [queue EXCEPT !.msgs = Append(@, msg)]
  ELSE UNCHANGED queue

Smaller(a, b) == IF a < b THEN a ELSE b
Left(r) == Smaller(TextSz, Len(src[r]) - sent[r])

(* buf after the read, and whether strcpy meets no NUL in it.               *)
ReadInto(r) == [n \in 1 .. TextSz |->
                  IF n <= Left(r) THEN src[r][sent[r] + n] ELSE buf[r][n]]
Unterminated(b) == \A n \in 1 .. TextSz : b[n] # NUL

(* strcpy leaves what lies behind the NUL as it was.                        *)
strcpy(old, b) ==
  [n \in 1 .. TextSz |-> IF \E m \in 1 .. (n - 1) : b[m] = NUL THEN old[n] ELSE b[n]]

read_sz(r) == IF behind /\ Unterminated(ReadInto(r)) THEN 0 ELSE Left(r)

(* A block that is not full is followed by the last message.                *)
AfterBlock(r) == IF read_sz(r) # TextSz THEN "last" ELSE "send"

SndBlock(r) ==
  /\ read_sz(r) # 0
  /\ SenderGoes(r, "send", AfterBlock(r))
  /\ buf' = [buf EXCEPT ![r] = ReadInto(r)]
  /\ mtext' = [mtext EXCEPT ![r] = strcpy(@, buf'[r])]
  /\ msgsnd(r, [mtype |-> STD_MSG_TYPE, text |-> SubSeq(mtext'[r], 1, read_sz(r))])
  /\ sent' = [sent EXCEPT ![r] = @ + Left(r)]
  /\ UNCHANGED <<behind, src, dst, msgid, rpc, found>>

(* After a short block, or when read_sz is found 0.                         *)
SndLast(r) ==
  /\ \/ spc[r] = "last"
     \/ spc[r] = "send" /\ read_sz(r) = 0
  /\ spc' = [spc EXCEPT ![r] = "done"]
  /\ msgsnd(r, LastMessage)
  /\ UNCHANGED <<behind, src, dst, msgid, rpc, sent, buf, mtext, found>>

(***************************************************************************)
(* receive.                                                                *)
(***************************************************************************)

(* An older copy is removed first.                                          *)
RcvOpen(r) ==
  /\ \E to \in {"receive", "failed"} : ReceiverGoes(r, "open", to)
  /\ UNCHANGED <<behind, queue, src, dst, msgid, spc, sent, buf, mtext, found>>

(* msgrcv of any type takes the oldest message.                             *)
RcvBlock(r) ==
  /\ rpc[r] = "receive"
  /\ queue.msgs # << >>
  /\ Head(queue.msgs).mtype # LAST_MSG_TYPE
  /\ dst' = [dst EXCEPT ![r] = @ \o Head(queue.msgs).text]
  /\ queue' = [queue EXCEPT !.msgs = Tail(@)]
  /\ UNCHANGED <<behind, src, msgid, spc, rpc, sent, buf, mtext, found>>

(* Mutant: the queue is left for the next run.                              *)
RcvLastKeeping(r) ==
  /\ queue.msgs # << >>
  /\ Head(queue.msgs).mtype = LAST_MSG_TYPE
  /\ ReceiverGoes(r, "receive", "done")
  /\ queue' = [queue EXCEPT !.msgs = Tail(@)]
  /\ UNCHANGED <<behind, src, dst, msgid, spc, sent, buf, mtext, found>>

(* IPC_RMID removes the queue with what is in it.                           *)
RcvLast(r) ==
  /\ queue.msgs # << >>
  /\ Head(queue.msgs).mtype = LAST_MSG_TYPE
  /\ ReceiverGoes(r, "receive", "done")
  /\ queue' = [id |-> 0, msgs |-> << >>]
  /\ UNCHANGED <<behind, src, dst, msgid, spc, sent, buf, mtext, found>>

(***************************************************************************)
(* The specification: the processes are scheduled again and again; nothing *)
(* says that the user starts or interrupts the program.                    *)
(***************************************************************************)
Sender(r) == SndOpen(r) \/ SndBlock(r) \/ SndLast(r)
Receiver(r) == RcvOpen(r) \/ RcvBlock(r) \/ RcvLast(r)

QueueNext ==
  \E r \in Runs : Start(r) \/ Interrupt(r) \/ Sender(r) \/ Receiver(r)

QueueSpec == QueueInit /\ [][QueueNext]_queueVars

QueueFairSpec ==
  QueueSpec /\ \A r \in Runs : WF_queueVars(Sender(r)) /\ WF_queueVars(Receiver(r))

(***************************************************************************)
(* Properties.                                                             *)
(***************************************************************************)
Message ==
  { msg \in [mtype : {STD_MSG_TYPE, LAST_MSG_TYPE}, text : Seq(Byte)] :
      Len(msg.text) <= TextSz }

(* The types of the variables; the queue stays within its limit.            *)
QueueTypeOK ==
  /\ behind \in BOOLEAN
  /\ queue \in [id : {0} \union Runs, msgs : Seq(Message)]
  /\ queued <= QBytes /\ Len(queue.msgs) <= QBytes
  /\ src \in [Runs -> Sources]
  /\ dst \in [Runs -> Seq(Byte)]
  /\ msgid \in [Runs -> {0} \union Runs]
  /\ spc \in [Runs -> {"idle", "open", "send", "last"} \union Ended]
  /\ rpc \in [Runs -> {"idle", "open", "receive"} \union Ended]
  /\ sent \in [Runs -> Nat] /\ \A r \in Runs : sent[r] <= Len(src[r])
  /\ buf \in [Runs -> Block]
  /\ mtext \in [Runs -> Block]
  /\ found \in [Runs -> [msgs : Seq(Message), alone : BOOLEAN]]

(* The data a run finds in the queue, up to a last message.                 *)
Lasts(r) == { n \in 1 .. Len(found[r].msgs) : found[r].msgs[n].mtype = LAST_MSG_TYPE }

Joined(msgs, upto) == FlattenSeq([n \in 1 .. upto |-> msgs[n].text])

Before(r) ==
  Joined(found[r].msgs, IF Lasts(r) = {} THEN Len(found[r].msgs)
                                         ELSE Min(Lasts(r)) - 1)

Own(r) == SubSeq(dst[r], Len(Before(r)) + 1, Len(dst[r]))

(* Position n of a copy may be wrong only behind a NUL of the same block.   *)
BehindNUL(source, n) ==
  \E m \in 1 .. (n - 1) :
    (m - 1) \div TextSz = (n - 1) \div TextSz /\ source[m] = NUL

(* The sender may take a block without NUL for the end of the file, but not *)
(* the first block of a file that does not fill one.                        *)
CutAt(r, at) ==
  /\ behind
  /\ at % TextSz = 0
  /\ Len(src[r]) >= TextSz
  /\ \A n \in (at + 1) .. Smaller(at + TextSz, Len(src[r])) : src[r][n] # NUL

(* What send and receive make of a file although the queue outlives every   *)
(* run: unless the sender of an earlier run still sends to it, the copy is  *)
(* what was found in the queue and then the file; without an old last       *)
(* message it is complete but for a cut, and right but behind a NUL.        *)
CopyExact ==
  \A r \in Runs : found[r].alone =>
    /\ IsPrefix(dst[r], Before(r)) \/ IsPrefix(Before(r), dst[r])
    /\ Len(Own(r)) <= Len(src[r])
    /\ \A n \in 1 .. Len(Own(r)) : Own(r)[n] = src[r][n] \/ BehindNUL(src[r], n)
    /\ Lasts(r) # {} => Own(r) = << >>
    /\ rpc[r] = "done" =>
         /\ IsPrefix(Before(r), dst[r])
         /\ Lasts(r) # {} \/ Len(Own(r)) = Len(src[r]) \/ CutAt(r, Len(Own(r)))

Inv == QueueTypeOK /\ CopyExact

(***************************************************************************)
(* The inductive invariant: which runs have receivers at work, on which    *)
(* queue, and how far the sender of a run has come in its file.  The       *)
(* messages of a run that has the queue for itself follow one another: the *)
(* ones it has found, its blocks, its last message.  Those it has received *)
(* are in the copy, the others in the queue.                               *)
(***************************************************************************)
Active(r) == rpc[r] \in {"open", "receive"}

(* One receiver at a time, which keeps its queue.                           *)
RunsInTurn ==
  \A r \in Runs :
    /\ rpc[r] # "idle" => \A s \in 1 .. (r - 1) : rpc[s] \in Ended
    /\ rpc[r] = "idle" <=> spc[r] = "idle"
    /\ rpc[r] = "idle" => dst[r] = << >>
    /\ Active(r) => queue.id = msgid[r] /\ msgid[r] # 0
    /\ Active(r) /\ found[r].alone => SendingTo(queue.id) \subseteq {r}

SenderKept(r) ==
  /\ spc[r] \in {"idle", "open", "failed"} => sent[r] = 0
  /\ sent[r] = 0 => buf[r] = [n \in 1 .. TextSz |-> NUL]
  /\ spc[r] = "send" => sent[r] % TextSz = 0
  /\ spc[r] = "last" => sent[r] = Len(src[r])
  /\ spc[r] = "done" => sent[r] = Len(src[r]) \/ CutAt(r, sent[r])
  /\ sent[r] % TextSz = 0 \/ sent[r] = Len(src[r])

BlocksSent(r) == (sent[r] + TextSz - 1) \div TextSz
LastSent(r) == IF spc[r] = "done" THEN 1 ELSE 0
Received(r) == Len(found[r].msgs) + BlocksSent(r) + LastSent(r) - Len(queue.msgs)

IsBlock(source, number, msg) ==
  LET at == (number - 1) * TextSz
  IN /\ msg.mtype = STD_MSG_TYPE
     /\ Len(msg.text) = Smaller(TextSz, Len(source) - at)
     /\ \A n \in 1 .. Len(msg.text) :
          msg.text[n] = source[at + n] \/ BehindNUL(source, at + n)

(* What message k of the stream of a run is.                                *)
InStream(before, source, blocks, k, msg) ==
  LET own == k - Len(before)
  IN IF own <= 0 THEN msg = before[k]
     ELSE IF own <= blocks THEN IsBlock(source, own, msg)
     ELSE msg = LastMessage

InQueue(r) ==
  \A n \in 1 .. Len(queue.msgs) :
    InStream(found[r].msgs, src[r], BlocksSent(r), Received(r) + n, queue.msgs[n])

InCopy(r) ==
  LET own == Received(r) - Len(found[r].msgs)
  IN /\ Received(r) >= 0
     /\ own <= BlocksSent(r)
     /\ own <= 0 => dst[r] = Joined(found[r].msgs, Received(r))
     /\ own > 0 =>
          /\ IsPrefix(Before(r), dst[r])
          /\ Len(Own(r)) = Smaller(own * TextSz, sent[r])
          /\ \A n \in 1 .. Len(Own(r)) : Own(r)[n] = src[r][n] \/ BehindNUL(src[r], n)
     /\ \A n \in Lasts(r) : Received(r) < n

StreamKept == \A r \in Runs : Active(r) /\ found[r].alone => InQueue(r) /\ InCopy(r)

QueueInv ==
  /\ Inv
  /\ RunsInTurn
  /\ \A r \in Runs : SenderKept(r)
  /\ StreamKept

(* A receiver that receives, and whose sender has found the file, ends; it  *)
(* sets free every sender that waits for room in the queue, an orphan of    *)
(* the run before too, by emptying the queue or by removing it.  Only the   *)
(* user can prevent it.                                                     *)
RunsEnd ==
  \A r \in Runs :
    /\ rpc[r] = "receive" /\ spc[r] \in {"send", "last", "done"} ~>
         rpc[r] \in {"done", "killed"}
    /\ \A s \in Runs :
         rpc[r] = "receive" /\ msgid[s] = msgid[r] /\ spc[s] \in {"send", "last"} ~>
           spc[s] \in Ended \/ rpc[r] = "killed"
=============================================================================
