----------------------------- MODULE DuplexPipe -----------------------------
(***************************************************************************)
(* task2/duplex-pipe: the parent sends its file to the child over one pipe *)
(* and the child, when it has all of it, sends its copy back over another  *)
(* one, into the file it came from.  A packet is a sequence number, two    *)
(* characters of length and the data; one that is not full is the last.    *)
(*                                                                         *)
(* A pipe is the one of Linux: a ring of pages.  A write puts the part of  *)
(* it that is no whole page behind the bytes of the last page in use, if   *)
(* it fits there, and the rest into fresh pages; it sleeps while no page   *)
(* is free and goes on in fresh pages.  Nobody gets in between except      *)
(* while it sleeps.  (No write starts while a page is read in part.)       *)
(*                                                                         *)
(* What stdio holds back is not told apart from what is in a file: a file  *)
(* is closed before it is read again.                                      *)
(***************************************************************************)
EXTENDS Integers, Sequences, FiniteSets

CONSTANTS
  Base,     \* the values of a character, and PCG_SZ (256)
  PageSz,   \* the bytes of a page (4096)
  Pages,    \* the pages of a pipe (16)
  Sources   \* the contents the file may have

ASSUME BaseAssumption == Base \in Nat /\ Base > 2 /\ Base % 2 = 0
ASSUME PipeAssumption == PageSz \in Nat \ {0} /\ Pages \in Nat \ {0}

Byte == 0 .. Base - 1

ASSUME SourcesAssumption == Sources \subseteq Seq(Byte)

BufSz == (Base - 2) * Base + 3    \* BUF_SZ, 254*256+3

(* Mutant: a character is kept free for a terminating zero.                 *)
MaxDataAsString == BufSz - 4

MaxData == BufSz - 3

(* A full packet fills every page but the last, and more than half of it.   *)
ASSUME LayoutAssumption ==
  BufSz \div PageSz = Pages - 1 /\ 2 * (BufSz % PageSz) > PageSz

Proc == {"parent", "child"}
Other(p) == IF p = "parent" THEN "child" ELSE "parent"

VARIABLES
  orig,   \* history: the file the user wants echoed
  file,   \* the parent's file, src, and the child's, dst
  pc,     \* where the processes are
  i,      \* the sequence number in p_snd and p_rcv
  pos,    \* how much of its file a process has read in p_snd
  left,   \* the bytes of the packet that write() has not put into the pipe
  pipe,   \* pipe[p]: what p has written, each byte with the page it lies in
  buf,    \* the buffer of p_rcv
  fd      \* <<r, p, n>>: process r has fd[n] of pipe[p] open

echoVars == <<orig, file, pc, i, pos, left, pipe, buf, fd>>

PC == {"snd_open", "snd", "write", "write_last", "snd_close", "rcv_open",
       "rcv", "rcv_null", "done", "crashed", "killed"}
Ended == {"done", "crashed", "killed"}

EchoInit ==
  /\ orig \in Sources
  /\ file = [p \in Proc |-> IF p = "parent" THEN orig ELSE << >>]
  /\ pc = [parent |-> "snd_open", child |-> "rcv_open"]
  /\ i = [p \in Proc |-> 1]
  /\ pos = [p \in Proc |-> 0]
  /\ left = [p \in Proc |-> << >>]
  /\ pipe = [p \in Proc |-> << >>]
  /\ buf = [p \in Proc |-> [n \in 1 .. BufSz |-> 0]]
  /\ fd = Proc \X Proc \X {0, 1}

Goes(p, from, to) == pc[p] = from /\ pc' = [pc EXCEPT ![p] = to]

ExitFds(p) == { d \in fd : d[1] # p }
HasReader(p) == \E r \in Proc : <<r, p, 0>> \in fd
HasWriter(p) == \E r \in Proc : <<r, p, 1>> \in fd

(***************************************************************************)
(* The pipe.                                                               *)
(***************************************************************************)
PagesOf(s) == { s[n][2] : n \in DOMAIN s }
LastPage(s) == IF s = << >> THEN 0 ELSE s[Len(s)][2]
InLastPage(s) == Cardinality({ n \in DOMAIN s : s[n][2] = LastPage(s) })
Room(s) == (Pages - Cardinality(PagesOf(s))) * PageSz
Lesser(m, n) == IF m < n THEN m ELSE n

(* What a write puts into the page in use, and then into fresh ones.        *)
Tail0(s, m) ==
  IF s # << >> /\ InLastPage(s) + (Len(m) % PageSz) <= PageSz
  THEN Len(m) % PageSz
  ELSE 0

Merged(s, m) == s \o [n \in 1 .. Tail0(s, m) |-> <<m[n], LastPage(s)>>]

Fresh(s, m) ==
  s \o [n \in 1 .. Lesser(Len(m), Room(s)) |->
          <<m[n], LastPage(s) + 1 + ((n - 1) \div PageSz)>>]

Unwritten(s, m) == SubSeq(m, Room(s) + 1, Len(m))

(***************************************************************************)
(* The header.                                                             *)
(***************************************************************************)
Char(n) == n % Base

num_pcg(n) == Char((n \div Base) + 1)

(* Mutant: the number of the last characters is not moved by one.           *)
num_l_pcg_plain(n) == Char(n % Base)

num_l_pcg(n) == Char((n % Base) + 1)

length(b) == Char(b[2] - 1) * Base + Char(b[3] - 1)

Numbers == Base \div 2    \* 128

NextNumber(n) == (n + 1) % Numbers

(***************************************************************************)
(* p_snd                                                                   *)
(***************************************************************************)

(* fread(.., NULL) crashes when the file cannot be opened.                  *)
SndOpen(p) ==
  /\ \/ /\ Goes(p, "snd_open", "snd")
        /\ fd' = fd \ {<<p, p, 0>>}
     \/ /\ Goes(p, "snd_open", "crashed")
        /\ fd' = ExitFds(p)
  /\ i' = [i EXCEPT ![p] = 1]
  /\ pos' = [pos EXCEPT ![p] = 0]
  /\ UNCHANGED <<orig, file, left, pipe, buf>>

(* What the next fread returns.                                             *)
last_sym(p) == Lesser(Len(file[p]) - pos[p], MaxData)

PacketOf(data, number) ==
  <<number, num_pcg(Len(data)), num_l_pcg(Len(data))>> \o data

Packet(p) == PacketOf(SubSeq(file[p], pos[p] + 1, pos[p] + last_sym(p)), i[p])

AfterWrite(p, last) == IF last THEN "snd_close" ELSE "snd"

(* A packet is filled and its write begins.                                 *)
SndPacket(p) ==
  LET m == Packet(p)
      s == Merged(pipe[p], m)
      rest == SubSeq(m, Len(s) - Len(pipe[p]) + 1, Len(m))
      last == last_sym(p) < MaxData
  IN /\ HasReader(p)
     /\ i' = [i EXCEPT ![p] = NextNumber(@)]
     /\ pos' = [pos EXCEPT ![p] = @ + last_sym(p)]
     /\ pipe' = [pipe EXCEPT ![p] = Fresh(s, rest)]
     /\ left' = [left EXCEPT ![p] = Unwritten(s, rest)]
     /\ Goes(p, "snd", IF Unwritten(s, rest) = << >> THEN AfterWrite(p, last)
                       ELSE IF last THEN "write_last" ELSE "write")
     /\ UNCHANGED <<orig, file, buf, fd>>

(* A write that has slept finds free pages.                                 *)
SndResume(p, last) ==
  LET from == IF last THEN "write_last" ELSE "write"
  IN /\ HasReader(p)
     /\ Room(pipe[p]) > 0
     /\ pipe' = [pipe EXCEPT ![p] = Fresh(@, left[p])]
     /\ left' = [left EXCEPT ![p] = Unwritten(pipe[p], @)]
     /\ Goes(p, from, IF left'[p] = << >> THEN AfterWrite(p, last) ELSE from)
     /\ UNCHANGED <<orig, file, i, pos, buf, fd>>

(* SIGPIPE.                                                                 *)
SndKilled(p) ==
  /\ ~ HasReader(p)
  /\ \E from \in {"snd", "write", "write_last"} : Goes(p, from, "killed")
  /\ fd' = ExitFds(p)
  /\ UNCHANGED <<orig, file, i, pos, left, pipe, buf>>

(* The parent goes on to receive; the child has done its work.              *)
SndClose(p) ==
  /\ Goes(p, "snd_close", IF p = "parent" THEN "rcv_open" ELSE "done")
  /\ fd' = IF p = "parent" THEN fd \ {<<p, p, 1>>} ELSE ExitFds(p)
  /\ UNCHANGED <<orig, file, i, pos, left, pipe, buf>>

(***************************************************************************)
(* p_rcv                                                                   *)
(***************************************************************************)

(* Mutant: the write end is not closed.                                     *)
RcvFdsBoth(p) == fd

RcvFds(p) == fd \ {<<p, Other(p), 1>>}

(* The file is emptied, or fopen fails and its result is not looked at.     *)
RcvOpen(p) ==
  /\ \/ /\ Goes(p, "rcv_open", "rcv")
        /\ file' = [file EXCEPT ![p] = << >>]
     \/ /\ Goes(p, "rcv_open", "rcv_null")
        /\ UNCHANGED file
  /\ i' = [i EXCEPT ![p] = 1]
  /\ fd' = RcvFds(p)
  /\ UNCHANGED <<orig, pos, left, pipe, buf>>

(* What read() leaves in the buffer: the bytes of the pipe, then those of   *)
(* the packet before.                                                       *)
Filled(p) ==
  [n \in 1 .. BufSz |-> IF n <= Len(pipe[Other(p)]) THEN pipe[Other(p)][n][1]
                                                     ELSE buf[p][n]]

(* What fwrite() finds from the fourth character on; beyond the buffer lies *)
(* memory of others.                                                        *)
Written(b, beyond) ==
  [n \in 1 .. length(b) |-> IF n <= MaxData THEN b[n + 3] ELSE beyond]

Awaited(b, number) == b[1] = number

(* One read; a packet with another number than the next is dropped.         *)
RcvRead(p) ==
  /\ Goes(p, "rcv", "rcv")
  /\ pipe[Other(p)] # << >>
  /\ pipe' = [pipe EXCEPT ![Other(p)] = SubSeq(@, BufSz + 1, Len(@))]
  /\ buf' = [buf EXCEPT ![p] = Filled(p)]
  /\ IF Awaited(Filled(p), i[p])
     THEN /\ i' = [i EXCEPT ![p] = NextNumber(@)]
          /\ \E beyond \in Byte :
               file' = [file EXCEPT ![p] = @ \o Written(Filled(p), beyond)]
     ELSE UNCHANGED <<i, file>>
  /\ UNCHANGED <<orig, pos, left, fd>>

(* fwrite or fclose crashes without a file.                                 *)
RcvCrash(p) ==
  /\ Goes(p, "rcv_null", "crashed")
  /\ pipe[Other(p)] # << >> \/ ~ HasWriter(Other(p))
  /\ fd' = ExitFds(p)
  /\ UNCHANGED <<orig, file, i, pos, left, pipe, buf>>

(* read returns 0 when nobody has the write end open.                       *)
RcvClose(p) ==
  /\ Goes(p, "rcv", IF p = "parent" THEN "done" ELSE "snd_open")
  /\ pipe[Other(p)] = << >>
  /\ ~ HasWriter(Other(p))
  /\ fd' = IF p = "parent" THEN ExitFds(p) ELSE fd \ {<<p, Other(p), 0>>}
  /\ UNCHANGED <<orig, file, i, pos, left, pipe, buf>>

(***************************************************************************)
(* The specification: both processes are scheduled again and again.        *)
(***************************************************************************)
Process(p) ==
  \/ SndOpen(p) \/ SndPacket(p) \/ SndKilled(p) \/ SndClose(p)
  \/ \E last \in BOOLEAN : SndResume(p, last)
  \/ RcvOpen(p) \/ RcvRead(p) \/ RcvCrash(p) \/ RcvClose(p)

EchoNext == \E p \in Proc : Process(p)

EchoSpec == EchoInit /\ [][EchoNext]_echoVars

EchoFairSpec == EchoSpec /\ \A p \in Proc : WF_echoVars(Process(p))

(***************************************************************************)
(* Properties.                                                             *)
(***************************************************************************)

(* The types of the variables; a pipe keeps to its pages.                   *)
EchoTypeOK ==
  /\ orig \in Sources
  /\ file \in [Proc -> Seq(Byte)]
  /\ pc \in [Proc -> PC]
  /\ i \in [Proc -> 0 .. Numbers - 1]
  /\ pos \in [Proc -> Nat]
  /\ left \in [Proc -> Seq(Byte)]
  /\ pipe \in [Proc -> Seq(Byte \X Nat)]
  /\ \A p \in Proc : Cardinality(PagesOf(pipe[p])) <= Pages
  /\ buf \in [Proc -> [1 .. BufSz -> Byte]]
  /\ fd \subseteq Proc \X Proc \X {0, 1}

(* read() is asked for a full packet and knows no others.  A full packet    *)
(* uses every page of the pipe and leaves too little of the last one for    *)
(* the next full packet to start there: while that much is still to come,   *)
(* a read gets all of it.                                                   *)
FullPacketsWhole ==
  /\ EchoTypeOK
  /\ \A p \in Proc :
       pipe[p] # << >> /\ Len(pipe[p]) + Len(left[p]) >= BufSz =>
         Len(pipe[p]) >= BufSz

(* The last packet of a content falls into two reads when its odd bytes fit *)
(* behind a full packet and the rest has to wait for a page.                *)
Splits(s) ==
  LET last == (Len(s) % MaxData) + 3
      odd == last % PageSz
  IN /\ Len(s) >= MaxData
     /\ last > PageSz
     /\ odd \in 1 .. PageSz - (BufSz % PageSz)

(* README.md, task 2, has the checksums of the input and the received file  *)
(* compared.  What the code keeps of it: unless the last packet falls apart *)
(* the child has the whole file before it sends it back, and when both      *)
(* processes get to their end it has come back as it was sent.              *)
EchoIntact ==
  ~ Splits(orig) =>
    /\ (\A p \in Proc : pc[p] = "done") => file["parent"] = orig
    /\ pc["child"] \in {"snd_open", "snd", "snd_close", "done"}
         /\ pos["parent"] = Len(orig)
       => file["child"] = orig

(***************************************************************************)
(* The inductive invariant.  First where the two processes can be together *)
(* and what they have open there.                                          *)
(***************************************************************************)
Sending == {"snd", "write", "write_last"}
ToSend == {"snd_open", "snd_close"} \union Sending
ToReceive == {"rcv_open", "rcv", "rcv_null"}
BeforeSending(p) == IF p = "parent" THEN {} ELSE ToReceive
BeforeReceiving(p) == IF p = "parent" THEN ToSend ELSE {}
HasNotSent(p) ==
  {"snd_open"} \union (IF p = "parent" THEN {} ELSE ToReceive \union {"crashed"})
HasSent(p) ==
  {"write_last", "snd_close", "done"} \union (IF p = "parent" THEN ToReceive ELSE {})

FdsKept ==
  \A p \in Proc :
    /\ <<p, p, 0>> \in fd <=> pc[p] \in BeforeSending(p) \union {"snd_open"}
    /\ <<p, p, 1>> \in fd <=> pc[p] \in BeforeSending(p) \union ToSend
    /\ <<p, Other(p), 0>> \in fd <=> pc[p] \in BeforeReceiving(p) \union ToReceive
    /\ <<p, Other(p), 1>> \in fd <=> pc[p] \in BeforeReceiving(p) \union {"rcv_open"}

TurnsKept ==
  /\ pc["parent"] \in ToSend => pc["child"] \in ToReceive \union {"crashed"}
  /\ pc["parent"] = "killed" => pc["child"] = "crashed"
  /\ pc["parent"] = "done" => pc["child"] \in Ended

(***************************************************************************)
(* How the bytes of a pipe lie in its pages: from a fresh page on, but for *)
(* those behind a full packet, which share its last page.  A write that    *)
(* sleeps has put nothing there, or the odd bytes of the last packet.      *)
(***************************************************************************)
Tidy(s) ==
  \A n \in DOMAIN s : s[n][2] = IF n <= BufSz THEN s[1][2] + ((n - 1) \div PageSz)
                                               ELSE LastPage(s)

LayoutKept(p) ==
  /\ pc[p] = "snd" => Tidy(pipe[p]) /\ Len(pipe[p]) \in {0, BufSz}
  /\ pc[p] = "write" => Len(pipe[p]) \in {0, BufSz} /\ Len(left[p]) = BufSz
  /\ pc[p] \in {"write", "write_last", "killed"} \/ left[p] = << >>
  /\ Len(pipe[p]) < 2 * BufSz
  /\ left[p] # << >> =>
       /\ Tidy(pipe[p])
       /\ \/ Len(pipe[p]) \in {0, BufSz} /\ Len(left[p]) <= BufSz
          \/ \E odd \in 1 .. PageSz - 1 :
               /\ Len(pipe[p]) \in {odd, BufSz + odd}
               /\ Len(left[p]) < BufSz - odd
               /\ Len(left[p]) <= (Pages - 1) * PageSz

(***************************************************************************)
(* What is under way: a packet or two of the content that is sent, which   *)
(* carry on where the receiver is.                                         *)
(***************************************************************************)
Content(p) == IF p = "parent" THEN orig ELSE file["child"]

PosKept(p) ==
  /\ pos[p] <= Len(Content(p))
  /\ pc[p] \in HasNotSent(p) => pos[p] = 0 /\ pipe[p] = << >> /\ left[p] = << >>
  /\ pc[p] \in {"snd", "write"} => pos[p] % MaxData = 0
  /\ pc[p] \in HasSent(p) => pos[p] = Len(Content(p))
  /\ pc["parent"] \in ToSend \union {"rcv_open"} => file["parent"] = orig

Stream(p) == [n \in DOMAIN pipe[p] |-> pipe[p][n][1]] \o left[p]
Got(p) == IF pc[p] = "rcv" THEN file[p] ELSE << >>
Expected(p) == IF pc[p] = "rcv" THEN i[p] ELSE 1

(* The data of the packet that begins at a place of a content.              *)
DataAt(content, at) ==
  SubSeq(content, at + 1, at + Lesser(Len(content) - at, MaxData))

UnderWay(p, bytes, at, next) ==
  Stream(p) = bytes /\ pos[p] = at /\ (pc[p] \in Sending => i[p] = next)

InFlight(p) ==
  LET number == Expected(Other(p))
      at == Len(Got(Other(p)))
      data == DataAt(Content(p), at)
      more == DataAt(Content(p), at + Len(data))
  IN /\ at <= Len(Content(p)) /\ Got(Other(p)) = SubSeq(Content(p), 1, at)
     /\ left[p] # << >> => Len(pipe[p]) \in {0, BufSz}
     /\ pc[p] \in HasNotSent(p) => number = 1
     /\ \/ UnderWay(p, << >>, at, number)
        \/ UnderWay(p, PacketOf(data, number), at + Len(data), NextNumber(number))
        \/ /\ Len(data) = MaxData
           /\ UnderWay(p, PacketOf(data, number) \o PacketOf(more, NextNumber(number)),
                       at + Len(data) + Len(more), NextNumber(NextNumber(number)))

EchoKept ==
  /\ \A p \in Proc : pc[Other(p)] \in {"rcv_open", "rcv"} => InFlight(p)
  /\ pc["child"] \in ToSend \union {"done"} /\ pos["parent"] = Len(orig) =>
       file["child"] = orig
  /\ (\A p \in Proc : pc[p] = "done") => file["parent"] = orig

EchoInv ==
  /\ EchoTypeOK /\ FdsKept /\ TurnsKept
  /\ \A p \in Proc : LayoutKept(p) /\ PosKept(p)
  /\ ~ Splits(orig) => EchoKept

(* Both end, whatever cannot be opened: each receiver is told of the end by *)
(* the last write end, each sender by the last read end.                    *)
BothEnd == <>(\A p \in Proc : pc[p] \in Ended)
=============================================================================
