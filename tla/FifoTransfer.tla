---------------------------- MODULE FifoTransfer ----------------------------
(***************************************************************************)
(* task3/FIFO: the client asks the server for a file over the server's     *)
(* FIFO, the server sends it over the FIFO of the client, in messages of a *)
(* length byte and up to MaxRead bytes of data.  A message that is not     *)
(* full is the last one.  The server serves one client and exits.          *)
(*                                                                         *)
(* open() of a FIFO for one end returns when the other end has been        *)
(* opened; a process that is about to call it counts as being in the call. *)
(* Both processes also open the other end of the FIFO they read, which     *)
(* returns at once, so neither ever reads an end of file.  A write of at   *)
(* most PIPE_BUF bytes waits until it fits as a whole; a read takes what   *)
(* there is.  read() and write() of the two files succeed.                 *)
(***************************************************************************)
EXTENDS Integers, Sequences

CONSTANTS
  MaxRead,   \* MAX_READ_SZ, the bytes of data in a full message (127)
  Cap,       \* the bytes a FIFO holds
  Byte,      \* the values of a byte of the file
  Ready,     \* a byte of the answer READY_MSG
  Sources    \* the contents the source file may have

MsgSz == MaxRead + 1      \* MSG_DATA_SZ
ReadySz == MsgSz + 1      \* sizeof(struct simple_message): the pid is one byte

ASSUME MaxReadAssumption == MaxRead \in Nat \ {0}
ASSUME CapAssumption == Cap \in Nat /\ Cap >= ReadySz
ASSUME ByteAssumption == Byte \subseteq Nat /\ Ready \notin Nat
ASSUME SourcesAssumption == Sources \subseteq Seq(Byte)

VARIABLES
  src,       \* the source file
  dst,       \* the destination file
  exists,    \* the server's FIFO exists
  request,   \* the request lies in the server's FIFO
  spc, cpc,  \* where the server and the client are
  sent,      \* the bytes of the source the server has read
  pipe,      \* the client's FIFO
  sm_data    \* msg.sm_data of the client

vars == <<src, dst, exists, request, spc, cpc, sent, pipe, sm_data>>

ServerPC == {"mkfifo", "open", "request", "open_client", "ready", "source",
             "send", "done", "failed", "killed"}
ClientPC == {"start", "open_server", "request", "open", "answer", "create",
             "receive", "close", "done", "failed", "crashed"}

ReadyMsg == [n \in 1 .. ReadySz |-> Ready]

(* A server of an earlier day may have left its FIFO in the directory.      *)
Init ==
  /\ src \in Sources
  /\ dst = << >>
  /\ exists \in BOOLEAN
  /\ request = FALSE
  /\ spc = "mkfifo"
  /\ cpc = "start"
  /\ sent = 0
  /\ pipe = << >>
  /\ sm_data = [n \in 1 .. MsgSz |-> Ready]

ServerGoes(from, to) == spc = from /\ spc' = to /\ UNCHANGED cpc
ClientGoes(from, to) == cpc = from /\ cpc' = to /\ UNCHANGED spc

files == <<src, dst, sent>>

(***************************************************************************)
(* The server.                                                             *)
(***************************************************************************)
SrvMkfifo ==
  /\ ServerGoes("mkfifo", "open")
  /\ exists' = TRUE
  /\ UNCHANGED <<files, request, pipe, sm_data>>

SrvOpen ==
  /\ ServerGoes("open", "request")
  /\ cpc \notin {"start", "failed"}
  /\ UNCHANGED <<files, exists, request, pipe, sm_data>>

(* GetStarted: the request is read and the client's FIFO opened.            *)
SrvRequest ==
  /\ ServerGoes("request", "open_client")
  /\ request
  /\ request' = FALSE
  /\ UNCHANGED <<files, exists, pipe, sm_data>>

SrvOpenClient ==
  /\ ServerGoes("open_client", "ready")
  /\ cpc = "open" \/ cpc = "answer"
  /\ UNCHANGED <<files, exists, request, pipe, sm_data>>

SrvReady ==
  /\ ServerGoes("ready", "source")
  /\ Len(pipe) + ReadySz <= Cap
  /\ pipe' = pipe \o ReadyMsg
  /\ UNCHANGED <<files, exists, request, sm_data>>

SrvSource ==
  /\ \E to \in {"send", "failed"} : ServerGoes("source", to)
  /\ UNCHANGED <<files, exists, request, pipe, sm_data>>

(* What the next read of the source returns.                                *)
ReadSz == IF Len(src) - sent < MaxRead THEN Len(src) - sent ELSE MaxRead

Message == <<ReadSz>> \o SubSeq(src, sent + 1, sent + ReadSz)

AfterMessage == IF ReadSz = MaxRead THEN "send" ELSE "done"

ClientGone == cpc \in {"done", "crashed"}

(* Mutant: the message is written without its last byte, PROT_SZ is left    *)
(* out of the size.                                                         *)
SrvSendShort ==
  /\ ServerGoes("send", AfterMessage)
  /\ ReadSz # 0
  /\ ~ ClientGone
  /\ Len(pipe) + ReadSz <= Cap
  /\ pipe' = pipe \o SubSeq(Message, 1, ReadSz)
  /\ sent' = sent + ReadSz
  /\ UNCHANGED <<src, dst, exists, request, sm_data>>

(* A message is read from the source and written; a short one is the last.  *)
SrvSend ==
  /\ ServerGoes("send", AfterMessage)
  /\ ReadSz # 0
  /\ ~ ClientGone
  /\ Len(pipe) + ReadSz + 1 <= Cap
  /\ pipe' = pipe \o Message
  /\ sent' = sent + ReadSz
  /\ UNCHANGED <<src, dst, exists, request, sm_data>>

(* Nothing is sent when the file ends with a full message.                  *)
SrvEOF ==
  /\ ServerGoes("send", "done")
  /\ ReadSz = 0
  /\ UNCHANGED <<files, exists, request, pipe, sm_data>>

(* SIGPIPE.                                                                 *)
SrvKilled ==
  /\ ServerGoes("send", "killed")
  /\ ReadSz # 0
  /\ ClientGone
  /\ sent' = sent + ReadSz
  /\ UNCHANGED <<src, dst, exists, request, pipe, sm_data>>

(***************************************************************************)
(* The client.                                                             *)
(***************************************************************************)

(* Its own FIFO is made; open fails when the server's does not exist.       *)
CliStart ==
  /\ ClientGoes("start", IF exists THEN "open_server" ELSE "failed")
  /\ UNCHANGED <<files, exists, request, pipe, sm_data>>

CliOpenServer ==
  /\ ClientGoes("open_server", "request")
  /\ spc # "mkfifo"
  /\ UNCHANGED <<files, exists, request, pipe, sm_data>>

CliRequest ==
  /\ ClientGoes("request", "open")
  /\ request' = TRUE
  /\ UNCHANGED <<files, exists, pipe, sm_data>>

CliOpen ==
  /\ ClientGoes("open", "answer")
  /\ spc \notin {"mkfifo", "open", "request"}
  /\ UNCHANGED <<files, exists, request, pipe, sm_data>>

Taken(size) == IF Len(pipe) < size THEN Len(pipe) ELSE size

CliAnswer ==
  /\ pipe # << >>
  /\ ClientGoes("answer",
                IF SubSeq(pipe, 1, Taken(ReadySz)) = ReadyMsg THEN "create"
                                                              ELSE "failed")
  /\ pipe' = SubSeq(pipe, Taken(ReadySz) + 1, Len(pipe))
  /\ UNCHANGED <<files, exists, request, sm_data>>

(* fileno(NULL) crashes when the copy cannot be opened.                     *)
CliCreate ==
  /\ \E to \in {"receive", "crashed"} : ClientGoes("create", to)
  /\ UNCHANGED <<files, exists, request, pipe, sm_data>>

(* The next message, read over the last one.                                *)
Read ==
  /\ cpc = "receive"
  /\ pipe # << >>
  /\ sm_data' = [n \in 1 .. MsgSz |->
                   IF n <= Taken(MsgSz) THEN pipe[n] ELSE sm_data[n]]
  /\ pipe' = SubSeq(pipe, Taken(MsgSz) + 1, Len(pipe))

(* Mutant: the short message is taken for the end and not stored.           *)
CliReceiveFull ==
  /\ Read
  /\ LET len == sm_data'[1]
     IN /\ dst' = IF len = MaxRead THEN dst \o SubSeq(sm_data', 2, 1 + len)
                                   ELSE dst
        /\ ClientGoes("receive", IF len = MaxRead THEN "receive" ELSE "close")
  /\ UNCHANGED <<src, sent, exists, request>>

(* Mutant: the client waits for an empty message.                           *)
CliReceiveToEmpty ==
  /\ Read
  /\ LET len == sm_data'[1]
     IN /\ dst' = dst \o SubSeq(sm_data', 2, 1 + len)
        /\ ClientGoes("receive", IF len # 0 THEN "receive" ELSE "close")
  /\ UNCHANGED <<src, sent, exists, request>>

CliReceive ==
  /\ Read
  /\ LET len == sm_data'[1]
     IN /\ dst' = dst \o SubSeq(sm_data', 2, 1 + len)
        /\ ClientGoes("receive", IF len = MaxRead THEN "receive" ELSE "close")
  /\ UNCHANGED <<src, sent, exists, request>>

(* The copy and the FIFOs are closed.                                       *)
CliClose ==
  /\ ClientGoes("close", "done")
  /\ UNCHANGED <<files, exists, request, pipe, sm_data>>

(***************************************************************************)
(* The specification: both processes are scheduled again and again.        *)
(***************************************************************************)
Server ==
  \/ SrvMkfifo \/ SrvOpen \/ SrvRequest \/ SrvOpenClient \/ SrvReady
  \/ SrvSource \/ SrvSend \/ SrvEOF \/ SrvKilled

Client ==
  \/ CliStart \/ CliOpenServer \/ CliRequest \/ CliOpen \/ CliAnswer
  \/ CliCreate \/ CliReceive \/ CliClose

Next == Server \/ Client

Spec == Init /\ [][Next]_vars

FairSpec == Spec /\ WF_vars(Server) /\ WF_vars(Client)

(***************************************************************************)
(* Properties.                                                             *)
(***************************************************************************)
Element == Byte \union (0 .. MaxRead) \union {Ready}

(* The types of the variables; the FIFO never holds more than its capacity. *)
TypeOK ==
  /\ src \in Sources
  /\ dst \in Seq(Byte)
  /\ exists \in BOOLEAN
  /\ request \in BOOLEAN
  /\ spc \in ServerPC
  /\ cpc \in ClientPC
  /\ sent \in 0 .. Len(src)
  /\ pipe \in Seq(Element)
  /\ Len(pipe) <= Cap
  /\ sm_data \in [1 .. MsgSz -> Element]

(* The client stays in step with the server although read() knows nothing   *)
(* of messages: while it receives, what lies in the FIFO are whole messages *)
(* that carry on where the copy ends, each with its own length in front.    *)
InStep ==
  /\ TypeOK
  /\ cpc = "receive" /\ spc # "killed" =>
       \A n \in 1 .. Len(pipe) :
         LET before == (n - 1) \div MsgSz
             left == Len(pipe) - before * MsgSz - 1
         IN IF (n - 1) % MsgSz = 0
            THEN pipe[n] = IF left < MaxRead THEN left ELSE MaxRead
            ELSE pipe[n] = src[Len(dst) + n - before - 1]

(* The copy over the FIFO implements the abstract transfer and loses        *)
(* nothing: a client that leaves its loop has the whole file.               *)
Transfer == INSTANCE FileTransfer WITH MaxLost <- 0, closed <- cpc = "done"

TransferSpec == Transfer!Spec

(***************************************************************************)
(* The inductive invariant: what InStep and Transfer rest on.              *)
(***************************************************************************)
Early == {"mkfifo", "open", "request", "open_client"}

(* How far the two are: the client gets no message before it has got the    *)
(* answer, nor the answer before its FIFO has been opened.                  *)
Meeting ==
  /\ spc \in Early => cpc \in {"start", "failed", "open_server", "request", "open", "answer"}
  /\ spc = "ready" => cpc \in {"open", "answer"}
  /\ spc \in {"source", "failed", "send", "done"} =>
       cpc \in {"open", "answer", "create", "receive", "close", "done", "crashed"}
  /\ spc = "killed" => cpc \in {"done", "crashed"}
  /\ spc \in Early \union {"ready"} => pipe = << >>
  /\ spc \notin {"send", "done", "killed"} => sent = 0 /\ dst = << >>
  /\ spc = "done" => sent = Len(src)

(* The copy is a prefix, and whole when the client leaves its loop.         *)
CopyOK ==
  /\ Len(dst) <= sent
  /\ \A n \in 1 .. Len(dst) : dst[n] = src[n]
  /\ cpc \notin {"receive", "close", "done"} => dst = << >>
  /\ cpc \in {"close", "done"} => Len(dst) = Len(src)

(* The FIFO behind its first start bytes: k messages, all of them full but  *)
(* for the last one, which is short only when the server is done.           *)
Unread == sent - Len(dst)

LenOf(m) == IF Unread - m * MaxRead < MaxRead THEN Unread - m * MaxRead ELSE MaxRead

MessageAt(at, len, from) ==
  /\ pipe[at + 1] = len
  /\ \A n \in 1 .. len : pipe[at + 1 + n] = src[from + n]

Messages(start) ==
  \E k \in 0 .. Len(pipe) :
    /\ Len(pipe) = start + Unread + k
    /\ Unread <= k * MaxRead /\ k * MaxRead < Unread + MaxRead
    /\ spc # "done" => Unread = k * MaxRead
    /\ \A m \in 0 .. (k - 1) :
         MessageAt(start + m * MsgSz, LenOf(m), Len(dst) + m * MaxRead)

PipeOK ==
  spc \in {"source", "failed", "send", "done"} =>
    /\ cpc \in {"open", "answer"} =>
         Messages(ReadySz) /\ \A n \in 1 .. ReadySz : pipe[n] = Ready
    /\ cpc \in {"create", "receive"} => Messages(0)

IInv ==
  /\ TypeOK
  /\ Meeting
  /\ CopyOK
  /\ PipeOK

(* README.md, task 3, wants a file of arbitrary size transferred.  What the *)
(* code keeps of it: once the file is being sent the client ends when the   *)
(* last message is a short one, which no message is when the size of the    *)
(* file is a multiple of MaxRead.  A server that has found its source ends, *)
(* whatever becomes of the client: a full FIFO is emptied, or SIGPIPE says  *)
(* that nobody will.                                                        *)
BothFinish ==
  /\ spc = "send" /\ Len(src) % MaxRead # 0 ~> cpc \in {"done", "crashed"}
  /\ spc = "send" ~> spc \in {"done", "killed"}
=============================================================================
