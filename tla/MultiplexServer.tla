-------------------------- MODULE MultiplexServer ---------------------------
(***************************************************************************)
(* task7/multiplex-io: the main thread of the server registers clients     *)
(* that write to one registration FIFO and answers all of them over one    *)
(* response FIFO; a second thread owns the epoll set and turns its events  *)
(* into jobs of the thread pool (JobPool, which thpool.c implements).      *)
(*                                                                         *)
(* What epoll watches is descriptor 0, the server's standard input, for    *)
(* s_register passes 0 to epoll_ctl; and the event a job gets is a freshly *)
(* allocated one that nobody has filled: its descriptor is 0 (zeroed       *)
(* memory) or no open one (what a freed job of the pool leaves behind).    *)
(* pmutex is held for one step of either thread and is left out.           *)
(*                                                                         *)
(* Clients start when the FIFOs of the server exist; a read of up to 1024  *)
(* bytes takes every request, or every answer, that lies in a FIFO.        *)
(***************************************************************************)
EXTENDS Integers, Sequences, FiniteSets

CONSTANTS
  Clients,    \* the client processes
  Size,       \* THREAD_AMOUNT, the threads of the pool
  MaxLines,   \* bound: lines typed at the server's terminal
  MaxJobs     \* bound: jobs added to the pool

ASSUME ClientsAssumption == IsFiniteSet(Clients)
ASSUME SizeAssumption == Size \in Nat \ {0}
ASSUME BoundsAssumption == MaxLines \in Nat /\ MaxJobs \in Nat

VARIABLES
  mpc,        \* where the server's main thread is, or how the server ended
  ready,      \* the epoll thread has created epoll_fd
  pollable,   \* standard input is one that epoll accepts
  watched,    \* standard input is in the epoll set
  reg,        \* the requests in the registration FIFO
  rsp,        \* how many answers lie in the response FIFO
  table,      \* Clients[0 .. client_max - 1]
  fifos,      \* the clients whose two FIFOs the server has made
  cpc,        \* where the clients are
  dropped,    \* history: clients whose request the server has thrown away
  typed,      \* how many lines have been typed
  stdin,      \* the lines at the server's terminal that nobody has read
  pending, running, finished   \* the jobs of the pool

server == <<mpc, ready, pollable, watched, table, fifos, dropped>>
channels == <<reg, rsp>>
terminal == <<typed, stdin>>
jobs == <<pending, running, finished>>
vars == <<server, channels, cpc, terminal, jobs>>

Pool == INSTANCE JobPool

MainPC == {"read", "mkfifo", "reply", "add", "exit", "crash"}
ClientPC == {"start", "request", "answer", "open", "work", "wait", "done",
             "refused", "failed"}

(* A line is a GET with a file name, some other two words, or it lacks the  *)
(* second word, as the end of the input does.                               *)
Lines == {"get", "other", "bare"}

(* s_prepare has returned; its epoll thread has been created, not run.      *)
Init ==
  /\ mpc = "read"
  /\ ready = FALSE
  /\ pollable \in BOOLEAN
  /\ watched = FALSE
  /\ reg = << >>
  /\ rsp = 0
  /\ table = << >>
  /\ fifos = {}
  /\ cpc = [c \in Clients |-> "start"]
  /\ dropped = {}
  /\ typed = 0
  /\ stdin = << >>
  /\ Pool!Init

Up == mpc \notin {"exit", "crash"}
MainGoes(from, to) == mpc = from /\ mpc' = to
Fails(from) == MainGoes(from, "exit")
Newest == table[Len(table)]

(***************************************************************************)
(* The main thread: s_register_clients.                                    *)
(***************************************************************************)

(* Mutant: the words behind the first request are overlooked.               *)
MainRegisterFirst ==
  /\ MainGoes("read", "mkfifo")
  /\ Len(reg) >= 1
  /\ table' = Append(table, reg[1])
  /\ reg' = << >>
  /\ UNCHANGED <<ready, pollable, watched, fifos, dropped, rsp, cpc, terminal,
                 jobs>>

(* One request alone is well formed.                                        *)
MainRegister ==
  /\ MainGoes("read", "mkfifo")
  /\ Len(reg) = 1
  /\ table' = Append(table, reg[1])
  /\ reg' = << >>
  /\ UNCHANGED <<ready, pollable, watched, fifos, dropped, rsp, cpc, terminal,
                 jobs>>

(* Several requests read at once have too many words: none is registered    *)
(* and none is answered.                                                    *)
MainReject ==
  /\ MainGoes("read", "read")
  /\ Len(reg) > 1
  /\ dropped' = dropped \union { reg[n] : n \in DOMAIN reg }
  /\ reg' = << >>
  /\ UNCHANGED <<ready, pollable, watched, table, fifos, rsp, cpc, terminal,
                 jobs>>

(* Mutant: the FIFOs are left for later.                                    *)
MainMkfifoLater ==
  /\ MainGoes("mkfifo", "reply")
  /\ UNCHANGED <<ready, pollable, watched, table, fifos, dropped, channels,
                 cpc, terminal, jobs>>

(* s_mkfifo and s_open_fifo end the server when they fail, the first before *)
(* there is a FIFO, the others behind it.                                   *)
MainMkfifo ==
  /\ \/ MainGoes("mkfifo", "reply") /\ fifos' = fifos \union {Newest}
     \/ Fails("mkfifo") /\ fifos' \in {fifos, fifos \union {Newest}}
  /\ UNCHANGED <<ready, pollable, watched, table, dropped, channels, cpc,
                 terminal, jobs>>

(* Mutant: no answer is written.                                            *)
MainSilent ==
  /\ MainGoes("reply", "add")
  /\ UNCHANGED <<ready, pollable, watched, table, fifos, dropped, channels,
                 cpc, terminal, jobs>>

(* So does a write that fails.                                              *)
MainReply ==
  /\ \/ MainGoes("reply", "add") /\ rsp' = rsp + 1
     \/ Fails("reply") /\ UNCHANGED rsp
  /\ UNCHANGED <<ready, pollable, watched, table, fifos, dropped, reg, cpc,
                 terminal, jobs>>

(* Mutant: a descriptor may be added twice.                                 *)
AddableTwice == ready /\ pollable

(* epoll_ctl(epoll_fd, EPOLL_CTL_ADD, 0, ..) fails before epoll_fd exists,  *)
(* for a file, and when descriptor 0 has been added before.                 *)
Addable == ready /\ pollable /\ ~ watched

MainAdd ==
  /\ MainGoes("add", IF Addable THEN "read" ELSE "exit")
  /\ watched' = (watched \/ Addable)
  /\ UNCHANGED <<ready, pollable, table, fifos, dropped, channels, cpc,
                 terminal, jobs>>

(***************************************************************************)
(* The epoll thread.                                                       *)
(***************************************************************************)

(* epoll_create1 may fail and end the server.                               *)
EpollCreate ==
  /\ Up
  /\ ~ ready
  /\ \/ ready' = TRUE /\ UNCHANGED mpc
     \/ mpc' = "exit" /\ UNCHANGED ready
  /\ UNCHANGED <<pollable, watched, table, fifos, dropped, channels, cpc,
                 terminal, jobs>>

(* epoll is level triggered: an unread line is reported again and again.    *)
EpollEvent ==
  /\ Up
  /\ watched
  /\ stdin # << >>
  /\ Pool!Added < MaxJobs
  /\ Pool!Submit
  /\ UNCHANGED <<server, channels, cpc, terminal>>

(***************************************************************************)
(* The pool and s_processing_request, and the terminal of the server.      *)
(***************************************************************************)
JobTaken ==
  /\ Up
  /\ Pool!Take
  /\ UNCHANGED <<server, channels, cpc, terminal>>

(* read fails on a descriptor that is not open.                             *)
JobFails ==
  /\ Up
  /\ Pool!Finish
  /\ UNCHANGED <<server, channels, cpc, terminal>>

(* A job with descriptor 0 waits for a line and takes it.  Hello! is        *)
(* written to descriptor 0 too; without a second word strdup(NULL) ends     *)
(* the server.                                                              *)
JobReads ==
  /\ Up
  /\ stdin # << >>
  /\ stdin' = Tail(stdin)
  /\ Pool!Finish
  /\ mpc' = IF Head(stdin) = "bare" THEN "crash" ELSE mpc
  /\ UNCHANGED <<ready, pollable, watched, table, fifos, dropped, channels,
                 cpc, typed>>

Type ==
  /\ typed < MaxLines
  /\ typed' = typed + 1
  /\ \E l \in Lines : stdin' = Append(stdin, l)
  /\ UNCHANGED <<server, channels, cpc, jobs>>

(***************************************************************************)
(* A client: cn_reg and cn_work.                                           *)
(***************************************************************************)
ClientGoes(c, from, to) == cpc[c] = from /\ cpc' = [cpc EXCEPT ![c] = to]

(* Both FIFOs of the server are opened, which takes a server that runs.     *)
CliOpenServer(c) ==
  /\ Up
  /\ ClientGoes(c, "start", "request")
  /\ UNCHANGED <<server, channels, terminal, jobs>>

(* REGISTER, or SIGPIPE.                                                    *)
CliRequest(c) ==
  /\ ClientGoes(c, "request", IF Up THEN "answer" ELSE "failed")
  /\ reg' = IF Up THEN Append(reg, c) ELSE reg
  /\ UNCHANGED <<server, rsp, terminal, jobs>>

(* Exactly one ASK must be there; two read as one, or none because the      *)
(* server has ended, are a wrong response.                                  *)
CliAnswer(c) ==
  /\ rsp > 0 \/ ~ Up
  /\ ClientGoes(c, "answer", IF rsp = 1 THEN "open" ELSE "refused")
  /\ rsp' = 0
  /\ UNCHANGED <<server, reg, terminal, jobs>>

(* Its own FIFOs must exist by now; the server has the other ends open.     *)
CliOpen(c) ==
  /\ c \in fifos => Up
  /\ ClientGoes(c, "open", IF c \in fifos THEN "work" ELSE "failed")
  /\ UNCHANGED <<server, channels, terminal, jobs>>

(* The request goes to a FIFO nobody reads; it fails when epoll does not    *)
(* accept the client's input, or with SIGPIPE.                              *)
CliWork(c) ==
  /\ \/ Up /\ ClientGoes(c, "work", "wait")
     \/ ClientGoes(c, "work", "failed")
  /\ UNCHANGED <<server, channels, terminal, jobs>>

(* After ten seconds the client ends; typing wakes it before, and it fails  *)
(* to read from its transmitting FIFO, open for writing only.               *)
CliEnd(c) ==
  /\ \E to \in {"done", "failed"} : ClientGoes(c, "wait", to)
  /\ UNCHANGED <<server, channels, terminal, jobs>>

(***************************************************************************)
(* The specification: threads and started processes are scheduled again    *)
(* and again; nobody has to start a client or to type.                     *)
(***************************************************************************)
Main == MainRegister \/ MainReject \/ MainMkfifo \/ MainReply \/ MainAdd
Epoll == EpollCreate \/ EpollEvent
Job == JobTaken \/ JobFails \/ JobReads
Client(c) == CliRequest(c) \/ CliAnswer(c) \/ CliOpen(c) \/ CliWork(c)
               \/ CliEnd(c)

Next ==
  \/ Main
  \/ Epoll
  \/ Job
  \/ Type
  \/ \E c \in Clients : CliOpenServer(c) \/ Client(c)

Spec == Init /\ [][Next]_vars

FairSpec ==
  /\ Spec
  /\ WF_vars(Main)
  /\ WF_vars(Epoll)
  /\ WF_vars(Job)
  /\ \A c \in Clients : WF_vars(Client(c))

(***************************************************************************)
(* Properties.                                                             *)
(***************************************************************************)

(* The types of the variables.                                              *)
TypeOK ==
  /\ mpc \in MainPC
  /\ ready \in BOOLEAN
  /\ pollable \in BOOLEAN
  /\ watched \in BOOLEAN
  /\ reg \in Seq(Clients)
  /\ rsp \in 0 .. Cardinality(Clients)
  /\ table \in Seq(Clients)
  /\ fifos \subseteq Clients
  /\ cpc \in [Clients -> ClientPC]
  /\ dropped \subseteq Clients
  /\ typed \in 0 .. MaxLines
  /\ stdin \in Seq(Lines)

(* The clients that have read one ASK.                                      *)
Welcomed == { c \in Clients : cpc[c] \in {"open", "work", "wait", "done"} }

(* Whoever reads an ASK, one client's FIFOs have been made for it: answers  *)
(* that lie in the FIFO or have let a client in never outnumber them        *)
(* (s_register makes the FIFOs before it answers).                          *)
WelcomesBacked ==
  /\ TypeOK
  /\ rsp + Cardinality(Welcomed) <= Cardinality(fifos)

(* The requests and answers that are under way: those that lie in a FIFO,   *)
(* and the one that the main thread has in hand.                            *)
Underway == Len(reg) + rsp + IF mpc \in {"mkfifo", "reply"} THEN 1 ELSE 0

Waiting == { c \in Clients : cpc[c] = "answer" }
Refused == { c \in Clients : cpc[c] = "refused" }

(* While the server runs there is a client waiting for each request and     *)
(* each answer under way: none is left over for a client that comes later.  *)
(* And as long as no requests have been read as one, and no answers, there  *)
(* is a request or an answer under way for each client that waits: no       *)
(* client is forgotten between the two FIFOs, and none is answered twice.   *)
AnswersAccounted ==
  Up =>
    /\ Underway <= Cardinality(Waiting)
    /\ dropped = {} /\ Refused = {} => Underway = Cardinality(Waiting)

(***************************************************************************)
(* The inductive invariant behind both.                                    *)
(***************************************************************************)

(* FIFOs are made for clients that have sent their request, for each once.  *)
Registered == { c \in Clients : cpc[c] \notin {"start", "request"} }

FifosOnce ==
  /\ fifos \subseteq Registered
  /\ \A n \in DOMAIN reg : reg[n] \in Registered \ fifos
  /\ mpc = "mkfifo" =>
       /\ Len(table) > 0
       /\ Newest \in Registered \ fifos
       /\ \A n \in DOMAIN reg : reg[n] # Newest

(* Between the FIFOs and the answer one client is ahead.                    *)
AnswersBacked ==
  rsp + Cardinality(Welcomed) + (IF mpc = "reply" THEN 1 ELSE 0)
    <= Cardinality(fifos)

IInv ==
  /\ TypeOK
  /\ FifosOnce
  /\ AnswersBacked
  /\ AnswersAccounted

(* A client waits for its answer in vain only if requests or answers have   *)
(* run together: otherwise each waiting client reads an ASK, possibly that  *)
(* of another, or is told by the end of the server.                         *)
WaitersReleased ==
  \A c \in Clients :
    cpc[c] = "answer" ~>
      \/ cpc[c] # "answer"
      \/ dropped # {}
      \/ \E d \in Clients : cpc[d] = "refused"
=============================================================================
