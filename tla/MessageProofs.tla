--------------------------- MODULE MessageProofs ----------------------------
(***************************************************************************)
(* Proofs about two components whose processes meet in a queue that the    *)
(* kernel keeps, and that share nothing else: the registration of clients  *)
(* in MultiplexServer, for any finite set of clients, whatever the pool    *)
(* and the terminal do, and MessageQueueTransfer, for blocks of any size,  *)
(* a queue of any size that holds one, any files and any number of runs.   *)
(***************************************************************************)
EXTENDS MultiplexServer, MessageQueueTransfer, FiniteSetTheorems,
        SequenceTheorems, WellFoundedInduction, TLAPS

(***************************************************************************)
(* MultiplexServer.                                                        *)
(***************************************************************************)

(* Sets of clients are finite, and a smaller one has no more members.       *)
LEMMA ClientSets ==
  ASSUME NEW S, NEW T, S \subseteq T, T \subseteq Clients
  PROVE  /\ IsFiniteSet(S) /\ IsFiniteSet(T)
         /\ Cardinality(S) \in Nat /\ Cardinality(T) \in Nat
         /\ Cardinality(S) <= Cardinality(T)
<1>1. IsFiniteSet(T)
  BY ClientsAssumption, FS_Subset
<1>2. IsFiniteSet(S) /\ Cardinality(S) <= Cardinality(T)
  BY <1>1, FS_Subset
<1>3. QED
  BY <1>1, <1>2, FS_CardinalityType

(* A client more in a set of clients.                                       *)
LEMMA OneMore ==
  ASSUME NEW S, S \subseteq Clients, NEW c \in Clients
  PROVE  /\ Cardinality(S \union {c}) \in Nat
         /\ Cardinality(S) \in Nat
         /\ c \notin S => Cardinality(S \union {c}) = Cardinality(S) + 1
<1>1. IsFiniteSet(S)
  BY ClientSets
<1>2. QED
  BY <1>1, FS_AddElement, FS_CardinalityType

(* A client that comes to wait, or ceases to.                               *)
LEMMA WaitingSets ==
  /\ Waiting \subseteq Clients /\ IsFiniteSet(Waiting)
  /\ Cardinality(Waiting) \in Nat
  /\ \A c \in Clients \ Waiting :
       Cardinality(Waiting \union {c}) = Cardinality(Waiting) + 1
  /\ \A c \in Waiting : Cardinality(Waiting \ {c}) = Cardinality(Waiting) - 1
<1>1. Waiting \subseteq Clients
  BY DEF Waiting
<1>2. QED
  BY <1>1, ClientSets, OneMore, FS_RemoveElement

(* What the accounts of the answers depend on.                              *)
LEMMA AccountsKept ==
  ASSUME AnswersAccounted, Up' => Up, Underway' = Underway, Waiting' = Waiting,
         Refused' = Refused, dropped' = dropped
  PROVE  AnswersAccounted'
BY DEF AnswersAccounted

LEMMA InitIInv == Init => IInv
<1> SUFFICES ASSUME Init PROVE IInv
  OBVIOUS
<1>1. Cardinality(Clients) \in Nat
  BY ClientsAssumption, FS_CardinalityType
<1>2. TypeOK
  <2>1. mpc \in MainPC /\ cpc \in [Clients -> ClientPC]
    BY DEF Init, MainPC, ClientPC
  <2>2. reg \in Seq(Clients) /\ table \in Seq(Clients) /\ stdin \in Seq(Lines)
    BY DEF Init
  <2>3. rsp \in 0 .. Cardinality(Clients) /\ typed \in 0 .. MaxLines
    BY <1>1, BoundsAssumption DEF Init
  <2>4. QED
    BY <2>1, <2>2, <2>3 DEF Init, TypeOK
<1>3. FifosOnce
  BY DEF Init, FifosOnce
<1>4. AnswersAccounted
  <2>1. Waiting = {} /\ Underway = 0
    BY DEF Init, Waiting, Underway
  <2>2. QED
    BY <2>1, FS_EmptySet DEF AnswersAccounted
<1>5. AnswersBacked
  <2>1. Welcomed = {}
    BY DEF Init, Welcomed
  <2>2. QED
    BY <2>1, FS_EmptySet DEF Init, AnswersBacked
<1>6. QED
  BY <1>2, <1>3, <1>4, <1>5 DEF IInv

(* The main thread: from the request to the entry in the epoll set.         *)
LEMMA MainKeeps == IInv /\ Main => IInv'
<1> SUFFICES ASSUME IInv, Main PROVE IInv'
  OBVIOUS
<1> USE DEF IInv
<1>1. CASE MainRegister
  <2> USE <1>1
  <2>1. /\ mpc = "read" /\ mpc' = "mkfifo" /\ Len(reg) = 1 /\ reg' = << >>
        /\ table' = Append(table, reg[1])
        /\ UNCHANGED <<ready, pollable, watched, fifos, dropped, rsp, cpc,
                       terminal>>
    BY DEF MainRegister, MainGoes
  <2>2. /\ reg[1] \in Registered \ fifos
        /\ reg[1] \in Clients
    BY <2>1 DEF FifosOnce, Registered, TypeOK
  <2>3. /\ table' \in Seq(Clients)
        /\ Len(table') = Len(table) + 1
        /\ table'[Len(table')] = reg[1]
    BY <2>1, <2>2 DEF TypeOK
  <2>4. TypeOK'
    BY <2>1, <2>3 DEF TypeOK, MainPC, terminal
  <2>5. FifosOnce'
    <3>1. Newest' = reg[1]
      BY <2>3 DEF Newest
    <3>2. Registered' = Registered /\ DOMAIN reg' = {}
      BY <2>1 DEF Registered
    <3>3. QED
      BY <2>1, <2>2, <2>3, <3>1, <3>2 DEF FifosOnce, TypeOK
  <2>6. AnswersBacked'
    BY <2>1 DEF AnswersBacked, Welcomed
  <2>7. AnswersAccounted'
    <3>1. Underway' = Underway /\ Waiting' = Waiting /\ Refused' = Refused
      BY <2>1 DEF Underway, Waiting, Refused, TypeOK
    <3>2. QED
      BY <2>1, <3>1, AccountsKept DEF Up
  <2>8. QED
    BY <2>4, <2>5, <2>6, <2>7
<1>2. CASE MainReject
  <2> USE <1>2
  <2>1. /\ mpc = "read" /\ mpc' = "read" /\ reg' = << >>
        /\ dropped' = dropped \union { reg[n] : n \in DOMAIN reg }
        /\ UNCHANGED <<ready, pollable, watched, table, fifos, rsp, cpc,
                       terminal>>
    BY DEF MainReject, MainGoes
  <2>2. TypeOK'
    BY <2>1 DEF TypeOK, terminal
  <2>3. FifosOnce' /\ AnswersBacked'
    BY <2>1 DEF FifosOnce, Registered, AnswersBacked, Welcomed
  <2>4. AnswersAccounted'
    <3>1. Len(reg) > 1 /\ dropped' # {}
      <4>1. Len(reg) > 1 /\ 1 \in DOMAIN reg
        BY DEF MainReject, TypeOK
      <4>2. reg[1] \in dropped'
        BY <2>1, <4>1
      <4>3. QED
        BY <4>1, <4>2
    <3>2. Underway' <= Underway /\ Waiting' = Waiting
      BY <2>1, <3>1 DEF Underway, Waiting, TypeOK
    <3>3. Underway \in Nat /\ Underway' \in Nat
      BY <2>1 DEF Underway, TypeOK
    <3>4. QED
      BY <2>1, <3>1, <3>2, <3>3, WaitingSets DEF AnswersAccounted, Up
  <2>5. QED
    BY <2>2, <2>3, <2>4
<1>3. CASE MainMkfifo
  <2> USE <1>3
  <2>1. /\ mpc = "mkfifo"
        /\ mpc' \in {"reply", "exit"}
        /\ \/ fifos' = fifos \union {Newest}
           \/ fifos' = fifos /\ mpc' = "exit"
        /\ UNCHANGED <<ready, pollable, watched, table, dropped, channels, cpc,
                       terminal>>
    BY DEF MainMkfifo, MainGoes, Fails
  <2>2. Newest \in Registered \ fifos /\ Newest \in Clients
    BY <2>1 DEF FifosOnce, Registered
  <2>3. TypeOK'
    BY <2>1, <2>2 DEF TypeOK, MainPC, terminal, channels
  <2>4. FifosOnce'
    BY <2>1, <2>2 DEF FifosOnce, Registered, channels
  <2>5. AnswersBacked'
    <3>1. Cardinality(fifos \union {Newest}) = Cardinality(fifos) + 1
      BY <2>1, <2>2, OneMore DEF TypeOK
    <3>2. Welcomed' = Welcomed /\ rsp' = rsp
      BY <2>1 DEF Welcomed, channels
    <3>3. Cardinality(fifos) \in Nat /\ Cardinality(Welcomed) \in Nat
      BY ClientSets DEF TypeOK, Welcomed
    <3>4. rsp \in Nat /\ rsp + Cardinality(Welcomed) <= Cardinality(fifos)
      BY <2>1, <3>3 DEF AnswersBacked, TypeOK
    <3>5. CASE fifos' = fifos \union {Newest}
      BY <2>1, <3>1, <3>2, <3>3, <3>4, <3>5 DEF AnswersBacked
    <3>6. CASE fifos' = fifos /\ mpc' = "exit"
      BY <3>2, <3>3, <3>4, <3>6 DEF AnswersBacked
    <3>7. QED
      BY <2>1, <3>5, <3>6
  <2>6. AnswersAccounted'
    <3>1. mpc' = "reply" =>
            Underway' = Underway /\ Waiting' = Waiting /\ Refused' = Refused
      BY <2>1 DEF Underway, Waiting, Refused, channels
    <3>2. Up /\ (Up' => mpc' = "reply")
      BY <2>1 DEF Up
    <3>3. CASE Up'
      BY <2>1, <3>1, <3>2, <3>3, AccountsKept
    <3>4. QED
      BY <3>3 DEF AnswersAccounted
  <2>7. QED
    BY <2>3, <2>4, <2>5, <2>6
<1>4. CASE MainReply
  <2> USE <1>4
  <2>1. /\ mpc = "reply"
        /\ \/ mpc' = "add" /\ rsp' = rsp + 1
           \/ mpc' = "exit" /\ rsp' = rsp
        /\ UNCHANGED <<ready, pollable, watched, table, fifos, dropped, reg,
                       cpc, terminal>>
    BY DEF MainReply, MainGoes, Fails
  <2>2. AnswersBacked'
    <3>1. Welcomed' = Welcomed
      BY <2>1 DEF Welcomed
    <3>2. Cardinality(Welcomed) \in Nat /\ Cardinality(fifos) \in Nat
      BY ClientSets DEF TypeOK, Welcomed
    <3>3. QED
      BY <2>1, <3>1, <3>2 DEF AnswersBacked, TypeOK
  <2>3. rsp' \in 0 .. Cardinality(Clients)
    <3>1. rsp' \in Nat /\ fifos' \subseteq Clients
      BY <2>1 DEF TypeOK
    <3>2. /\ Cardinality(fifos') \in Nat /\ Cardinality(Clients) \in Nat
          /\ Cardinality(fifos') <= Cardinality(Clients)
      BY <3>1, ClientSets
    <3>3. Cardinality(Welcomed') \in Nat
      BY ClientSets DEF Welcomed
    <3>4. QED
      BY <2>1, <2>2, <3>1, <3>2, <3>3 DEF AnswersBacked
  <2>4. TypeOK'
    BY <2>1, <2>3 DEF TypeOK, MainPC, terminal
  <2>5. FifosOnce'
    BY <2>1 DEF FifosOnce, Registered
  <2>6. AnswersAccounted'
    <3>1. mpc' = "add" =>
            Underway' = Underway /\ Waiting' = Waiting /\ Refused' = Refused
      BY <2>1 DEF Underway, Waiting, Refused, TypeOK
    <3>2. Up /\ (Up' => mpc' = "add")
      BY <2>1 DEF Up
    <3>3. CASE Up'
      BY <2>1, <3>1, <3>2, <3>3, AccountsKept
    <3>4. QED
      BY <3>3 DEF AnswersAccounted
  <2>7. QED
    BY <2>2, <2>4, <2>5, <2>6
<1>5. CASE MainAdd
  <2> USE <1>5
  <2>1. /\ mpc = "add" /\ mpc' = IF Addable THEN "read" ELSE "exit"
        /\ watched' = (watched \/ Addable)
        /\ UNCHANGED <<ready, pollable, table, fifos, dropped, channels, cpc,
                       terminal>>
    BY DEF MainAdd, MainGoes
  <2>2. TypeOK'
    BY <2>1 DEF TypeOK, MainPC, terminal, channels, Addable
  <2>3. FifosOnce' /\ AnswersBacked'
    BY <2>1 DEF FifosOnce, Registered, AnswersBacked, Welcomed, channels
  <2>4. AnswersAccounted'
    <3>1. Underway' = Underway /\ Waiting' = Waiting /\ Refused' = Refused
      BY <2>1 DEF Underway, Waiting, Refused, channels
    <3>2. QED
      BY <2>1, <3>1, AccountsKept DEF Up
  <2>5. QED
    BY <2>2, <2>3, <2>4
<1>6. QED
  BY <1>1, <1>2, <1>3, <1>4, <1>5 DEF Main

(* The other threads may end the server wherever the main thread is.        *)
LEMMA ServerEnds ==
  ASSUME IInv, Up, mpc' \in {mpc, "exit", "crash"},
         UNCHANGED <<reg, rsp, fifos, dropped, cpc>>
  PROVE  AnswersBacked' /\ AnswersAccounted'
<1>1. AnswersBacked'
  <2>1. Welcomed' = Welcomed
    BY DEF Welcomed
  <2>2. Cardinality(Welcomed) \in Nat /\ Cardinality(fifos) \in Nat
    BY ClientSets DEF IInv, TypeOK, Welcomed
  <2>3. QED
    BY <2>1, <2>2 DEF IInv, AnswersBacked, TypeOK
<1>2. AnswersAccounted'
  <2>1. CASE mpc' = mpc
    BY <2>1 DEF IInv, AnswersAccounted, Underway, Waiting, Refused, Up
  <2>2. CASE mpc' # mpc
    BY <2>2 DEF AnswersAccounted, Up
  <2>3. QED
    BY <2>1, <2>2
<1>3. QED
  BY <1>1, <1>2

(* The epoll thread, the pool and the terminal change nothing of it, but    *)
(* that epoll_create1, when it fails, and a job may end the server.         *)
LEMMA JobsKeep == IInv /\ (Epoll \/ Job \/ Type) => IInv'
<1> SUFFICES ASSUME IInv, Epoll \/ Job \/ Type PROVE IInv'
  OBVIOUS
<1> USE DEF IInv
<1>1. CASE EpollCreate
  <2>1. /\ Up /\ ready' \in BOOLEAN
        /\ mpc' \in {mpc, "exit"}
        /\ UNCHANGED <<pollable, watched, table, fifos, dropped, channels, cpc,
                       terminal>>
    BY <1>1 DEF EpollCreate, TypeOK
  <2>2. TypeOK'
    BY <2>1 DEF TypeOK, MainPC, terminal, channels
  <2>3. FifosOnce'
    BY <2>1 DEF FifosOnce, Registered, channels, Newest
  <2>4. AnswersBacked' /\ AnswersAccounted'
    BY <2>1, ServerEnds DEF channels
  <2>5. QED
    BY <2>2, <2>3, <2>4
<1>2. CASE EpollEvent \/ JobTaken \/ JobFails
  <2>1. UNCHANGED <<server, channels, cpc, terminal>>
    BY <1>2 DEF EpollEvent, JobTaken, JobFails
  <2>2. QED
    BY <2>1 DEF TypeOK, FifosOnce, Registered, AnswersBacked, Welcomed,
                AnswersAccounted, Underway, Waiting, Refused, Up, server,
                channels, terminal, Newest
<1>3. CASE JobReads
  <2>1. /\ mpc' \in {mpc, "crash"} /\ Up
        /\ stdin # << >> /\ stdin' = Tail(stdin)
        /\ UNCHANGED <<ready, pollable, watched, table, fifos, dropped,
                       channels, cpc, typed>>
    BY <1>3 DEF JobReads
  <2>2. TypeOK'
    BY <2>1 DEF TypeOK, MainPC, channels
  <2>3. FifosOnce'
    BY <2>1 DEF FifosOnce, Registered, channels, Newest
  <2>4. AnswersBacked' /\ AnswersAccounted'
    BY <2>1, ServerEnds DEF channels
  <2>5. QED
    BY <2>2, <2>3, <2>4
<1>4. CASE Type
  <2>1. /\ typed < MaxLines /\ typed' = typed + 1
        /\ \E l \in Lines : stdin' = Append(stdin, l)
        /\ UNCHANGED <<server, channels, cpc>>
    BY <1>4 DEF Type
  <2>2. TypeOK'
    <3>1. typed' \in 0 .. MaxLines
      BY <2>1, BoundsAssumption DEF TypeOK
    <3>2. stdin' \in Seq(Lines)
      BY <2>1 DEF TypeOK
    <3>3. QED
      BY <2>1, <3>1, <3>2 DEF TypeOK, server, channels
  <2>3. FifosOnce' /\ AnswersBacked' /\ AnswersAccounted'
    BY <2>1 DEF FifosOnce, Registered, AnswersBacked, Welcomed,
                AnswersAccounted, Underway, Waiting, Refused, Up, server,
                channels, Newest
  <2>4. QED
    BY <2>2, <2>3
<1>5. QED
  BY <1>1, <1>2, <1>3, <1>4 DEF Epoll, Job

(* What a step of a client does to the places of the clients.               *)
LEMMA ClientStep ==
  ASSUME TypeOK, NEW c \in Clients, NEW from, NEW to \in ClientPC,
         ClientGoes(c, from, to)
  PROVE  /\ cpc[c] = from
         /\ cpc' \in [Clients -> ClientPC]
         /\ cpc'[c] = to
         /\ \A d \in Clients : d # c => cpc'[d] = cpc[d]
BY DEF TypeOK, ClientGoes

(* A client that has its answer, or has given up, and a client that starts. *)
LEMMA ClientGoesOn ==
  ASSUME IInv, NEW c \in Clients,
         \/ CliOpenServer(c) \/ CliOpen(c) \/ CliWork(c) \/ CliEnd(c)
  PROVE  IInv'
<1> USE DEF IInv
<1> DEFINE In == {"open", "work", "wait", "done"}
<1>1. UNCHANGED <<server, channels, terminal>>
  BY DEF CliOpenServer, CliOpen, CliWork, CliEnd
<1>2. PICK from \in ClientPC, to \in ClientPC :
        /\ ClientGoes(c, from, to)
        /\ from \in In \union {"start"}
        /\ from = "start" <=> to = "request"
        /\ to \notin {"start", "answer", "refused"}
        /\ to \in In => from \in In
  <2>1. CASE CliOpenServer(c)
    BY <2>1 DEF CliOpenServer, ClientPC
  <2>2. CASE CliOpen(c)
    BY <2>2 DEF CliOpen, ClientPC
  <2>3. CASE CliWork(c)
    BY <2>3 DEF CliWork, ClientPC
  <2>4. CASE CliEnd(c)
    BY <2>4 DEF CliEnd, ClientPC
  <2>5. QED
    BY <2>1, <2>2, <2>3, <2>4
<1>3. /\ cpc[c] = from
      /\ cpc' \in [Clients -> ClientPC]
      /\ cpc'[c] = to
      /\ \A d \in Clients : d # c => cpc'[d] = cpc[d]
  BY <1>2, ClientStep
<1>4. Registered' = Registered
  BY <1>2, <1>3 DEF Registered
<1>5. Welcomed' \subseteq Welcomed /\ Welcomed \subseteq Clients
  BY <1>2, <1>3 DEF Welcomed
<1>6. TypeOK'
  BY <1>1, <1>3 DEF TypeOK, server, channels, terminal
<1>7. FifosOnce' /\ AnswersAccounted'
  <2>1. Waiting' = Waiting /\ Refused' = Refused
    BY <1>2, <1>3 DEF Waiting, Refused
  <2>2. Underway' = Underway /\ Up' = Up /\ dropped' = dropped
    BY <1>1 DEF Underway, Up, server, channels
  <2>3. AnswersAccounted'
    BY <2>1, <2>2, AccountsKept
  <2>4. QED
    BY <1>1, <1>4, <2>3 DEF FifosOnce, server, channels, Newest
<1>8. AnswersBacked'
  <2>1. /\ Cardinality(Welcomed') <= Cardinality(Welcomed)
        /\ Cardinality(Welcomed') \in Nat /\ Cardinality(Welcomed) \in Nat
    BY <1>5, ClientSets
  <2>2. Cardinality(fifos) \in Nat
    BY ClientSets DEF TypeOK
  <2>3. mpc' = mpc /\ rsp' = rsp /\ fifos' = fifos
    BY <1>1 DEF server, channels
  <2>4. AnswersBacked /\ rsp \in Nat
    BY DEF TypeOK
  <2>5. QED
    BY <2>1, <2>2, <2>3, <2>4 DEF AnswersBacked
<1>9. QED
  BY <1>6, <1>7, <1>8

LEMMA ClientKeeps ==
  ASSUME IInv, NEW c \in Clients, CliOpenServer(c) \/ Client(c)
  PROVE  IInv'
<1> USE DEF IInv
<1>1. CASE CliRequest(c)
  <2>1. /\ UNCHANGED <<server, rsp, terminal>>
        /\ reg' = IF Up THEN Append(reg, c) ELSE reg
        /\ cpc[c] = "request"
        /\ cpc' \in [Clients -> ClientPC]
        /\ cpc'[c] \in {"answer", "failed"}
        /\ \A d \in Clients : d # c => cpc'[d] = cpc[d]
    BY <1>1, ClientStep DEF CliRequest, ClientPC
  <2>2. TypeOK'
    BY <2>1 DEF TypeOK, server, terminal
  <2>3. Registered' = Registered \union {c} /\ c \notin Registered
    BY <2>1 DEF Registered
  <2>4. Welcomed' = Welcomed
    BY <2>1 DEF Welcomed
  <2>5. FifosOnce'
    <3>1. \A n \in DOMAIN reg' : reg'[n] = c \/ (n \in DOMAIN reg /\ reg'[n] = reg[n])
      BY <2>1 DEF TypeOK
    <3>2. QED
      BY <2>1, <2>3, <3>1 DEF FifosOnce, server, Newest
  <2>6. AnswersBacked'
    BY <2>1, <2>4 DEF AnswersBacked, server
  <2>7. AnswersAccounted'
    <3>1. CASE Up
      <4>1. cpc'[c] = "answer"
        BY <1>1, <2>1, <3>1 DEF CliRequest, ClientGoes, TypeOK
      <4>2. Waiting' = Waiting \union {c} /\ c \notin Waiting /\ Refused' = Refused
        BY <2>1, <4>1 DEF Waiting, Refused
      <4>3. Cardinality(Waiting') = Cardinality(Waiting) + 1
        BY <4>2, WaitingSets
      <4>4. Underway' = Underway + 1
        BY <2>1, <3>1 DEF Underway, TypeOK, server
      <4>5. Underway \in Nat
        BY DEF Underway, TypeOK
      <4>6. dropped' = dropped
        BY <2>1 DEF server
      <4>7. QED
        BY <3>1, <4>2, <4>3, <4>4, <4>5, <4>6, WaitingSets DEF AnswersAccounted
    <3>2. CASE ~ Up
      BY <2>1, <3>2 DEF AnswersAccounted, Up, server
    <3>3. QED
      BY <3>1, <3>2
  <2>8. QED
    BY <2>2, <2>5, <2>6, <2>7
<1>2. CASE CliAnswer(c)
  <2> DEFINE to == IF rsp = 1 THEN "open" ELSE "refused"
  <2>1. /\ UNCHANGED <<server, reg, terminal>>
        /\ rsp' = 0
        /\ cpc[c] = "answer"
        /\ cpc' \in [Clients -> ClientPC]
        /\ cpc'[c] = to
        /\ \A d \in Clients : d # c => cpc'[d] = cpc[d]
    BY <1>2, ClientStep DEF CliAnswer, ClientPC
  <2>2. TypeOK'
    <3>1. Cardinality(Clients) \in Nat
      BY ClientsAssumption, FS_CardinalityType
    <3>2. QED
      BY <2>1, <3>1 DEF TypeOK, server, terminal
  <2>3. Registered' = Registered
    BY <2>1 DEF Registered
  <2>4. FifosOnce'
    BY <2>1, <2>3 DEF FifosOnce, server, Newest
  <2>5. AnswersBacked'
    <3>1. Welcomed' = IF rsp = 1 THEN Welcomed \union {c} ELSE Welcomed
      BY <2>1 DEF Welcomed
    <3>2. c \notin Welcomed /\ Welcomed \subseteq Clients
      BY <2>1 DEF Welcomed
    <3>3. /\ Cardinality(Welcomed \union {c}) = Cardinality(Welcomed) + 1
          /\ Cardinality(Welcomed) \in Nat
      BY <3>2, OneMore
    <3>4. Cardinality(fifos) \in Nat
      BY ClientSets DEF TypeOK
    <3>5. mpc' = mpc /\ fifos' = fifos
      BY <2>1 DEF server
    <3>6. QED
      BY <2>1, <3>1, <3>3, <3>4, <3>5 DEF AnswersBacked, TypeOK
  <2>6. AnswersAccounted'
    <3>1. CASE Up
      <4>1. rsp > 0 /\ rsp \in Nat /\ Underway \in Nat
        BY <1>2, <3>1 DEF CliAnswer, TypeOK, Underway
      <4>2. Waiting' = Waiting \ {c} /\ c \in Waiting
        BY <2>1 DEF Waiting
      <4>3. Cardinality(Waiting') = Cardinality(Waiting) - 1
        BY <4>2, WaitingSets
      <4>4. Underway' = Underway - rsp
        <5>1. reg' = reg /\ mpc' = mpc /\ rsp' = 0
          BY <2>1 DEF server
        <5>2. Len(reg) \in Nat
          BY DEF TypeOK
        <5>3. QED
          BY <4>1, <5>1, <5>2 DEF Underway
      <4>5. Refused' = {} => rsp = 1 /\ Refused = {}
        <5>1. Refused' = IF rsp = 1 THEN Refused ELSE Refused \union {c}
          BY <2>1 DEF Refused
        <5>2. QED
          BY <5>1
      <4>6. dropped' = dropped
        BY <2>1 DEF server
      <4>7. QED
        BY <3>1, <4>1, <4>3, <4>4, <4>5, <4>6, WaitingSets DEF AnswersAccounted
    <3>2. CASE ~ Up
      BY <2>1, <3>2 DEF AnswersAccounted, Up, server
    <3>3. QED
      BY <3>1, <3>2
  <2>7. QED
    BY <2>2, <2>4, <2>5, <2>6
<1>3. CASE CliOpenServer(c) \/ CliOpen(c) \/ CliWork(c) \/ CliEnd(c)
  BY <1>3, ClientGoesOn
<1>4. QED
  BY <1>1, <1>2, <1>3 DEF Client

(* The inductive invariant of the registration (s_main.c, cn_main.c).       *)
THEOREM InvariantHolds == Spec => []IInv
<1>1. IInv /\ [Next]_vars => IInv'
  <2>1. IInv /\ UNCHANGED vars => IInv'
    BY DEF IInv, TypeOK, FifosOnce, Registered, AnswersBacked, Welcomed,
           AnswersAccounted, Underway, Waiting, Refused, Up, vars, server,
           channels, terminal, Newest
  <2>2. QED
    BY <2>1, MainKeeps, JobsKeep, ClientKeeps DEF Next
<1>2. QED
  BY <1>1, InitIInv, PTL DEF Spec

(* An ASK never comes before the FIFOs it stands for: s_register makes the  *)
(* FIFOs of one client before it writes one answer.                         *)
THEOREM WelcomesAreBacked == Spec => []WelcomesBacked
<1>1. IInv => WelcomesBacked
  <2> SUFFICES ASSUME IInv PROVE WelcomesBacked
    OBVIOUS
  <2>1. Cardinality(fifos) \in Nat /\ Cardinality(Welcomed) \in Nat
    BY ClientSets DEF IInv, TypeOK, Welcomed
  <2>2. QED
    BY <2>1 DEF IInv, AnswersBacked, TypeOK, WelcomesBacked
<1>2. QED
  BY <1>1, InvariantHolds, PTL

(* s_register_clients and cn_reg hand over one request and one answer for   *)
(* each client that waits, as long as no two of them run together in a FIFO *)
(* and the server has not ended; and never more than that.                  *)
THEOREM AnswersAreAccounted == Spec => []AnswersAccounted
<1>1. IInv => AnswersAccounted
  BY DEF IInv
<1>2. QED
  BY <1>1, InvariantHolds, PTL

(***************************************************************************)
(* MessageQueueTransfer.  The bytes in a queue.                            *)
(***************************************************************************)
LEMMA MessageFields ==
  ASSUME NEW msgs \in Seq(Message), NEW n \in 1 .. Len(msgs)
  PROVE  /\ msgs[n] \in Message
         /\ msgs[n].text \in Seq(Byte) /\ Len(msgs[n].text) \in Nat
         /\ msgs[n].mtype \in {STD_MSG_TYPE, LAST_MSG_TYPE}
         /\ Len(msgs[n].text) <= TextSz
<1>1. msgs[n] \in Message
  BY ElementOfSeq
<1>2. /\ msgs[n].text \in Seq(Byte) /\ msgs[n].mtype \in {STD_MSG_TYPE, LAST_MSG_TYPE}
      /\ Len(msgs[n].text) <= TextSz
  BY <1>1 DEF Message
<1>3. QED
  BY <1>1, <1>2, LenProperties

LEMMA UpTo ==
  ASSUME NEW n \in Nat
  PROVE  IsFiniteSet(1 .. n) /\ Cardinality(1 .. n) = n
  BY FS_Interval

LEMMA BytesFinite ==
  ASSUME NEW msgs \in Seq(Message)
  PROVE  IsFiniteSet(Bytes(msgs)) /\ Cardinality(Bytes(msgs)) \in Nat
<1> DEFINE Places == (1 .. Len(msgs)) \X (1 .. TextSz)
<1>1. Len(msgs) \in Nat
  BY LenProperties
<1>2. IsFiniteSet(1 .. Len(msgs))
  BY <1>1, FS_Interval
<1>3. IsFiniteSet(1 .. TextSz)
  BY TextSzAssumption, FS_Interval
<1>4. IsFiniteSet(Places)
  BY <1>2, <1>3, FS_Product
<1>5. Bytes(msgs) \in SUBSET Places
  BY DEF Bytes
<1>6. IsFiniteSet(Bytes(msgs))
  BY <1>4, <1>5, FS_Subset
<1>7. QED
  BY <1>6, FS_CardinalityType

LEMMA BytesMembers ==
  ASSUME NEW msgs \in Seq(Message), NEW n, NEW k
  PROVE  <<n, k>> \in Bytes(msgs) <=>
           n \in 1 .. Len(msgs) /\ k \in 1 .. Len(msgs[n].text)
<1>1. n \in 1 .. Len(msgs) => Len(msgs[n].text) \in Nat /\ Len(msgs[n].text) <= TextSz
  BY MessageFields
<1>2. <<n, k>> \in Bytes(msgs) <=>
        n \in 1 .. Len(msgs) /\ k \in 1 .. TextSz /\ k <= Len(msgs[n].text)
  BY DEF Bytes
<1>3. QED
  BY <1>1, <1>2, TextSzAssumption

LEMMA BytesPairs ==
  ASSUME NEW msgs, NEW x \in Bytes(msgs)
  PROVE  x = <<x[1], x[2]>> /\ x[1] \in 1 .. Len(msgs)
  BY DEF Bytes

(* A message more brings its bytes.                                         *)
LEMMA BytesAppended ==
  ASSUME NEW msgs \in Seq(Message), NEW msg \in Message
  PROVE  Cardinality(Bytes(Append(msgs, msg))) = Cardinality(Bytes(msgs)) + Len(msg.text)
<1> DEFINE more == Append(msgs, msg)
<1> DEFINE last == Len(msgs) + 1
<1> DEFINE new == {last} \X (1 .. Len(msg.text))
<1>1. /\ Len(msgs) \in Nat /\ Len(more) = last
      /\ more[last] = msg /\ \A n \in 1 .. Len(msgs) : more[n] = msgs[n]
  BY AppendProperties, LenProperties
<1>2. Len(msg.text) \in Nat
  <2>1. msg.text \in Seq(Byte)
    BY DEF Message
  <2>2. QED
    BY <2>1, LenProperties
<1> HIDE DEF more
<1>3. Bytes(more) = Bytes(msgs) \union new
  <2>0. more \in Seq(Message)
    BY AppendProperties DEF more
  <2>1. ASSUME NEW x \in Bytes(more)
        PROVE  x \in Bytes(msgs) \union new
    <3>1. x = <<x[1], x[2]>> /\ x[1] \in 1 .. last /\ x[2] \in 1 .. Len(more[x[1]].text)
      BY <1>1, <2>0, BytesPairs, BytesMembers
    <3>2. CASE x[1] = last
      BY <1>1, <3>1, <3>2
    <3>3. CASE x[1] # last
      <4>1. x[1] \in 1 .. Len(msgs) /\ x[2] \in 1 .. Len(msgs[x[1]].text)
        BY <1>1, <3>1, <3>3
      <4>2. QED
        BY <3>1, <4>1, BytesMembers
    <3>4. QED
      BY <3>2, <3>3
  <2>2. ASSUME NEW x \in Bytes(msgs)
        PROVE  x \in Bytes(more)
    <3>1. x = <<x[1], x[2]>> /\ x[1] \in 1 .. Len(msgs) /\ x[2] \in 1 .. Len(msgs[x[1]].text)
      BY BytesPairs, BytesMembers
    <3>2. x[1] \in 1 .. Len(more) /\ x[2] \in 1 .. Len(more[x[1]].text)
      BY <1>1, <3>1
    <3>3. QED
      BY <2>0, <3>1, <3>2, BytesMembers
  <2>3. ASSUME NEW x \in new
        PROVE  x \in Bytes(more)
    <3>1. PICK k \in 1 .. Len(msg.text) : x = <<last, k>>
      OBVIOUS
    <3>2. last \in 1 .. Len(more)
      BY <1>1
    <3>3. QED
      BY <1>1, <2>0, <3>1, <3>2, BytesMembers
  <2>4. QED
    BY <2>1, <2>2, <2>3
<1>4. Bytes(msgs) \intersect new = {}
  <2>1. SUFFICES ASSUME NEW x \in Bytes(msgs) \intersect new PROVE FALSE
    OBVIOUS
  <2>2. x[1] \in 1 .. Len(msgs) /\ x[1] = last
    BY <2>1, BytesPairs
  <2>3. QED
    BY <1>1, <2>2
<1>5. IsFiniteSet(new) /\ Cardinality(new) = Len(msg.text)
  <2>1. IsFiniteSet(1 .. Len(msg.text)) /\ Cardinality(1 .. Len(msg.text)) = Len(msg.text)
    BY <1>2, UpTo, Zenon
  <2>2. IsFiniteSet({last}) /\ Cardinality({last}) = 1
    BY FS_Singleton
  <2>3. /\ IsFiniteSet({last} \X (1 .. Len(msg.text)))
        /\ Cardinality({last} \X (1 .. Len(msg.text))) = 1 * Len(msg.text)
    BY <2>1, <2>2, FS_Product, Zenon
  <2>4. QED
    BY <1>2, <2>3
<1>6. Cardinality(Bytes(msgs) \union new) = Cardinality(Bytes(msgs)) + Len(msg.text)
  <2>1. Cardinality(Bytes(msgs) \intersect new) = 0
    BY <1>4, FS_EmptySet
  <2>2. IsFiniteSet(Bytes(msgs)) /\ Cardinality(Bytes(msgs)) \in Nat
    BY BytesFinite
  <2> HIDE DEF new
  <2>3. Cardinality(Bytes(msgs) \union new) =
          Cardinality(Bytes(msgs)) + Cardinality(new) - Cardinality(Bytes(msgs) \intersect new)
    BY <1>5, <2>2, FS_Union, Zenon
  <2>4. QED
    BY <1>2, <1>5, <2>1, <2>2, <2>3
<1>7. QED
  BY <1>3, <1>6 DEF more

(* Without its first message a queue has no more bytes.                     *)
LEMMA BytesOfTail ==
  ASSUME NEW msgs \in Seq(Message), msgs # << >>
  PROVE  Cardinality(Bytes(Tail(msgs))) <= Cardinality(Bytes(msgs))
<1>1. /\ Len(msgs) \in Nat /\ Len(Tail(msgs)) = Len(msgs) - 1
      /\ \A n \in 1 .. Len(Tail(msgs)) : Tail(msgs)[n] = msgs[n + 1]
  BY HeadTailProperties, LenProperties
<1> DEFINE f == [x \in Bytes(Tail(msgs)) |-> <<x[1] + 1, x[2]>>]
<1>2. ASSUME NEW x \in Bytes(Tail(msgs))
      PROVE  /\ f[x] \in Bytes(msgs)
             /\ x[1] \in Nat /\ x = <<x[1], x[2]>> /\ f[x] = <<x[1] + 1, x[2]>>
  <2>1. Tail(msgs) \in Seq(Message)
    BY HeadTailProperties
  <2>2. /\ x = <<x[1], x[2]>> /\ x[1] \in 1 .. Len(Tail(msgs))
        /\ x[2] \in 1 .. Len(Tail(msgs)[x[1]].text)
    <3>1. x = <<x[1], x[2]>>
      BY BytesPairs
    <3>2. <<x[1], x[2]>> \in Bytes(Tail(msgs))
      BY <3>1
    <3>3. QED
      BY <2>1, <3>1, <3>2, BytesMembers, Zenon
  <2>3. x[1] \in Nat /\ x[1] + 1 \in 1 .. Len(msgs) /\ Tail(msgs)[x[1]] = msgs[x[1] + 1]
    BY <1>1, <2>2
  <2>4. <<x[1] + 1, x[2]>> \in Bytes(msgs)
    BY <2>2, <2>3, BytesMembers
  <2>5. QED
    BY <2>2, <2>3, <2>4
<1>3. ASSUME NEW x \in Bytes(Tail(msgs)), NEW y \in Bytes(Tail(msgs)), f[x] = f[y]
      PROVE  x = y
  <2>1. x[1] + 1 = y[1] + 1 /\ x[2] = y[2]
    BY <1>2, <1>3
  <2>2. x[1] \in Nat /\ y[1] \in Nat
    BY <1>2
  <2>4. x[1] = y[1]
    BY <2>1, <2>2
  <2>3. QED
    BY <1>2, <2>1, <2>4
<1>4. f \in Injection(Bytes(Tail(msgs)), Bytes(msgs))
  <2>1. f \in [Bytes(Tail(msgs)) -> Bytes(msgs)]
    BY <1>2
  <2> HIDE DEF f
  <2>2. QED
    BY <1>3, <2>1 DEF Injection, IsInjective
<1>5. QED
  BY <1>4, BytesFinite, FS_Injection

(***************************************************************************)
(* Prefixes, and texts joined one behind the other.                        *)
(***************************************************************************)
LEMMA PrefixAt ==
  ASSUME NEW S, NEW s \in Seq(S), NEW t \in Seq(S)
  PROVE  IsPrefix(s, t) <=> Len(s) <= Len(t) /\ \A n \in 1 .. Len(s) : s[n] = t[n]
<1>1. /\ Len(s) \in Nat /\ Len(t) \in Nat
      /\ \A n \in 1 .. Len(s) : s[n] \in S
      /\ \A n \in 1 .. Len(t) : t[n] \in S
  BY LenProperties, ElementOfSeq
<1>2. SubSeq(s, 1, Len(s)) = s
  BY SubSeqFull
<1>3. ASSUME Len(s) <= Len(t)
      PROVE  /\ SubSeq(t, 1, Len(s)) \in Seq(S) /\ Len(SubSeq(t, 1, Len(s))) = Len(s)
             /\ \A n \in 1 .. Len(s) : SubSeq(t, 1, Len(s))[n] = t[n]
  <2>1. \A n \in 1 .. Len(s) : t[n] \in S
    BY <1>1, <1>3
  <2>2. /\ SubSeq(t, 1, Len(s)) \in Seq(S)
        /\ Len(SubSeq(t, 1, Len(s))) = IF 1 <= Len(s) THEN Len(s) - 1 + 1 ELSE 0
        /\ \A n \in 1 .. Len(s) - 1 + 1 : SubSeq(t, 1, Len(s))[n] = t[1 + n - 1]
    BY <1>1, <2>1, SubSeqProperties
  <2>3. QED
    BY <1>1, <2>2
<1>4. IsPrefix(s, t) => Len(s) <= Len(t) /\ \A n \in 1 .. Len(s) : s[n] = t[n]
  BY <1>2, <1>3 DEF IsPrefix
<1>5. ASSUME Len(s) <= Len(t), \A n \in 1 .. Len(s) : s[n] = t[n]
      PROVE  IsPrefix(s, t)
  <2>1. SubSeq(t, 1, Len(s)) = s
    BY <1>3, <1>5, SeqEqual
  <2>2. QED
    BY <1>2, <1>5, <2>1 DEF IsPrefix
<1>6. QED
  BY <1>4, <1>5

LEMMA LeastNumber ==
  ASSUME NEW S \in SUBSET Nat, S # {}
  PROVE  \E m \in S : \A n \in S : ~ (n < m)
<1>1. PICK m \in S : \A n \in S : ~ (<<n, m>> \in OpToRel(<, Nat))
  BY NatLessThanWellFounded, WFMin, Zenon
<1>2. \A n \in S : <<n, m>> \in OpToRel(<, Nat) <=> n < m
  BY Zenon DEF OpToRel
<1>3. QED
  BY <1>1, <1>2, Zenon

LEMMA FlatteningExists ==
  ASSUME NEW T, NEW n \in Nat
  PROVE  \E f : f = [k \in 1 .. n |-> IF k = 1 THEN T[k] ELSE f[k - 1] \o T[k]]
<1> DEFINE Rhs(f, m) == [k \in 1 .. m |-> IF k = 1 THEN T[k] ELSE f[k - 1] \o T[k]]
<1> DEFINE Without == { m \in Nat : ~ \E f : f = Rhs(f, m) }
<1>1. SUFFICES ASSUME Without # {} PROVE FALSE
  BY Zenon
<1>2. PICK m \in Without : \A j \in Without : ~ (j < m)
  <2>1. Without \in SUBSET Nat
    OBVIOUS
  <2> HIDE DEF Without
  <2>2. QED
    BY <1>1, <2>1, LeastNumber
<1>3. CASE m = 0
  <2>1. [k \in 1 .. 0 |-> T[k]] = Rhs([k \in 1 .. 0 |-> T[k]], 0)
    OBVIOUS
  <2>2. QED
    BY <1>2, <1>3, <2>1
<1>4. CASE m # 0
  <2>1. m \in Nat /\ m - 1 \in Nat /\ m - 1 < m
    BY <1>2, <1>4
  <2>2. PICK f : f = Rhs(f, m - 1)
    BY <1>2, <2>1
  <2> DEFINE g == [k \in 1 .. m |-> IF k < m THEN f[k]
                                    ELSE IF m = 1 THEN T[m] ELSE f[m - 1] \o T[m]]
  <2>3. ASSUME NEW k \in 1 .. m
        PROVE  g[k] = IF k = 1 THEN T[k] ELSE g[k - 1] \o T[k]
    <3>1. CASE k < m
      <4>1. k \in 1 .. (m - 1) /\ (k # 1 => k - 1 \in 1 .. m /\ k - 1 < m)
        BY <2>1, <3>1
      <4>2. g[k] = f[k] /\ (k # 1 => g[k - 1] = f[k - 1])
        BY <3>1, <4>1
      <4>3. f[k] = IF k = 1 THEN T[k] ELSE f[k - 1] \o T[k]
        BY <2>2, <4>1
      <4>4. QED
        BY <4>2, <4>3
    <3>2. CASE k = m
      <4>1. m \in 1 .. m /\ (m # 1 => m - 1 \in 1 .. m /\ m - 1 < m)
        BY <2>1
      <4>2. /\ g[m] = IF m = 1 THEN T[m] ELSE f[m - 1] \o T[m]
            /\ m # 1 => g[m - 1] = f[m - 1]
        BY <2>1, <4>1
      <4>3. QED
        BY <3>2, <4>2
    <3>3. QED
      BY <2>1, <3>1, <3>2
  <2>4. g = [k \in 1 .. m |-> g[k]]
    OBVIOUS
  <2> HIDE DEF g
  <2>5. g = Rhs(g, m)
    BY <2>3, <2>4
  <2>6. QED
    BY <1>2, <2>5
<1>5. QED
  BY <1>3, <1>4

LEMMA JoinedFunction ==
  ASSUME NEW msgs, NEW n \in Nat \ {0}
  PROVE  \E f : /\ Joined(msgs, n) = f[n]
                /\ f[1] = msgs[1].text
                /\ \A k \in 2 .. n : f[k] = f[k - 1] \o msgs[k].text
<1> DEFINE T == [k \in 1 .. n |-> msgs[k].text]
<1> DEFINE Rhs(f) == [k \in 1 .. n |-> IF k = 1 THEN T[k] ELSE f[k - 1] \o T[k]]
<1> DEFINE flatten == CHOOSE f : f = Rhs(f)
<1>1. Len(T) = n
  OBVIOUS
<1>2. \E f : f = Rhs(f)
  BY FlatteningExists
<1>3. flatten = Rhs(flatten)
  <2> HIDE DEF Rhs
  <2>1. QED
    BY <1>2
<1>4. Joined(msgs, n) = flatten[n]
  BY <1>1 DEF Joined, FlattenSeq
<1> HIDE DEF flatten
<1>5. flatten[1] = msgs[1].text
  <2>1. 1 \in 1 .. n
    OBVIOUS
  <2>2. QED
    BY <1>3, <2>1
<1>6. ASSUME NEW k \in 2 .. n
      PROVE  flatten[k] = flatten[k - 1] \o msgs[k].text
  <2>1. k \in 1 .. n /\ k # 1
    OBVIOUS
  <2>2. QED
    BY <1>3, <2>1
<1>7. QED
  BY <1>4, <1>5, <1>6

LEMMA JoinedNothing ==
  ASSUME NEW msgs
  PROVE  Joined(msgs, 0) = << >>
  BY DEF Joined, FlattenSeq

(* What the functions for two numbers of texts have in common.              *)
LEMMA JoinedStep ==
  ASSUME NEW msgs \in Seq(Message), NEW n \in 1 .. Len(msgs)
  PROVE  Joined(msgs, n) = Joined(msgs, n - 1) \o msgs[n].text
<1>0. Len(msgs) \in Nat /\ n \in Nat \ {0} /\ n - 1 \in Nat
  BY LenProperties
<1>1. PICK f : /\ Joined(msgs, n) = f[n]
               /\ f[1] = msgs[1].text
               /\ \A k \in 2 .. n : f[k] = f[k - 1] \o msgs[k].text
  BY <1>0, JoinedFunction
<1>2. CASE n = 1
  <2>1. msgs[1].text \in Seq(Byte)
    BY <1>2, MessageFields
  <2>2. << >> \o msgs[1].text = msgs[1].text
    BY <2>1, ConcatEmptySeq
  <2>3. n - 1 = 0
    BY <1>2
  <2>4. Joined(msgs, n - 1) = << >>
    BY <2>3, JoinedNothing
  <2>5. Joined(msgs, n) = msgs[n].text
    BY <1>1, <1>2
  <2>6. QED
    BY <1>2, <2>2, <2>4, <2>5
<1>3. CASE n # 1
  <2>1. n - 1 \in Nat \ {0}
    BY <1>0, <1>3
  <2>2. PICK g : /\ Joined(msgs, n - 1) = g[n - 1]
                 /\ g[1] = msgs[1].text
                 /\ \A k \in 2 .. (n - 1) : g[k] = g[k - 1] \o msgs[k].text
    BY <2>1, JoinedFunction
  <2> DEFINE Apart == { k \in 1 .. (n - 1) : f[k] # g[k] }
  <2>3. Apart = {}
    <3>1. SUFFICES ASSUME Apart # {} PROVE FALSE
      OBVIOUS
    <3>2. Apart \in SUBSET Nat
      OBVIOUS
    <3> HIDE DEF Apart
    <3>3. PICK k \in Apart : \A j \in Apart : ~ (j < k)
      BY <3>1, <3>2, LeastNumber
    <3> USE DEF Apart
    <3>4. k \in 1 .. (n - 1) /\ f[k] # g[k]
      OBVIOUS
    <3>5. k # 1
      BY <1>1, <2>2, <3>4
    <3>6. /\ k \in 2 .. (n - 1) /\ k \in 2 .. n
          /\ k - 1 \in 1 .. (n - 1) /\ k - 1 < k
      BY <1>0, <3>4, <3>5
    <3>7. f[k - 1] = g[k - 1]
      BY <3>3, <3>6
    <3>8. QED
      BY <1>1, <2>2, <3>4, <3>6, <3>7
  <2>4. n - 1 \in 1 .. (n - 1) /\ n \in 2 .. n
    BY <2>1, <1>0
  <2>5. f[n - 1] = g[n - 1]
    BY <2>3, <2>4
  <2>6. QED
    BY <1>1, <2>2, <2>4, <2>5
<1>4. QED
  BY <1>2, <1>3

LEMMA JoinedType ==
  ASSUME NEW msgs \in Seq(Message), NEW n \in 0 .. Len(msgs)
  PROVE  Joined(msgs, n) \in Seq(Byte)
<1> DEFINE Bad == { k \in 0 .. Len(msgs) : Joined(msgs, k) \notin Seq(Byte) }
<1>1. SUFFICES ASSUME Bad # {} PROVE FALSE
  OBVIOUS
<1>2. Bad \in SUBSET Nat
  OBVIOUS
<1> HIDE DEF Bad
<1>3. PICK k \in Bad : \A j \in Bad : ~ (j < k)
  BY <1>1, <1>2, LeastNumber
<1> USE DEF Bad
<1>4. Len(msgs) \in Nat /\ k \in 0 .. Len(msgs) /\ Joined(msgs, k) \notin Seq(Byte)
  BY LenProperties
<1>5. k # 0
  BY <1>4, JoinedNothing, EmptySeq
<1>6. k \in 1 .. Len(msgs) /\ k - 1 \in 0 .. Len(msgs) /\ k - 1 < k
  BY <1>4, <1>5
<1>7. Joined(msgs, k - 1) \in Seq(Byte)
  BY <1>3, <1>6
<1>8. msgs[k].text \in Seq(Byte)
  BY <1>6, MessageFields
<1>9. Joined(msgs, k) \in Seq(Byte)
  BY <1>6, <1>7, <1>8, JoinedStep, ConcatProperties
<1>10. QED
  BY <1>4, <1>9

LEMMA PrefixGrows ==
  ASSUME NEW S, NEW s \in Seq(S), NEW t \in Seq(S), NEW u \in Seq(S),
         IsPrefix(s, t)
  PROVE  IsPrefix(s, t \o u)
<1>1. Len(s) <= Len(t) /\ \A n \in 1 .. Len(s) : s[n] = t[n]
  BY PrefixAt
<1>2. /\ t \o u \in Seq(S) /\ Len(t \o u) = Len(t) + Len(u)
      /\ \A n \in 1 .. Len(t) + Len(u) : (t \o u)[n] = IF n <= Len(t) THEN t[n] ELSE u[n - Len(t)]
  BY ConcatProperties
<1>3. Len(s) \in Nat /\ Len(t) \in Nat /\ Len(u) \in Nat
  BY LenProperties
<1>4. Len(s) <= Len(t \o u) /\ \A n \in 1 .. Len(s) : s[n] = (t \o u)[n]
  BY <1>1, <1>2, <1>3
<1>5. QED
  BY <1>2, <1>4, PrefixAt

LEMMA JoinedPrefix ==
  ASSUME NEW msgs \in Seq(Message), NEW m \in Nat, NEW n \in m .. Len(msgs)
  PROVE  IsPrefix(Joined(msgs, m), Joined(msgs, n))
<1> DEFINE Bad == { k \in m .. Len(msgs) : ~ IsPrefix(Joined(msgs, m), Joined(msgs, k)) }
<1>1. SUFFICES ASSUME Bad # {} PROVE FALSE
  OBVIOUS
<1>0. Len(msgs) \in Nat
  BY LenProperties
<1>2. Bad \in SUBSET Nat
  BY <1>0
<1> HIDE DEF Bad
<1>3. PICK k \in Bad : \A j \in Bad : ~ (j < k)
  BY <1>1, <1>2, LeastNumber
<1> USE DEF Bad
<1>4. k \in m .. Len(msgs) /\ ~ IsPrefix(Joined(msgs, m), Joined(msgs, k))
  OBVIOUS
<1>5. \A j \in m .. Len(msgs) : Joined(msgs, j) \in Seq(Byte)
  BY <1>0, JoinedType
<1>6. k # m
  <2>1. m \in m .. Len(msgs)
    BY <1>0, <1>4
  <2>2. IsPrefix(Joined(msgs, m), Joined(msgs, m))
    BY <1>5, <2>1, LenProperties, PrefixAt
  <2>3. QED
    BY <1>4, <2>2
<1>7. /\ k \in 1 .. Len(msgs) /\ k - 1 \in m .. Len(msgs) /\ k - 1 < k
      /\ m \in m .. Len(msgs)
  BY <1>0, <1>4, <1>6
<1>8. IsPrefix(Joined(msgs, m), Joined(msgs, k - 1))
  BY <1>3, <1>7
<1>9. msgs[k].text \in Seq(Byte)
  BY <1>7, MessageFields
<1>10. IsPrefix(Joined(msgs, m), Joined(msgs, k))
  BY <1>5, <1>7, <1>8, <1>9, JoinedStep, PrefixGrows
<1>11. QED
  BY <1>4, <1>10

(***************************************************************************)
(* Types.                                                                  *)
(***************************************************************************)
LEMMA BlockFacts ==
  ASSUME QueueTypeOK, NEW r \in Runs
  PROVE  /\ src[r] \in Seq(Byte) /\ Len(src[r]) \in Nat
         /\ sent[r] \in Nat /\ sent[r] <= Len(src[r])
         /\ Left(r) \in 0 .. TextSz /\ sent[r] + Left(r) <= Len(src[r])
         /\ Left(r) # TextSz => sent[r] + Left(r) = Len(src[r])
         /\ \A n \in 1 .. Left(r) : ReadInto(r)[n] = src[r][sent[r] + n]
         /\ ReadInto(r) \in Block
         /\ read_sz(r) \in {0, Left(r)}
<1>1. src[r] \in Seq(Byte)
  BY SourcesAssumption DEF QueueTypeOK
<1>2. Len(src[r]) \in Nat
  BY <1>1, LenProperties
<1>3. sent[r] \in Nat /\ sent[r] <= Len(src[r])
  BY <1>2 DEF QueueTypeOK
<1>4. /\ Left(r) \in 0 .. TextSz /\ sent[r] + Left(r) <= Len(src[r])
      /\ Left(r) # TextSz => sent[r] + Left(r) = Len(src[r])
  BY <1>2, <1>3, TextSzAssumption DEF Left, Smaller
<1>5. \A n \in 1 .. Left(r) : n \in 1 .. TextSz /\ sent[r] + n \in 1 .. Len(src[r])
  BY <1>2, <1>3, <1>4, TextSzAssumption
<1>6. \A n \in 1 .. Left(r) : ReadInto(r)[n] = src[r][sent[r] + n]
  BY <1>5 DEF ReadInto
<1>7. \A n \in 1 .. Left(r) : src[r][sent[r] + n] \in Byte
  BY <1>1, <1>5, ElementOfSeq
<1>8. ReadInto(r) \in Block
  <2>1. buf[r] \in Block
    BY DEF QueueTypeOK
  <2>2. \A n \in 1 .. TextSz : n <= Left(r) => n \in 1 .. Left(r)
    BY <1>4, TextSzAssumption
  <2>3. QED
    BY <1>7, <2>1, <2>2 DEF ReadInto, Block
<1>9. read_sz(r) \in {0, Left(r)}
  BY DEF read_sz
<1>10. QED
  BY <1>1, <1>2, <1>3, <1>4, <1>6, <1>8, <1>9

LEMMA StringCopied ==
  ASSUME NEW old \in Block, NEW b \in Block
  PROVE  /\ strcpy(old, b) \in Block
         /\ \A n \in 1 .. TextSz :
              strcpy(old, b)[n] = b[n] \/ \E m \in 1 .. (n - 1) : b[m] = NUL
  BY DEF strcpy, Block

(* What a sender puts into its message.                                     *)
LEMMA BlockMessage ==
  ASSUME QueueTypeOK, NEW r \in Runs, SndBlock(r)
  PROVE  LET msg == [mtype |-> STD_MSG_TYPE, text |-> SubSeq(mtext'[r], 1, read_sz(r))]
         IN  /\ msg \in Message /\ Len(msg.text) = Left(r)
             /\ msgsnd(r, msg)
             /\ mtext'[r] = strcpy(mtext[r], ReadInto(r))
             /\ \A n \in 1 .. Left(r) : msg.text[n] = mtext'[r][n]
<1>1. /\ read_sz(r) # 0
      /\ buf' = [buf EXCEPT ![r] = ReadInto(r)]
      /\ mtext' = [mtext EXCEPT ![r] = strcpy(@, buf'[r])]
      /\ msgsnd(r, [mtype |-> STD_MSG_TYPE, text |-> SubSeq(mtext'[r], 1, read_sz(r))])
  BY DEF SndBlock
<1>2. mtext'[r] = strcpy(mtext[r], ReadInto(r))
  BY <1>1 DEF QueueTypeOK
<1>3. mtext'[r] \in Block
  BY <1>2, BlockFacts, StringCopied DEF QueueTypeOK
<1>4. read_sz(r) = Left(r) /\ Left(r) \in 1 .. TextSz
  BY <1>1, BlockFacts, TextSzAssumption
<1>5. \A n \in 1 .. Left(r) : mtext'[r][n] \in Byte
  BY <1>3, <1>4, TextSzAssumption DEF Block
<1> DEFINE text == SubSeq(mtext'[r], 1, Left(r))
<1>6. /\ text \in Seq(Byte)
      /\ Len(text) = IF 1 <= Left(r) THEN Left(r) - 1 + 1 ELSE 0
      /\ \A n \in 1 .. Left(r) - 1 + 1 : text[n] = mtext'[r][1 + n - 1]
  <2>1. 1 \in Int /\ Left(r) \in Int
    BY <1>4
  <2>2. QED
    BY <1>5, <2>1, SubSeqProperties
<1>7. Len(text) = Left(r) /\ \A n \in 1 .. Left(r) : text[n] = mtext'[r][n]
  BY <1>4, <1>6
<1> HIDE DEF text
<1>8. [mtype |-> STD_MSG_TYPE, text |-> text] \in Message
  BY <1>4, <1>6, <1>7, TextSzAssumption DEF Message
<1>9. QED
  BY <1>1, <1>2, <1>4, <1>7, <1>8 DEF text

LEMMA Sends ==
  ASSUME QueueTypeOK, NEW r \in Runs, NEW msg \in Message, msgsnd(r, msg)
  PROVE  /\ queue' \in [id : {0} \union Runs, msgs : Seq(Message)]
         /\ queue'.id = queue.id
         /\ queue'.msgs = IF queue.id = msgid[r] THEN Append(queue.msgs, msg) ELSE queue.msgs
         /\ queued' <= QBytes /\ Len(queue'.msgs) <= QBytes
<1>1. queue \in [id : {0} \union Runs, msgs : Seq(Message)]
  BY DEF QueueTypeOK
<1>2. CASE queue.id = msgid[r]
  <2>1. /\ queued + Len(msg.text) <= QBytes
        /\ Len(queue.msgs) < QBytes
        /\ queue' = [queue EXCEPT !.msgs = Append(@, msg)]
    BY <1>2 DEF msgsnd
  <2>2. queue'.msgs = Append(queue.msgs, msg) /\ queue'.id = queue.id
    BY <1>1, <2>1
  <2>3. Append(queue.msgs, msg) \in Seq(Message)
    BY <1>1, AppendProperties
  <2>4. queued' = queued + Len(msg.text)
    BY <1>1, <2>2, BytesAppended DEF queued
  <2>5. Len(queue'.msgs) = Len(queue.msgs) + 1 /\ Len(queue.msgs) \in Nat
    BY <1>1, <2>2, AppendProperties, LenProperties
  <2>6. queue' \in [id : {0} \union Runs, msgs : Seq(Message)]
    BY <1>1, <2>1, <2>3
  <2>7. QED
    BY <1>2, <2>1, <2>2, <2>4, <2>5, <2>6, QBytesAssumption
<1>3. CASE queue.id # msgid[r]
  <2>1. queue' = queue
    BY <1>3 DEF msgsnd
  <2>2. queued' = queued
    BY <2>1 DEF queued
  <2>3. QED
    BY <1>1, <1>3, <2>1, <2>2 DEF QueueTypeOK
<1>4. QED
  BY <1>2, <1>3

LEMMA InitTypes == QueueInit => QueueTypeOK
<1> SUFFICES ASSUME QueueInit PROVE QueueTypeOK
  OBVIOUS
<1>1. << >> \in Seq(Message) /\ Len(<< >>) = 0 /\ << >> \in Seq(Byte)
  BY EmptySeq
<1>2. queue \in [id : {0} \union Runs, msgs : Seq(Message)]
  BY <1>1 DEF QueueInit
<1>3. queued <= QBytes /\ Len(queue.msgs) <= QBytes
  <2>1. Bytes(<< >>) = {}
    BY <1>1 DEF Bytes
  <2>2. queued = 0
    BY <2>1, FS_EmptySet DEF QueueInit, queued
  <2>3. QED
    BY <1>1, <2>2, QBytesAssumption DEF QueueInit
<1>4. sent \in [Runs -> Nat] /\ \A r \in Runs : sent[r] <= Len(src[r])
  <2>1. \A r \in Runs : Len(src[r]) \in Nat
    BY SourcesAssumption, LenProperties DEF QueueInit
  <2>2. QED
    BY <2>1 DEF QueueInit
<1>5. /\ buf \in [Runs -> Block] /\ mtext \in [Runs -> Block]
  BY ByteAssumption DEF QueueInit, Block
<1>6. found \in [Runs -> [msgs : Seq(Message), alone : BOOLEAN]]
  BY <1>1 DEF QueueInit
<1>7. /\ msgid \in [Runs -> {0} \union Runs] /\ dst \in [Runs -> Seq(Byte)]
      /\ spc \in [Runs -> {"idle", "open", "send", "last"} \union Ended]
      /\ rpc \in [Runs -> {"idle", "open", "receive"} \union Ended]
  BY <1>1 DEF QueueInit
<1>8. QED
  BY <1>2, <1>3, <1>4, <1>5, <1>6, <1>7 DEF QueueInit, QueueTypeOK

(* A step that leaves the queue, the files and the buffers alone.           *)
LEMMA PlacesTyped ==
  ASSUME QueueTypeOK, UNCHANGED <<behind, queue, src, dst, msgid, sent, buf, mtext, found>>,
         spc' \in [Runs -> {"idle", "open", "send", "last"} \union Ended],
         rpc' \in [Runs -> {"idle", "open", "receive"} \union Ended]
  PROVE  QueueTypeOK'
<1>1. queued' = queued
  BY DEF queued
<1>2. QED
  BY <1>1 DEF QueueTypeOK

LEMMA StartTypes ==
  ASSUME QueueTypeOK, NEW r \in Runs, Start(r)
  PROVE  QueueTypeOK'
<1>1. /\ queue' = IF queue.id = 0 THEN [id |-> r, msgs |-> << >>] ELSE queue
      /\ msgid' = [msgid EXCEPT ![r] = queue'.id]
      /\ rpc' = [rpc EXCEPT ![r] = "open"] /\ spc' = [spc EXCEPT ![r] = "open"]
      /\ found' = [found EXCEPT ![r] = [msgs |-> queue'.msgs,
                                        alone |-> SendingTo(queue'.id) = {}]]
      /\ UNCHANGED <<behind, src, dst, sent, buf, mtext>>
  BY DEF Start, getmsgid, ReceiverGoes
<1>2. << >> \in Seq(Message) /\ Len(<< >>) = 0
  BY EmptySeq
<1>3. queue \in [id : {0} \union Runs, msgs : Seq(Message)]
  BY DEF QueueTypeOK
<1>4. queue' \in [id : {0} \union Runs, msgs : Seq(Message)]
  BY <1>1, <1>2, <1>3
<1>5. queued' <= QBytes /\ Len(queue'.msgs) <= QBytes
  <2>1. CASE queue.id = 0
    <3>1. queue'.msgs = << >>
      BY <1>1, <2>1
    <3>2. Bytes(<< >>) = {}
      BY <1>2 DEF Bytes
    <3>3. queued' = 0
      BY <3>1, <3>2, FS_EmptySet DEF queued
    <3>4. QED
      BY <1>2, <3>1, <3>3, QBytesAssumption
  <2>2. CASE queue.id # 0
    <3>1. queue' = queue
      BY <1>1, <2>2
    <3>2. QED
      BY <3>1 DEF QueueTypeOK, queued
  <2>3. QED
    BY <2>1, <2>2
<1>6. /\ found' \in [Runs -> [msgs : Seq(Message), alone : BOOLEAN]]
  <2>1. queue'.msgs \in Seq(Message) /\ (SendingTo(queue'.id) = {}) \in BOOLEAN
    BY <1>4
  <2>2. [msgs |-> queue'.msgs, alone |-> SendingTo(queue'.id) = {}]
          \in [msgs : Seq(Message), alone : BOOLEAN]
    BY <2>1
  <2>3. found \in [Runs -> [msgs : Seq(Message), alone : BOOLEAN]]
    BY DEF QueueTypeOK
  <2>4. QED
    BY <1>1, <2>2, <2>3
<1>7. /\ msgid' \in [Runs -> {0} \union Runs]
      /\ spc' \in [Runs -> {"idle", "open", "send", "last"} \union Ended]
      /\ rpc' \in [Runs -> {"idle", "open", "receive"} \union Ended]
  BY <1>1, <1>4 DEF QueueTypeOK
<1>8. QED
  BY <1>1, <1>4, <1>5, <1>6, <1>7 DEF QueueTypeOK

LEMMA SenderTypes ==
  ASSUME QueueTypeOK, NEW r \in Runs, SndBlock(r) \/ SndLast(r)
  PROVE  QueueTypeOK'
<1>1. CASE SndBlock(r)
  <2>1. PICK msg \in Message : msgsnd(r, msg)
    BY <1>1, BlockMessage
  <2>2. /\ queue' \in [id : {0} \union Runs, msgs : Seq(Message)]
        /\ queued' <= QBytes /\ Len(queue'.msgs) <= QBytes
    BY <2>1, Sends
  <2>3. /\ spc' = [spc EXCEPT ![r] = AfterBlock(r)]
        /\ buf' = [buf EXCEPT ![r] = ReadInto(r)]
        /\ mtext'[r] = strcpy(mtext[r], ReadInto(r))
        /\ mtext' = [mtext EXCEPT ![r] = mtext'[r]]
        /\ sent' = [sent EXCEPT ![r] = @ + Left(r)]
        /\ UNCHANGED <<behind, src, dst, msgid, rpc, found>>
    BY <1>1, BlockMessage DEF SndBlock, SenderGoes, QueueTypeOK
  <2>4. spc' \in [Runs -> {"idle", "open", "send", "last"} \union Ended]
    BY <2>3 DEF QueueTypeOK, AfterBlock
  <2>5. buf' \in [Runs -> Block]
    BY <2>3, BlockFacts DEF QueueTypeOK
  <2>6. mtext' \in [Runs -> Block]
    <3>1. mtext'[r] \in Block
      BY <2>3, BlockFacts, StringCopied DEF QueueTypeOK
    <3>2. QED
      BY <2>3, <3>1 DEF QueueTypeOK
  <2>7. sent' \in [Runs -> Nat] /\ \A s \in Runs : sent'[s] <= Len(src[s])
    <3>1. sent[r] + Left(r) \in Nat /\ sent[r] + Left(r) <= Len(src[r])
      BY BlockFacts
    <3>2. QED
      BY <2>3, <3>1 DEF QueueTypeOK
  <2>8. QED
    BY <2>2, <2>3, <2>4, <2>5, <2>6, <2>7 DEF QueueTypeOK
<1>2. CASE SndLast(r)
  <2>1. LastMessage \in Message
    BY EmptySeq, TextSzAssumption DEF LastMessage, Message
  <2>2. /\ queue' \in [id : {0} \union Runs, msgs : Seq(Message)]
        /\ queued' <= QBytes /\ Len(queue'.msgs) <= QBytes
    BY <1>2, <2>1, Sends DEF SndLast
  <2>3. spc' \in [Runs -> {"idle", "open", "send", "last"} \union Ended]
    BY <1>2 DEF SndLast, QueueTypeOK, Ended
  <2>4. QED
    BY <1>2, <2>2, <2>3 DEF SndLast, QueueTypeOK
<1>3. QED
  BY <1>1, <1>2

LEMMA ReceiverTypes ==
  ASSUME QueueTypeOK, NEW r \in Runs, RcvBlock(r) \/ RcvLast(r)
  PROVE  QueueTypeOK'
<1>1. queue \in [id : {0} \union Runs, msgs : Seq(Message)] /\ queue.msgs # << >>
  BY DEF QueueTypeOK, RcvBlock, RcvLast
<1>2. CASE RcvBlock(r)
  <2>1. /\ Head(queue.msgs) \in Message /\ Tail(queue.msgs) \in Seq(Message)
        /\ Len(Tail(queue.msgs)) = Len(queue.msgs) - 1 /\ Len(queue.msgs) \in Nat
    BY <1>1, HeadTailProperties, LenProperties
  <2>2. queue' = [queue EXCEPT !.msgs = Tail(@)] /\ queue'.msgs = Tail(queue.msgs)
    BY <1>1, <1>2 DEF RcvBlock
  <2>3. queue' \in [id : {0} \union Runs, msgs : Seq(Message)]
    BY <1>1, <2>1, <2>2
  <2>4. queued' <= queued
    BY <1>1, <2>2, BytesOfTail DEF queued
  <2>5. queued \in Nat /\ queued' \in Nat
    BY <1>1, <2>1, <2>2, BytesFinite DEF queued
  <2>6. dst' \in [Runs -> Seq(Byte)]
    <3>1. Head(queue.msgs).text \in Seq(Byte)
      BY <2>1 DEF Message
    <3>2. dst[r] \o Head(queue.msgs).text \in Seq(Byte)
      BY <3>1, ConcatProperties DEF QueueTypeOK
    <3>3. QED
      BY <1>2, <3>2 DEF RcvBlock, QueueTypeOK
  <2>7. queued' <= QBytes /\ Len(queue'.msgs) <= QBytes
    BY <2>1, <2>2, <2>4, <2>5, QBytesAssumption DEF QueueTypeOK
  <2>8. QED
    BY <1>2, <2>3, <2>6, <2>7 DEF RcvBlock, QueueTypeOK
<1>3. CASE RcvLast(r)
  <2>1. << >> \in Seq(Message) /\ Len(<< >>) = 0
    BY EmptySeq
  <2>2. queue' = [id |-> 0, msgs |-> << >>]
    BY <1>3 DEF RcvLast
  <2>3. Bytes(<< >>) = {}
    BY <2>1 DEF Bytes
  <2>4. queued' = 0
    BY <2>2, <2>3, FS_EmptySet DEF queued
  <2>5. queue' \in [id : {0} \union Runs, msgs : Seq(Message)]
    BY <2>1, <2>2
  <2>6. queued' <= QBytes /\ Len(queue'.msgs) <= QBytes
    BY <2>1, <2>2, <2>4, QBytesAssumption
  <2>7. rpc' \in [Runs -> {"idle", "open", "receive"} \union Ended]
    BY <1>3 DEF RcvLast, ReceiverGoes, QueueTypeOK, Ended
  <2>8. QED
    BY <1>3, <2>5, <2>6, <2>7 DEF RcvLast, QueueTypeOK
<1>4. QED
  BY <1>2, <1>3

LEMMA TypesKept == QueueTypeOK /\ [QueueNext]_queueVars => QueueTypeOK'
<1> SUFFICES ASSUME QueueTypeOK, [QueueNext]_queueVars PROVE QueueTypeOK'
  OBVIOUS
<1>1. ASSUME NEW r \in Runs, Start(r) PROVE QueueTypeOK'
  BY <1>1, StartTypes
<1>2. ASSUME NEW r \in Runs, Interrupt(r) PROVE QueueTypeOK'
  <2>1. /\ spc' \in [Runs -> {"idle", "open", "send", "last"} \union Ended]
        /\ rpc' \in [Runs -> {"idle", "open", "receive"} \union Ended]
    BY <1>2 DEF Interrupt, QueueTypeOK, Ended
  <2>2. QED
    BY <1>2, <2>1, PlacesTyped DEF Interrupt
<1>3. ASSUME NEW r \in Runs, Sender(r) PROVE QueueTypeOK'
  <2>1. CASE SndOpen(r)
    <3>1. /\ spc' \in [Runs -> {"idle", "open", "send", "last"} \union Ended]
          /\ rpc' \in [Runs -> {"idle", "open", "receive"} \union Ended]
      BY <2>1 DEF SndOpen, SenderGoes, QueueTypeOK, Ended
    <3>2. QED
      BY <2>1, <3>1, PlacesTyped DEF SndOpen
  <2>2. QED
    BY <1>3, <2>1, SenderTypes DEF Sender
<1>4. ASSUME NEW r \in Runs, Receiver(r) PROVE QueueTypeOK'
  <2>1. CASE RcvOpen(r)
    <3>1. /\ spc' \in [Runs -> {"idle", "open", "send", "last"} \union Ended]
          /\ rpc' \in [Runs -> {"idle", "open", "receive"} \union Ended]
      BY <2>1 DEF RcvOpen, ReceiverGoes, QueueTypeOK, Ended
    <3>2. QED
      BY <2>1, <3>1, PlacesTyped DEF RcvOpen
  <2>2. QED
    BY <1>4, <2>1, ReceiverTypes DEF Receiver
<1>5. ASSUME UNCHANGED queueVars PROVE QueueTypeOK'
  BY <1>5, PlacesTyped DEF queueVars, QueueTypeOK
<1>6. QED
  BY <1>1, <1>2, <1>3, <1>4, <1>5 DEF QueueNext

(***************************************************************************)
(* Numbers of blocks.                                                      *)
(***************************************************************************)
LEMMA Quotients ==
  ASSUME NEW a \in Int, NEW d \in Int, d > 0, a >= 0
  PROVE  /\ a \div d \in Int /\ a \div d >= 0
         /\ a % d \in 0 .. (d - 1)
         /\ a = (a \div d) * d + (a % d)
  OBVIOUS

LEMMA TimesGrows ==
  ASSUME NEW x \in Int, NEW y \in Int, NEW d \in Int, d > 0, x < y
  PROVE  x * d + d <= y * d
<1>1. y - x - 1 >= 0
  OBVIOUS
<1>2. (y - x - 1) * d >= 0
  BY <1>1
<1>3. (y - x - 1) * d = y * d - x * d - d
  OBVIOUS
<1>4. x * d \in Int /\ y * d \in Int
  OBVIOUS
<1>5. QED
  BY <1>2, <1>3, <1>4

LEMMA TimesKeeps ==
  ASSUME NEW x \in Int, NEW y \in Int, NEW d \in Nat \ {0}, x <= y
  PROVE  x * d <= y * d /\ x * d \in Int /\ y * d \in Int
<1>1. x * d \in Int /\ y * d \in Int
  OBVIOUS
<1>2. CASE x = y
  BY <1>1, <1>2
<1>3. CASE x < y
  <2>1. x * d + d <= y * d
    BY <1>3, TimesGrows
  <2>2. QED
    BY <1>1, <2>1
<1>4. QED
  BY <1>1, <1>2, <1>3

LEMMA QuotientIs ==
  ASSUME NEW q \in Int, NEW d \in Int, NEW e \in Int, d > 0, q >= 0, 0 <= e, e < d
  PROVE  (q * d + e) \div d = q /\ (q * d + e) % d = e
<1> DEFINE a == q * d + e
<1>1. a \in Int /\ a >= 0 /\ q * d \in Int /\ a = q * d + e
  OBVIOUS
<1> HIDE DEF a
<1> DEFINE p == a \div d
<1> DEFINE f == a % d
<1>2. p \in Int /\ f \in 0 .. (d - 1) /\ a = p * d + f
  BY <1>1, Quotients
<1> HIDE DEF p, f
<1>3. p * d \in Int
  BY <1>2
<1>4. ~ (p < q)
  <2>1. SUFFICES ASSUME p < q PROVE FALSE
    OBVIOUS
  <2>2. p * d + d <= q * d
    BY <1>2, <2>1, TimesGrows
  <2>3. QED
    BY <1>1, <1>2, <1>3, <2>2
<1>5. ~ (q < p)
  <2>1. SUFFICES ASSUME q < p PROVE FALSE
    OBVIOUS
  <2>2. q * d + d <= p * d
    BY <1>2, <2>1, TimesGrows
  <2>3. QED
    BY <1>1, <1>2, <1>3, <2>2
<1>6. p = q
  BY <1>2, <1>4, <1>5
<1>7. f = e
  BY <1>1, <1>2, <1>3, <1>6
<1>8. QED
  BY <1>6, <1>7 DEF a, p, f

(* Whole blocks, and a rest that begins one more.                           *)
LEMMA BlocksOf ==
  ASSUME NEW m \in Nat
  PROVE  /\ m * TextSz \in Nat
         /\ (m * TextSz + TextSz - 1) \div TextSz = m
         /\ (m * TextSz) % TextSz = 0
         /\ \A e \in 1 .. TextSz : (m * TextSz + e + TextSz - 1) \div TextSz = m + 1
<1>1. TextSz \in Int /\ TextSz > 0 /\ m \in Int /\ m >= 0 /\ TextSz - 1 \in Int
  BY TextSzAssumption
<1>2. m * TextSz \in Int /\ m * TextSz >= 0
  BY <1>1
<1>3. (m * TextSz + (TextSz - 1)) \div TextSz = m
  BY <1>1, QuotientIs
<1>4. (m * TextSz + 0) % TextSz = 0
  BY <1>1, QuotientIs
<1>5. ASSUME NEW e \in 1 .. TextSz
      PROVE  (m * TextSz + e + TextSz - 1) \div TextSz = m + 1
  <2>1. m + 1 \in Int /\ m + 1 >= 0 /\ e - 1 \in Int /\ 0 <= e - 1 /\ e - 1 < TextSz
    BY <1>1
  <2>2. ((m + 1) * TextSz + (e - 1)) \div TextSz = m + 1
    BY <1>1, <2>1, QuotientIs
  <2>3. (m + 1) * TextSz = m * TextSz + TextSz
    BY <1>1
  <2>4. (m + 1) * TextSz + (e - 1) = m * TextSz + e + TextSz - 1
    BY <1>1, <1>2, <2>1, <2>3
  <2>5. QED
    BY <2>2, <2>4
<1>6. m * TextSz + (TextSz - 1) = m * TextSz + TextSz - 1 /\ m * TextSz + 0 = m * TextSz
  BY <1>1, <1>2
<1>7. QED
  BY <1>2, <1>3, <1>4, <1>5, <1>6

LEMMA InBlock ==
  ASSUME NEW b \in Nat, NEW e \in 1 .. TextSz
  PROVE  (b * TextSz + e - 1) \div TextSz = b
<1>1. /\ TextSz \in Int /\ TextSz > 0 /\ b \in Int /\ b >= 0
      /\ e - 1 \in Int /\ 0 <= e - 1 /\ e - 1 < TextSz
  BY TextSzAssumption
<1>2. (b * TextSz + (e - 1)) \div TextSz = b
  BY <1>1, QuotientIs
<1>3. b * TextSz \in Int
  BY <1>1
<1>4. b * TextSz + (e - 1) = b * TextSz + e - 1
  BY <1>1, <1>3
<1>5. QED
  BY <1>2, <1>4

(* A whole number of blocks, or one begun.                                  *)
LEMMA BlocksAre ==
  ASSUME QueueTypeOK, NEW r \in Runs, SenderKept(r)
  PROVE  /\ BlocksSent(r) \in Nat /\ BlocksSent(r) * TextSz \in Nat
         /\ sent[r] % TextSz = 0 => sent[r] = BlocksSent(r) * TextSz
         /\ sent[r] % TextSz # 0 =>
              /\ sent[r] = Len(src[r]) /\ BlocksSent(r) > 0
              /\ (BlocksSent(r) - 1) * TextSz \in Nat
              /\ (BlocksSent(r) - 1) * TextSz < sent[r]
              /\ sent[r] < BlocksSent(r) * TextSz
         /\ sent[r] = 0 <=> BlocksSent(r) = 0
<1> DEFINE m == sent[r] \div TextSz
<1> DEFINE e == sent[r] % TextSz
<1>0. TextSz \in Int /\ TextSz > 0 /\ sent[r] \in Int /\ sent[r] >= 0
  BY TextSzAssumption, BlockFacts
<1>1. m \in Nat /\ e \in 0 .. (TextSz - 1) /\ sent[r] = m * TextSz + e
  BY <1>0, Quotients
<1> HIDE DEF m, e
<1>2. m * TextSz \in Nat /\ (m + 1) * TextSz = m * TextSz + TextSz /\ (m + 1 - 1) = m
  BY <1>0, <1>1
<1>3. CASE e = 0
  <2>1. sent[r] = m * TextSz
    BY <1>1, <1>2, <1>3
  <2>2. BlocksSent(r) = m
    BY <1>1, <2>1, BlocksOf DEF BlocksSent
  <2>3. sent[r] = 0 <=> m = 0
    BY <1>0, <1>1, <2>1
  <2>4. QED
    BY <1>1, <1>2, <1>3, <2>1, <2>2, <2>3 DEF e
<1>4. CASE e # 0
  <2>1. e \in 1 .. TextSz
    BY <1>0, <1>1, <1>4
  <2>2. BlocksSent(r) = m + 1
    BY <1>1, <2>1, BlocksOf DEF BlocksSent
  <2>3. sent[r] = Len(src[r])
    BY <1>4 DEF SenderKept, e
  <2>4. m * TextSz < sent[r] /\ sent[r] < (m + 1) * TextSz /\ (m + 1) * TextSz \in Nat
    BY <1>0, <1>1, <1>2, <2>1
  <2>5. QED
    BY <1>1, <1>2, <1>4, <2>2, <2>3, <2>4 DEF e
<1>5. QED
  BY <1>3, <1>4

LEMMA QueueStays ==
  ASSUME QueueTypeOK, NEW r \in Runs, SndOpen(r) \/ SndBlock(r) \/ SndLast(r)
  PROVE  queue'.id = queue.id
<1>1. LastMessage \in Message
  BY EmptySeq, TextSzAssumption DEF LastMessage, Message
<1>2. CASE SndBlock(r)
  BY <1>2, BlockMessage, Sends
<1>3. CASE SndLast(r)
  BY <1>1, <1>3, Sends DEF SndLast
<1>4. QED
  BY <1>2, <1>3 DEF SndOpen

(***************************************************************************)
(* Runs in turn.                                                           *)
(***************************************************************************)
LEMMA OneActive ==
  ASSUME QueueTypeOK, RunsInTurn, NEW r \in Runs, Active(r)
  PROVE  \A s \in Runs : s # r => rpc[s] \in Ended \union {"idle"} /\ ~ Active(s)
<1>1. rpc[r] \notin Ended \union {"idle"}
  BY DEF Active, Ended
<1>2. ASSUME NEW s \in Runs, s # r
      PROVE  rpc[s] \in Ended \union {"idle"}
  <2>1. CASE s < r
    <3>1. s \in 1 .. (r - 1)
      BY <2>1, MaxRunsAssumption DEF Runs
    <3>2. QED
      BY <1>1, <3>1 DEF RunsInTurn
  <2>2. CASE r < s
    <3>1. r \in 1 .. (s - 1)
      BY <2>2, MaxRunsAssumption DEF Runs
    <3>2. QED
      BY <1>1, <3>1 DEF RunsInTurn
  <2>3. QED
    BY <1>2, <2>1, <2>2, MaxRunsAssumption DEF Runs
<1>3. QED
  BY <1>2 DEF Active, Ended

LEMMA NoneActive ==
  ASSUME QueueTypeOK, RunsInTurn, NEW r \in Runs, rpc[r] = "idle",
         r > 1 => rpc[r - 1] \in Ended
  PROVE  /\ \A s \in Runs : ~ Active(s)
         /\ \A s \in 1 .. (r - 1) : rpc[s] \in Ended
<1>1. \A s \in 1 .. (r - 1) : rpc[s] \in Ended
  <2>1. SUFFICES ASSUME NEW s \in 1 .. (r - 1) PROVE rpc[s] \in Ended
    OBVIOUS
  <2>2. r - 1 \in Runs /\ r > 1 /\ (s = r - 1 \/ s \in 1 .. (r - 1 - 1))
    BY MaxRunsAssumption DEF Runs
  <2>3. rpc[r - 1] \in Ended /\ rpc[r - 1] # "idle"
    BY <2>2 DEF Ended
  <2>4. QED
    BY <2>2, <2>3 DEF RunsInTurn
<1>2. ASSUME NEW s \in Runs, Active(s) PROVE FALSE
  <2>1. s # r /\ rpc[s] \notin Ended
    BY <1>2 DEF Active, Ended
  <2>2. s \notin 1 .. (r - 1)
    BY <1>1, <2>1
  <2>3. r \in 1 .. (s - 1)
    BY <2>1, <2>2, MaxRunsAssumption DEF Runs
  <2>4. rpc[r] \in Ended
    BY <1>2, <2>3 DEF RunsInTurn, Active
  <2>5. QED
    BY <2>4 DEF Ended
<1>3. QED
  BY <1>1, <1>2

LEMMA StartTurn ==
  ASSUME QueueTypeOK, RunsInTurn, NEW r \in Runs, Start(r)
  PROVE  RunsInTurn'
<1>1. /\ r > 1 => rpc[r - 1] \in Ended
      /\ rpc[r] = "idle" /\ rpc' = [rpc EXCEPT ![r] = "open"]
      /\ spc' = [spc EXCEPT ![r] = "open"]
      /\ queue' = IF queue.id = 0 THEN [id |-> r, msgs |-> << >>] ELSE queue
      /\ msgid' = [msgid EXCEPT ![r] = queue'.id]
      /\ found' = [found EXCEPT ![r] = [msgs |-> queue'.msgs,
                                        alone |-> SendingTo(queue'.id) = {}]]
      /\ dst' = dst
  BY DEF Start, getmsgid, ReceiverGoes
<1>2. /\ \A s \in Runs : ~ Active(s)
      /\ \A s \in 1 .. (r - 1) : rpc[s] \in Ended
  BY <1>1, NoneActive
<1>3. /\ rpc'[r] = "open" /\ spc'[r] = "open" /\ msgid'[r] = queue'.id
      /\ found'[r].alone = (SendingTo(queue'.id) = {})
      /\ \A s \in Runs : s # r => /\ rpc'[s] = rpc[s] /\ spc'[s] = spc[s]
                                  /\ msgid'[s] = msgid[s] /\ found'[s] = found[s]
  BY <1>1 DEF QueueTypeOK
<1>4. ASSUME NEW s \in Runs, rpc'[s] # "idle", NEW t \in 1 .. (s - 1)
      PROVE  rpc'[t] \in Ended
  <2>1. t \in Runs /\ (t = r => s # r)
    BY MaxRunsAssumption DEF Runs
  <2>2. rpc[t] \in Ended
    BY <1>2, <1>3, <1>4 DEF RunsInTurn
  <2>3. t # r
    BY <1>1, <2>2 DEF Ended
  <2>4. QED
    BY <1>3, <2>1, <2>2, <2>3
<1>5. ASSUME NEW s \in Runs
      PROVE  (rpc'[s] = "idle" <=> spc'[s] = "idle") /\ (rpc'[s] = "idle" => dst'[s] = << >>)
  BY <1>1, <1>3 DEF RunsInTurn
<1>6. ASSUME NEW s \in Runs, Active(s)'
      PROVE  s = r
  BY <1>2, <1>3, <1>6 DEF Active
<1>7. queue'.id = msgid'[r] /\ msgid'[r] # 0
  <2>1. r # 0
    BY MaxRunsAssumption DEF Runs
  <2>2. QED
    BY <1>1, <1>3, <2>1
<1>8. ASSUME found'[r].alone PROVE SendingTo(queue.id)' \subseteq {r}
  <2>1. SendingTo(queue'.id) = {}
    BY <1>3, <1>8
  <2>2. ASSUME NEW t \in SendingTo(queue.id)', t # r PROVE FALSE
    <3>1. t \in Runs /\ msgid'[t] = queue'.id /\ spc'[t] \in {"open", "send", "last"}
      BY DEF SendingTo
    <3>2. t \in SendingTo(queue'.id)
      BY <1>3, <2>2, <3>1 DEF SendingTo
    <3>3. QED
      BY <2>1, <3>2
  <2>3. QED
    BY <2>2
<1>9. QED
  BY <1>4, <1>5, <1>6, <1>7, <1>8 DEF RunsInTurn

(* Every other step keeps the order, for nobody comes to life in it and     *)
(* nobody but the receiver at work removes the queue.                       *)
LEMMA NoStartTurn ==
  ASSUME QueueTypeOK, RunsInTurn, UNCHANGED <<msgid, found>>,
         \A s \in Runs : /\ rpc[s] \in Ended => rpc'[s] \in Ended
                         /\ rpc'[s] = "idle" <=> rpc[s] = "idle"
                         /\ spc'[s] = "idle" <=> spc[s] = "idle"
                         /\ Active(s)' => Active(s) /\ queue'.id = queue.id
                         /\ rpc'[s] = "idle" => dst'[s] = dst[s]
                         /\ spc'[s] \in {"open", "send", "last"} =>
                              spc[s] \in {"open", "send", "last"}
  PROVE  RunsInTurn'
<1>1. ASSUME NEW s \in Runs, rpc'[s] # "idle", NEW t \in 1 .. (s - 1)
      PROVE  rpc'[t] \in Ended
  <2>1. t \in Runs
    BY MaxRunsAssumption DEF Runs
  <2>2. rpc[t] \in Ended
    BY <1>1 DEF RunsInTurn
  <2>3. QED
    BY <2>1, <2>2
<1>2. ASSUME NEW s \in Runs, Active(s)'
      PROVE  /\ queue'.id = msgid'[s] /\ msgid'[s] # 0
             /\ found'[s].alone => SendingTo(queue.id)' \subseteq {s}
  <2>1. Active(s) /\ queue'.id = queue.id
    BY <1>2
  <2>2. SendingTo(queue.id)' \subseteq SendingTo(queue.id)
    BY <2>1 DEF SendingTo
  <2>3. QED
    BY <2>1, <2>2 DEF RunsInTurn
<1>3. \A s \in Runs : /\ rpc'[s] = "idle" <=> spc'[s] = "idle"
                      /\ rpc'[s] = "idle" => dst'[s] = << >>
  BY DEF RunsInTurn
<1>4. QED
  BY <1>1, <1>2, <1>3 DEF RunsInTurn

LEMMA TurnKept == QueueTypeOK /\ RunsInTurn /\ [QueueNext]_queueVars => RunsInTurn'
<1> SUFFICES ASSUME QueueTypeOK, RunsInTurn, [QueueNext]_queueVars PROVE RunsInTurn'
  OBVIOUS
<1>1. ASSUME NEW r \in Runs, Start(r) PROVE RunsInTurn'
  BY <1>1, StartTurn
<1>2. ASSUME NEW r \in Runs, Interrupt(r) PROVE RunsInTurn'
  <2>1. /\ rpc[r] \in {"open", "receive"} /\ rpc' = [rpc EXCEPT ![r] = "killed"]
        /\ spc' = [spc EXCEPT ![r] = IF @ \in Ended THEN @ ELSE "killed"]
        /\ UNCHANGED <<queue, dst, msgid, found>>
    BY <1>2 DEF Interrupt
  <2>2. spc[r] # "idle"
    BY <2>1 DEF RunsInTurn
  <2>3. QED
    BY <2>1, <2>2, NoStartTurn DEF QueueTypeOK, Active, Ended
<1>3. ASSUME NEW r \in Runs, Sender(r) PROVE RunsInTurn'
  <2>1. queue'.id = queue.id
    BY <1>3, QueueStays DEF Sender
  <2>2. /\ UNCHANGED <<dst, msgid, rpc, found>>
        /\ \E to \in {"send", "failed", "last", "done"} : spc' = [spc EXCEPT ![r] = to]
        /\ spc[r] \in {"open", "send", "last"}
    BY <1>3 DEF Sender, SndOpen, SndBlock, SndLast, SenderGoes, AfterBlock
  <2>3. QED
    BY <2>1, <2>2, NoStartTurn DEF QueueTypeOK, Active
<1>4. ASSUME NEW r \in Runs, Receiver(r) PROVE RunsInTurn'
  <2>1. CASE RcvOpen(r) \/ RcvBlock(r)
    <3>1. queue'.id = queue.id
      BY <2>1 DEF RcvOpen, RcvBlock, QueueTypeOK
    <3>2. /\ UNCHANGED <<msgid, spc, found>>
          /\ rpc[r] \in {"open", "receive"}
          /\ \E to \in {"receive", "failed"} : rpc' = [rpc EXCEPT ![r] = to]
          /\ \A s \in Runs : s # r => dst'[s] = dst[s]
      BY <2>1 DEF RcvOpen, RcvBlock, ReceiverGoes, QueueTypeOK
    <3>3. QED
      BY <3>1, <3>2, NoStartTurn DEF QueueTypeOK, Active, Ended
  <2>2. CASE RcvLast(r)
    <3>1. /\ rpc[r] = "receive" /\ rpc' = [rpc EXCEPT ![r] = "done"]
          /\ UNCHANGED <<dst, msgid, spc, found>>
      BY <2>2 DEF RcvLast, ReceiverGoes
    <3>2. \A s \in Runs : s # r => ~ Active(s)
      BY <3>1, OneActive DEF Active
    <3>3. QED
      BY <3>1, <3>2, NoStartTurn DEF QueueTypeOK, Active, Ended
  <2>3. QED
    BY <1>4, <2>1, <2>2 DEF Receiver
<1>5. ASSUME UNCHANGED queueVars PROVE RunsInTurn'
  BY <1>5, NoStartTurn DEF queueVars, Active
<1>6. QED
  BY <1>1, <1>2, <1>3, <1>4, <1>5 DEF QueueNext

(***************************************************************************)
(* How far a sender has come.                                              *)
(***************************************************************************)
LEMMA BlockSent ==
  ASSUME QueueTypeOK, NEW r \in Runs, SenderKept(r), SndBlock(r)
  PROVE  /\ SenderKept(r)'
         /\ BlocksSent(r)' = BlocksSent(r) + 1
         /\ sent[r] = BlocksSent(r) * TextSz
         /\ Left(r) \in 1 .. TextSz
         /\ sent'[r] = sent[r] + Left(r)
<1>1. /\ read_sz(r) # 0 /\ spc[r] = "send" /\ spc' = [spc EXCEPT ![r] = AfterBlock(r)]
      /\ sent' = [sent EXCEPT ![r] = @ + Left(r)]
      /\ UNCHANGED <<behind, src>>
  BY DEF SndBlock, SenderGoes
<1>2. read_sz(r) = Left(r) /\ Left(r) \in 1 .. TextSz
  BY <1>1, BlockFacts, TextSzAssumption
<1>3. sent[r] % TextSz = 0
  BY <1>1 DEF SenderKept
<1>4. PICK m \in Nat : m = BlocksSent(r)
  BY BlocksAre
<1>5. sent[r] = m * TextSz
  BY <1>3, <1>4, BlocksAre
<1>6. sent'[r] = m * TextSz + Left(r)
  BY <1>1, <1>5 DEF QueueTypeOK
<1>7. BlocksSent(r)' = m + 1
  <2>1. BlocksSent(r)' = (m * TextSz + Left(r) + TextSz - 1) \div TextSz
    BY <1>6 DEF BlocksSent
  <2>2. QED
    BY <1>2, <2>1, BlocksOf
<1>8. SenderKept(r)'
  <2>1. m * TextSz \in Nat /\ TextSz \in Nat /\ TextSz > 0
    BY TextSzAssumption, BlocksOf
  <2>2. sent'[r] # 0
    BY <1>2, <1>6, <2>1
  <2>3. CASE Left(r) = TextSz
    <3>1. sent'[r] = (m + 1) * TextSz
      BY <1>6, <2>1, <2>3
    <3>2. m + 1 \in Nat
      OBVIOUS
    <3>3. sent'[r] % TextSz = 0
      BY <3>1, <3>2, BlocksOf
    <3>4. spc'[r] = "send"
      BY <1>1, <1>2, <2>3 DEF QueueTypeOK, AfterBlock
    <3>5. QED
      BY <2>2, <3>3, <3>4 DEF SenderKept
  <2>4. CASE Left(r) # TextSz
    <3>1. sent'[r] = Len(src[r])
      BY <1>5, <1>6, <2>4, BlockFacts
    <3>2. spc'[r] = "last"
      BY <1>1, <1>2, <2>4 DEF QueueTypeOK, AfterBlock
    <3>3. QED
      BY <1>1, <2>2, <3>1, <3>2 DEF SenderKept
  <2>5. QED
    BY <2>3, <2>4
<1>9. QED
  BY <1>2, <1>4, <1>5, <1>6, <1>7, <1>8

(* A sender that reads 0 is at the end of its file, or cuts it.             *)
LEMMA NothingRead ==
  ASSUME QueueTypeOK, NEW r \in Runs, SenderKept(r), spc[r] = "send", read_sz(r) = 0
  PROVE  sent[r] = Len(src[r]) \/ CutAt(r, sent[r])
<1>1. sent[r] % TextSz = 0
  BY DEF SenderKept
<1>2. CASE Left(r) = 0
  <2>1. Left(r) # TextSz /\ sent[r] + Left(r) = sent[r]
    BY <1>2, TextSzAssumption, BlockFacts
  <2>2. QED
    BY <2>1, BlockFacts
<1>3. CASE Left(r) # 0
  <2>1. behind /\ Unterminated(ReadInto(r))
    BY <1>3 DEF read_sz
  <2>2. \A n \in 1 .. TextSz : ReadInto(r)[n] # NUL
    BY <2>1 DEF Unterminated
  <2>3. Len(src[r]) >= TextSz
    <3>1. CASE sent[r] = 0
      <4>1. SUFFICES ASSUME Left(r) # TextSz PROVE FALSE
        BY BlockFacts, <3>1, TextSzAssumption
      <4>2. TextSz \in 1 .. TextSz /\ ~ (TextSz <= Left(r))
        BY <4>1, BlockFacts, TextSzAssumption
      <4>3. buf[r][TextSz] = NUL
        BY <3>1, <4>2 DEF SenderKept
      <4>4. ReadInto(r)[TextSz] = NUL
        BY <4>2, <4>3 DEF ReadInto
      <4>5. QED
        BY <2>2, <4>2, <4>4
    <3>2. CASE sent[r] # 0
      <4>1. PICK m \in Nat : m = BlocksSent(r)
        BY BlocksAre
      <4>2. sent[r] = m * TextSz /\ m # 0
        BY <1>1, <3>2, <4>1, BlocksAre
      <4>3. 0 * TextSz + TextSz <= m * TextSz
        BY <4>2, TextSzAssumption, TimesGrows
      <4>4. QED
        BY <4>2, <4>3, TextSzAssumption, BlockFacts
    <3>3. QED
      BY <3>1, <3>2
  <2>4. ASSUME NEW n \in (sent[r] + 1) .. Smaller(sent[r] + TextSz, Len(src[r]))
        PROVE  src[r][n] # NUL
    <3>1. /\ n - sent[r] \in 1 .. TextSz /\ n - sent[r] \in 1 .. Left(r)
          /\ sent[r] + (n - sent[r]) = n
      <4>1. PICK x \in Nat, len \in Nat : x = sent[r] /\ len = Len(src[r])
        BY BlockFacts
      <4>2. /\ Smaller(sent[r] + TextSz, Len(src[r])) = Smaller(x + TextSz, len)
            /\ Left(r) = Smaller(TextSz, len - x)
        BY <4>1 DEF Left
      <4>3. n \in (x + 1) .. Smaller(x + TextSz, len)
        BY <4>1, <4>2, Zenon
      <4>4. n - x \in 1 .. TextSz /\ n - x \in 1 .. Smaller(TextSz, len - x) /\ x + (n - x) = n
        BY <4>3, TextSzAssumption DEF Smaller
      <4>5. QED
        BY <4>1, <4>2, <4>4, Zenon
    <3>2. ReadInto(r)[n - sent[r]] = src[r][sent[r] + (n - sent[r])]
      BY <3>1, BlockFacts
    <3>3. QED
      BY <2>2, <3>1, <3>2
  <2>5. QED
    BY <1>1, <2>1, <2>3, <2>4 DEF CutAt
<1>4. QED
  BY <1>2, <1>3

(* A step that changes nothing of a sender but its place.                   *)
LEMMA SenderElsewhere ==
  ASSUME QueueTypeOK, NEW r \in Runs, SenderKept(r),
         UNCHANGED <<behind, src>>, sent'[r] = sent[r], buf'[r] = buf[r],
         \/ spc'[r] \in {spc[r], "killed"}
         \/ spc[r] \in {"idle", "open"} /\ spc'[r] \in {"open", "failed", "send"}
  PROVE  SenderKept(r)'
<1>1. (CutAt(r, sent[r]) <=> CutAt(r, sent[r])')
  BY DEF CutAt
<1>2. 0 % TextSz = 0
  <2>1. 0 * TextSz = 0
    BY TextSzAssumption
  <2>2. QED
    BY <2>1, BlocksOf
<1>3. QED
  BY <1>1, <1>2 DEF SenderKept

LEMMA SendersKept ==
  QueueTypeOK /\ RunsInTurn /\ (\A s \in Runs : SenderKept(s)) /\ [QueueNext]_queueVars
    => \A s \in Runs : SenderKept(s)'
<1> SUFFICES ASSUME QueueTypeOK, RunsInTurn, \A s \in Runs : SenderKept(s), [QueueNext]_queueVars,
                    NEW s \in Runs
             PROVE  SenderKept(s)'
  OBVIOUS
<1>0. SenderKept(s)
  OBVIOUS
<1>1. ASSUME NEW r \in Runs, Start(r) PROVE SenderKept(s)'
  <2>1. /\ UNCHANGED <<behind, src, sent, buf>>
        /\ spc' = [spc EXCEPT ![r] = "open"]
    BY <1>1 DEF Start
  <2>2. QED
    <3>1. spc'[s] = spc[s] \/ (spc[s] = "idle" /\ spc'[s] = "open")
      BY <1>1, <2>1 DEF RunsInTurn, Start, ReceiverGoes, QueueTypeOK
    <3>2. QED
      BY <1>0, <2>1, <3>1, SenderElsewhere
<1>2. ASSUME NEW r \in Runs, Interrupt(r) PROVE SenderKept(s)'
  BY <1>0, <1>2, SenderElsewhere DEF Interrupt, QueueTypeOK
<1>3. ASSUME NEW r \in Runs, Sender(r) PROVE SenderKept(s)'
  <2>1. CASE s # r
    <3>1. /\ UNCHANGED <<behind, src>> /\ sent'[s] = sent[s] /\ buf'[s] = buf[s]
          /\ spc'[s] = spc[s]
      BY <1>3, <2>1 DEF Sender, SndOpen, SndBlock, SndLast, SenderGoes, QueueTypeOK
    <3>2. QED
      BY <1>0, <3>1, SenderElsewhere
  <2>2. CASE s = r /\ SndOpen(r)
    <3>1. /\ UNCHANGED <<behind, src>> /\ sent'[s] = sent[s] /\ buf'[s] = buf[s]
          /\ spc[s] = "open" /\ spc'[s] \in {"send", "failed"}
      BY <2>2 DEF SndOpen, SenderGoes, QueueTypeOK
    <3>2. QED
      BY <1>0, <3>1, SenderElsewhere
  <2>3. CASE s = r /\ SndBlock(r)
    BY <1>0, <2>3, BlockSent
  <2>4. CASE s = r /\ SndLast(r)
    <3>1. /\ UNCHANGED <<behind, src, sent, buf>> /\ spc'[r] = "done"
          /\ spc[r] = "last" \/ (spc[r] = "send" /\ read_sz(r) = 0)
      BY <2>4 DEF SndLast, QueueTypeOK
    <3>2. sent[r] = Len(src[r]) \/ CutAt(r, sent[r])
      BY <1>0, <2>4, <3>1, NothingRead DEF SenderKept
    <3>3. (CutAt(r, sent[r]) <=> CutAt(r, sent[r])')
      BY <3>1 DEF CutAt
    <3>4. QED
      BY <1>0, <2>4, <3>1, <3>2, <3>3 DEF SenderKept
  <2>5. QED
    BY <1>3, <2>1, <2>2, <2>3, <2>4 DEF Sender
<1>4. ASSUME NEW r \in Runs, Receiver(r) PROVE SenderKept(s)'
  BY <1>0, <1>4, SenderElsewhere DEF Receiver, RcvOpen, RcvBlock, RcvLast
<1>5. ASSUME UNCHANGED queueVars PROVE SenderKept(s)'
  BY <1>0, <1>5, SenderElsewhere DEF queueVars
<1>6. QED
  BY <1>1, <1>2, <1>3, <1>4, <1>5 DEF QueueNext

(***************************************************************************)
(* What a run has found, and its own part of the copy.                     *)
(***************************************************************************)
LEMMA Found ==
  ASSUME QueueTypeOK, NEW r \in Runs
  PROVE  /\ found[r].msgs \in Seq(Message) /\ Len(found[r].msgs) \in Nat
         /\ dst[r] \in Seq(Byte) /\ Len(dst[r]) \in Nat
         /\ queue.msgs \in Seq(Message) /\ Len(queue.msgs) \in Nat
  BY LenProperties DEF QueueTypeOK

LEMMA ReceivedIs ==
  ASSUME QueueTypeOK, NEW r \in Runs, SenderKept(r)
  PROVE  /\ Received(r) \in Int /\ BlocksSent(r) \in Nat
         /\ LastSent(r) = IF spc[r] = "done" THEN 1 ELSE 0
         /\ Received(r) + Len(queue.msgs) =
              Len(found[r].msgs) + BlocksSent(r) + LastSent(r)
<1>1. Len(found[r].msgs) \in Nat /\ Len(queue.msgs) \in Nat /\ BlocksSent(r) \in Nat
  BY Found, BlocksAre
<1>2. LastSent(r) = IF spc[r] = "done" THEN 1 ELSE 0
  BY DEF LastSent
<1>3. LastSent(r) \in {0, 1}
  BY <1>2
<1>4. PICK b \in Int, l \in Int, f \in Int, q \in Int :
        /\ b = BlocksSent(r) /\ l = LastSent(r)
        /\ f = Len(found[r].msgs) /\ q = Len(queue.msgs)
  BY <1>1, <1>3
<1>5. Received(r) = f + b + l - q
  BY <1>4 DEF Received
<1>6. Received(r) \in Int /\ Received(r) + q = f + b + l
  BY <1>5
<1>7. QED
  BY <1>1, <1>2, <1>4, <1>6

Usable(r) == IF Lasts(r) = {} THEN Len(found[r].msgs) ELSE Min(Lasts(r)) - 1

LEMMA UsableIs ==
  ASSUME QueueTypeOK, NEW r \in Runs
  PROVE  /\ Usable(r) \in 0 .. Len(found[r].msgs)
         /\ Before(r) = Joined(found[r].msgs, Usable(r))
         /\ Before(r) \in Seq(Byte) /\ Len(Before(r)) \in Nat
         /\ \A k \in 0 .. Len(found[r].msgs) :
              (\A n \in Lasts(r) : k < n) => k <= Usable(r)
         /\ \A k \in Lasts(r) : (\A n \in Lasts(r) : k <= n) => Usable(r) = k - 1
<1>0. Len(found[r].msgs) \in Nat /\ found[r].msgs \in Seq(Message)
  BY Found
<1>1. Lasts(r) \subseteq 1 .. Len(found[r].msgs) /\ Lasts(r) \in SUBSET Nat
  BY <1>0 DEF Lasts
<1>2. CASE Lasts(r) = {}
  <2>1. Usable(r) = Len(found[r].msgs)
    BY <1>2 DEF Usable
  <2>2. Before(r) = Joined(found[r].msgs, Usable(r))
    BY DEF Before, Usable
  <2>3. Usable(r) \in 0 .. Len(found[r].msgs)
    BY <1>0, <2>1
  <2>4. Before(r) \in Seq(Byte)
    BY <1>0, <2>2, <2>3, JoinedType
  <2>5. QED
    BY <1>2, <2>1, <2>2, <2>3, <2>4, LenProperties
<1>3. CASE Lasts(r) # {}
  <2>1. \E m \in Lasts(r) : \A n \in Lasts(r) : ~ (n < m)
    BY <1>1, <1>3, LeastNumber
  <2>2. \E m \in Lasts(r) : \A n \in Lasts(r) : m <= n
    BY <1>1, <2>1
  <2>3. Min(Lasts(r)) \in Lasts(r) /\ \A n \in Lasts(r) : Min(Lasts(r)) <= n
    BY <2>2 DEF Min
  <2>4. PICK m : m = Min(Lasts(r))
    OBVIOUS
  <2>5. m \in 1 .. Len(found[r].msgs) /\ Usable(r) = m - 1
    BY <1>1, <1>3, <2>3, <2>4 DEF Usable
  <2>6. Before(r) = Joined(found[r].msgs, Usable(r))
    BY DEF Before, Usable
  <2>7. Usable(r) \in 0 .. Len(found[r].msgs)
    BY <1>0, <2>5
  <2>8. Before(r) \in Seq(Byte)
    BY <1>0, <2>6, <2>7, JoinedType
  <2>9. \A k \in 0 .. Len(found[r].msgs) : (\A n \in Lasts(r) : k < n) => k <= Usable(r)
    BY <2>3, <2>4, <2>5
  <2>10. ASSUME NEW k \in Lasts(r), \A n \in Lasts(r) : k <= n
         PROVE  Usable(r) = k - 1
    <3>1. k <= m /\ m <= k /\ k \in Nat
      BY <1>1, <2>3, <2>4, <2>10
    <3>2. QED
      BY <2>5, <3>1
  <2>11. QED
    BY <2>6, <2>7, <2>8, <2>9, <2>10, LenProperties
<1>4. QED
  BY <1>2, <1>3

LEMMA RestIs ==
  ASSUME NEW s \in Seq(Byte), NEW t \in Seq(Byte), NEW rest,
         rest = SubSeq(t, Len(s) + 1, Len(t))
  PROVE  /\ Len(rest) = IF Len(s) <= Len(t) THEN Len(t) - Len(s) ELSE 0
         /\ \A n \in 1 .. Len(rest) : rest[n] = t[Len(s) + n]
         /\ Len(rest) = 0 => rest = << >>
<1>0. PICK b \in Nat : b = Len(s)
  BY LenProperties
<1>1. Len(t) \in Nat
  BY LenProperties
<1>2. \A n \in (b + 1) .. Len(t) : t[n] \in Byte
  <2>1. \A n \in (b + 1) .. Len(t) : n \in 1 .. Len(t)
    BY <1>1
  <2>2. QED
    BY <2>1, ElementOfSeq
<1>3. rest = SubSeq(t, b + 1, Len(t))
  BY <1>0
<1>4. b + 1 \in Int /\ Len(t) \in Int
  BY <1>1
<1>5. /\ rest \in Seq(Byte)
      /\ Len(rest) = IF b + 1 <= Len(t) THEN Len(t) - (b + 1) + 1 ELSE 0
      /\ \A n \in 1 .. Len(t) - (b + 1) + 1 : rest[n] = t[(b + 1) + n - 1]
  BY <1>2, <1>3, <1>4, SubSeqProperties
<1>6. Len(rest) = IF b <= Len(t) THEN Len(t) - b ELSE 0
  BY <1>1, <1>5
<1>7. \A n \in 1 .. Len(rest) : rest[n] = t[b + n]
  <2>1. \A n \in 1 .. Len(rest) :
          n \in 1 .. Len(t) - (b + 1) + 1 /\ (b + 1) + n - 1 = b + n
    BY <1>1, <1>5
  <2>2. QED
    BY <1>5, <2>1
<1>8. Len(rest) = 0 => rest = << >>
  BY <1>5, EmptySeq
<1>9. QED
  BY <1>0, <1>6, <1>7, <1>8

(* What is written behind a prefix of a copy is behind the rest of it.      *)
LEMMA RestGrows ==
  ASSUME NEW s \in Seq(Byte), NEW t \in Seq(Byte), NEW text \in Seq(Byte),
         IsPrefix(s, t)
  PROVE  LET rest == SubSeq(t, Len(s) + 1, Len(t))
             more == SubSeq(t \o text, Len(s) + 1, Len(t \o text))
         IN  /\ Len(rest) \in Nat /\ Len(text) \in Nat
             /\ Len(more) = Len(rest) + Len(text)
             /\ \A n \in 1 .. Len(rest) : more[n] = rest[n]
             /\ \A n \in 1 .. Len(text) : more[Len(rest) + n] = text[n]
<1>0. PICK rest, more : /\ rest = SubSeq(t, Len(s) + 1, Len(t))
                        /\ more = SubSeq(t \o text, Len(s) + 1, Len(t \o text))
  OBVIOUS
<1>1. PICK b \in Nat, d \in Nat, x \in Nat : b = Len(s) /\ d = Len(t) /\ x = Len(text)
  BY LenProperties
<1>2. b <= d
  BY <1>1, PrefixAt
<1>3. /\ t \o text \in Seq(Byte) /\ Len(t \o text) = d + x
      /\ \A n \in 1 .. d + x : (t \o text)[n] = IF n <= d THEN t[n] ELSE text[n - d]
  BY <1>1, ConcatProperties
<1>4. Len(rest) = d - b /\ \A n \in 1 .. d - b : rest[n] = t[b + n]
  BY <1>0, <1>1, <1>2, RestIs
<1>5. /\ Len(more) = d + x - b
      /\ \A n \in 1 .. d + x - b : more[n] = (t \o text)[b + n]
  <2>1. b <= d + x
    BY <1>2
  <2>2. QED
    BY <1>0, <1>1, <1>3, <2>1, RestIs
<1>6. ASSUME NEW n \in 1 .. d - b
      PROVE  more[n] = rest[n]
  <2>1. n \in 1 .. d + x - b /\ b + n \in 1 .. d + x /\ b + n <= d
    BY <1>2
  <2>2. QED
    BY <1>3, <1>4, <1>5, <2>1
<1>7. ASSUME NEW n \in 1 .. x
      PROVE  more[(d - b) + n] = text[n]
  <2>1. PICK k \in Int : k = (d - b) + n
    OBVIOUS
  <2>2. /\ k \in 1 .. d + x - b /\ b + k \in 1 .. d + x /\ ~ (b + k <= d)
        /\ b + k - d = n
    BY <1>2, <2>1
  <2>3. more[k] = (t \o text)[b + k]
    BY <1>5, <2>2
  <2>4. (t \o text)[b + k] = text[b + k - d]
    BY <1>3, <2>2
  <2>5. QED
    BY <2>1, <2>2, <2>3, <2>4
<1>8. PICK y \in Nat : y = d - b
  BY <1>2
<1>9. /\ Len(rest) = y /\ Len(more) = y + x
      /\ \A n \in 1 .. y : more[n] = rest[n]
      /\ \A n \in 1 .. x : more[y + n] = text[n]
  <2>1. d + x - b = y + x
    BY <1>8
  <2>2. QED
    BY <1>4, <1>5, <1>6, <1>7, <1>8, <2>1, Zenon
<1>10. QED
  BY <1>0, <1>1, <1>9

LEMMA OwnIs ==
  ASSUME QueueTypeOK, NEW r \in Runs
  PROVE  /\ Len(Own(r)) = IF Len(Before(r)) <= Len(dst[r])
                          THEN Len(dst[r]) - Len(Before(r)) ELSE 0
         /\ \A n \in 1 .. Len(Own(r)) : Own(r)[n] = dst[r][Len(Before(r)) + n]
         /\ Len(Own(r)) = 0 => Own(r) = << >>
<1>1. Before(r) \in Seq(Byte) /\ dst[r] \in Seq(Byte)
  BY Found, UsableIs
<1>2. QED
  BY <1>1, RestIs DEF Own

(* As long as a receiver has not gone beyond what it has found.             *)
LEMMA NothingOwn ==
  ASSUME QueueTypeOK, NEW r \in Runs, NEW k \in 0 .. Len(found[r].msgs),
         dst[r] = Joined(found[r].msgs, k), \A n \in Lasts(r) : k < n
  PROVE  /\ IsPrefix(dst[r], Before(r)) /\ Own(r) = << >> /\ Len(Own(r)) = 0
         /\ k = Usable(r) => dst[r] = Before(r)
<1>1. /\ k <= Usable(r) /\ Usable(r) \in 0 .. Len(found[r].msgs)
      /\ Before(r) = Joined(found[r].msgs, Usable(r))
      /\ Before(r) \in Seq(Byte) /\ Len(Before(r)) \in Nat
  BY UsableIs
<1>2. found[r].msgs \in Seq(Message) /\ Len(found[r].msgs) \in Nat
  BY Found
<1>3. k \in Nat /\ Usable(r) \in k .. Len(found[r].msgs)
  BY <1>1, <1>2
<1>4. IsPrefix(Joined(found[r].msgs, k), Joined(found[r].msgs, Usable(r)))
  BY <1>2, <1>3, JoinedPrefix
<1>5. Len(dst[r]) <= Len(Before(r)) /\ Len(dst[r]) \in Nat
  BY <1>1, <1>4, Found, PrefixAt
<1>6. Len(Own(r)) = 0
  BY <1>1, <1>5, OwnIs
<1>7. QED
  BY <1>1, <1>4, <1>6, OwnIs

(***************************************************************************)
(* The stream of a run that has the queue for itself.                      *)
(***************************************************************************)

(* Steps that leave it alone.                                               *)
LEMMA StreamElsewhere ==
  ASSUME NEW r \in Runs, InQueue(r), InCopy(r),
         UNCHANGED src, queue'.msgs = queue.msgs,
         found'[r] = found[r], dst'[r] = dst[r], sent'[r] = sent[r],
         spc'[r] = "done" <=> spc[r] = "done"
  PROVE  InQueue(r)' /\ InCopy(r)'
<1>1. BlocksSent(r)' = BlocksSent(r) /\ LastSent(r)' = LastSent(r)
  BY DEF BlocksSent, LastSent
<1>2. Received(r)' = Received(r)
  BY <1>1 DEF Received
<1>3. Lasts(r)' = Lasts(r)
  BY DEF Lasts
<1>4. Before(r)' = Before(r)
  BY <1>3 DEF Before
<1>5. Own(r)' = Own(r)
  BY <1>4 DEF Own
<1>6. InQueue(r)'
  BY <1>1, <1>2 DEF InQueue
<1>7. InCopy(r)'
  BY <1>1, <1>2, <1>3, <1>4, <1>5 DEF InCopy
<1>8. QED
  BY <1>6, <1>7

LEMMA StreamBegins ==
  ASSUME QueueTypeOK, RunsInTurn, NEW r \in Runs, SenderKept(r), Start(r)
  PROVE  InQueue(r)' /\ InCopy(r)'
<1>1. /\ rpc[r] = "idle" /\ spc'[r] = "open"
      /\ found'[r].msgs = queue'.msgs
      /\ dst'[r] = dst[r] /\ sent'[r] = sent[r]
  BY DEF Start, ReceiverGoes, QueueTypeOK
<1>2. dst'[r] = << >> /\ sent'[r] = 0
  BY <1>1 DEF RunsInTurn, SenderKept
<1>3. queue'.msgs \in Seq(Message) /\ Len(queue'.msgs) \in Nat
  BY StartTypes, LenProperties DEF QueueTypeOK
<1>4. BlocksSent(r)' = 0
  <2>1. (0 * TextSz + TextSz - 1) \div TextSz = 0
    BY BlocksOf
  <2>2. 0 * TextSz + TextSz - 1 = 0 + TextSz - 1
    BY TextSzAssumption
  <2>3. QED
    BY <1>2, <2>1, <2>2 DEF BlocksSent
<1>5. LastSent(r)' = 0
  BY <1>1 DEF LastSent
<1>6. Received(r)' = 0
  BY <1>1, <1>3, <1>4, <1>5 DEF Received
<1>7. InQueue(r)'
  <2>1. ASSUME NEW n \in 1 .. Len(queue'.msgs)
        PROVE  InStream(found'[r].msgs, src'[r], 0, 0 + n, queue'.msgs[n])
    <3>1. 0 + n = n /\ n - Len(queue'.msgs) <= 0
      BY <1>3
    <3>2. QED
      BY <1>1, <3>1 DEF InStream
  <2>2. QED
    BY <1>4, <1>6, <2>1 DEF InQueue
<1>8. InCopy(r)'
  <2>1. 0 - Len(queue'.msgs) <= 0 /\ ~ (0 - Len(queue'.msgs) > 0)
    BY <1>3
  <2>2. \A n \in Lasts(r)' : 0 < n
    BY <1>1, <1>3 DEF Lasts
  <2>3. QED
    BY <1>1, <1>2, <1>4, <1>6, <2>1, <2>2, JoinedNothing DEF InCopy
<1>9. QED
  BY <1>7, <1>8

(* A message more behind the others.                                        *)
LEMMA StreamGrows ==
  ASSUME QueueTypeOK, NEW r \in Runs, SenderKept(r), InQueue(r), InCopy(r),
         UNCHANGED <<src, dst, found>>, NEW msg \in Message,
         queue'.msgs = Append(queue.msgs, msg),
         LastSent(r) = 0, LastSent(r)' \in {0, 1},
         BlocksSent(r)' = IF LastSent(r)' = 0 THEN BlocksSent(r) + 1 ELSE BlocksSent(r),
         IF LastSent(r)' = 0 THEN IsBlock(src[r], BlocksSent(r) + 1, msg)
                             ELSE msg = LastMessage,
         sent'[r] = sent[r] \/ (sent[r] = BlocksSent(r) * TextSz /\ sent'[r] > sent[r]),
         sent'[r] \in Nat
  PROVE  InQueue(r)' /\ InCopy(r)'
<1>0. PICK v \in Int, f \in Nat, q \in Nat, b \in Nat, c \in Nat, l \in Nat :
        /\ v = Received(r) /\ f = Len(found[r].msgs) /\ q = Len(queue.msgs)
        /\ b = BlocksSent(r) /\ c = BlocksSent(r)' /\ l = LastSent(r)'
        /\ c = IF l = 0 THEN b + 1 ELSE b
  <2>0. LastSent(r)' \in {0, 1} /\ (\A l \in {0, 1} : l \in Nat)
    OBVIOUS
  <2>1. /\ Received(r) \in Int /\ Len(found[r].msgs) \in Nat /\ Len(queue.msgs) \in Nat
        /\ BlocksSent(r) \in Nat /\ LastSent(r)' \in Nat
    BY <2>0, Found, ReceivedIs, Zenon
  <2>2. BlocksSent(r)' \in Nat
    BY <2>1
  <2>3. BlocksSent(r)' = IF LastSent(r)' = 0 THEN BlocksSent(r) + 1 ELSE BlocksSent(r)
    OBVIOUS
  <2>4. QED
    BY <2>1, <2>2, <2>3, Zenon
<1>01. /\ IF l = 0 THEN IsBlock(src[r], b + 1, msg) ELSE msg = LastMessage
       /\ sent'[r] = sent[r] \/ (sent[r] = b * TextSz /\ sent'[r] > sent[r])
       /\ c = IF l = 0 THEN b + 1 ELSE b
  BY <1>0
<1>1. v + q = f + b /\ b <= c /\ l \in {0, 1} /\ c + l = b + 1
  <2>1. v + q = f + b + 0
    BY <1>0, ReceivedIs
  <2>2. l \in {0, 1}
    BY <1>0
  <2>3. QED
    BY <1>01, <2>1, <2>2
<1>2. queue.msgs \in Seq(Message)
  BY Found
<1>3. /\ Len(queue'.msgs) = q + 1
      /\ \A n \in 1 .. q : queue'.msgs[n] = queue.msgs[n]
      /\ queue'.msgs[q + 1] = msg
  BY <1>0, <1>2, AppendProperties
<1>4. Received(r)' = v
  <2>1. Received(r)' = f + c + l - (q + 1)
    BY <1>0, <1>3 DEF Received
  <2>2. f + c + l - (q + 1) = v
    BY <1>1
  <2>3. QED
    BY <2>1, <2>2, Zenon
<1>5. InQueue(r)'
  <2>1. ASSUME NEW n \in 1 .. q + 1
        PROVE  InStream(found[r].msgs, src[r], c, v + n, queue'.msgs[n])
    <3> DEFINE place == (v + n) - f
    <3>1. CASE n \in 1 .. q
      <4>1. place <= b /\ place <= c
        BY <1>1, <3>1
      <4>2. InStream(found[r].msgs, src[r], b, v + n, queue.msgs[n])
        BY <1>0, <3>1 DEF InQueue
      <4> HIDE DEF place
      <4>3. InStream(found[r].msgs, src[r], b, v + n, queue.msgs[n]) =>
              IF place <= 0 THEN queue.msgs[n] = found[r].msgs[v + n]
              ELSE IF place <= b THEN IsBlock(src[r], place, queue.msgs[n])
              ELSE queue.msgs[n] = LastMessage
        BY <1>0 DEF InStream, place
      <4>4. IF place <= 0 THEN queue.msgs[n] = found[r].msgs[v + n]
            ELSE IF place <= c THEN IsBlock(src[r], place, queue.msgs[n])
            ELSE queue.msgs[n] = LastMessage
        BY <4>1, <4>2, <4>3, Zenon
      <4>5. queue'.msgs[n] = queue.msgs[n]
        BY <1>3, <3>1
      <4>6. IF place <= 0 THEN queue'.msgs[n] = found[r].msgs[v + n]
            ELSE IF place <= c THEN IsBlock(src[r], place, queue'.msgs[n])
            ELSE queue'.msgs[n] = LastMessage
        BY <4>4, <4>5, Zenon
      <4>7. place = (v + n) - Len(found[r].msgs)
        BY <1>0 DEF place
      <4>8. QED
        BY <4>6, <4>7, Zenon DEF InStream
    <3>2. CASE n = q + 1
      <4>0. PICK own \in Int : own = b + 1
        OBVIOUS
      <4>1. v + n - f = own /\ ~ (own <= 0)
        BY <1>1, <3>2, <4>0
      <4>2. queue'.msgs[n] = msg
        BY <1>3, <3>2
      <4>3. IF l = 0 THEN own <= c ELSE ~ (own <= c)
        BY <1>1, <1>01, <4>0
      <4>4. IF own <= c THEN IsBlock(src[r], own, msg) ELSE msg = LastMessage
        BY <1>01, <4>0, <4>3
      <4>5. QED
        <5>1. InStream(found[r].msgs, src[r], c, v + n, msg) <=>
                (IF own <= c THEN IsBlock(src[r], own, msg) ELSE msg = LastMessage)
          <6> DEFINE is == v + n - Len(found[r].msgs)
          <6>1. is = own
            BY <1>0, <4>1
          <6> HIDE DEF is
          <6>2. InStream(found[r].msgs, src[r], c, v + n, msg) <=>
                  (IF is <= 0 THEN msg = found[r].msgs[v + n]
                   ELSE IF is <= c THEN IsBlock(src[r], is, msg) ELSE msg = LastMessage)
            BY DEF InStream, is
          <6>3. QED
            BY <4>1, <6>1, <6>2, Zenon
        <5>2. QED
          <6>1. InStream(found[r].msgs, src[r], c, v + n, msg)
            BY <4>4, <5>1, Zenon
          <6>2. QED
            BY <4>2, <6>1
    <3>3. n \in 1 .. q \/ n = q + 1
      OBVIOUS
    <3>4. QED
      BY <3>1, <3>2, <3>3
  <2>2. \A n \in 1 .. Len(queue'.msgs) : n \in 1 .. q + 1
    BY <1>3
  <2>3. \A n \in 1 .. Len(queue'.msgs) :
          InStream(found'[r].msgs, src'[r], c, v + n, queue'.msgs[n])
    BY <2>1, <2>2
  <2>4. c = BlocksSent(r)'
    BY <1>0
  <2>5. QED
    BY <1>4, <2>3, <2>4, Zenon DEF InQueue
<1>6. InCopy(r)'
  <2>1. Before(r)' = Before(r) /\ Lasts(r)' = Lasts(r)
    BY DEF Before, Lasts
  <2>2. Own(r)' = Own(r)
    BY <2>1 DEF Own
  <2>3. PICK own \in Int : own = v - f
    OBVIOUS
  <2>4. own <= b /\ own <= c
    <3>1. own <= b
      BY <1>0, <2>3 DEF InCopy
    <3>2. QED
      BY <1>1, <3>1
  <2>5. ASSUME own > 0
        PROVE  Smaller(own * TextSz, sent'[r]) = Smaller(own * TextSz, sent[r])
    <3>1. CASE sent'[r] = sent[r]
      BY <3>1
    <3>2. ASSUME sent[r] = b * TextSz, sent'[r] > sent[r]
          PROVE  Smaller(own * TextSz, sent'[r]) = Smaller(own * TextSz, sent[r])
      <4>1. own * TextSz <= b * TextSz /\ own * TextSz \in Int
        <5>1. b \in Int
          OBVIOUS
        <5>2. QED
          BY <2>4, <5>1, TextSzAssumption, TimesKeeps, Zenon
      <4>2. PICK x \in Int, y \in Int, z \in Int :
              x = own * TextSz /\ y = sent[r] /\ z = sent'[r]
        BY <4>1, BlockFacts
      <4>3. x <= y /\ y < z
        BY <3>2, <4>1, <4>2
      <4>4. (IF x < z THEN x ELSE z) = (IF x < y THEN x ELSE y)
        BY <4>3
      <4>5. QED
        BY <4>2, <4>4 DEF Smaller
    <3>3. QED
      BY <1>01, <3>1, <3>2
  <2>6. QED
    BY <1>0, <1>4, <2>1, <2>2, <2>3, <2>4, <2>5 DEF InCopy
<1>7. QED
  BY <1>5, <1>6

(* The block that a sender reads, as strcpy leaves it.                      *)
LEMMA BlockRead ==
  ASSUME QueueTypeOK, NEW r \in Runs, NEW b \in Nat, sent[r] = b * TextSz,
         NEW n \in 1 .. Left(r), NEW t,
         t = ReadInto(r)[n] \/ \E m \in 1 .. (n - 1) : ReadInto(r)[m] = NUL
  PROVE  t = src[r][sent[r] + n] \/ BehindNUL(src[r], sent[r] + n)
<1>1. /\ Left(r) \in 0 .. TextSz /\ sent[r] \in Nat /\ n \in Nat /\ TextSz \in Nat
      /\ \A m \in 1 .. Left(r) : ReadInto(r)[m] = src[r][sent[r] + m]
  <2>1. \A m \in 1 .. Left(r) : ReadInto(r)[m] = src[r][sent[r] + m]
    BY BlockFacts, Zenon
  <2>2. Left(r) \in 0 .. TextSz /\ sent[r] \in Nat
    BY BlockFacts, Zenon
  <2>3. n \in Nat /\ TextSz \in Nat
    BY TextSzAssumption
  <2>4. QED
    BY <2>1, <2>2, <2>3, Zenon
<1>2. CASE t = ReadInto(r)[n]
  BY <1>1, <1>2
<1>3. ASSUME NEW m \in 1 .. (n - 1), ReadInto(r)[m] = NUL
      PROVE  BehindNUL(src[r], sent[r] + n)
  <2>1. m \in 1 .. Left(r) /\ sent[r] + m \in 1 .. (sent[r] + n - 1)
    BY <1>1
  <2>2. src[r][sent[r] + m] = NUL
    BY <1>1, <1>3, <2>1
  <2>3. /\ (sent[r] + m - 1) \div TextSz = b
        /\ (sent[r] + n - 1) \div TextSz = b
    <3>1. m \in 1 .. TextSz /\ n \in 1 .. TextSz
      BY <1>1, <2>1
    <3>2. QED
      BY <3>1, InBlock
  <2>4. PICK at : at = sent[r] + m
    OBVIOUS
  <2>5. PICK to : to = sent[r] + n
    OBVIOUS
  <2>6. /\ at \in 1 .. (to - 1) /\ src[r][at] = NUL
        /\ (at - 1) \div TextSz = (to - 1) \div TextSz
    <3>1. at \in 1 .. (to - 1) /\ src[r][at] = NUL
      BY <1>1, <2>1, <2>2, <2>4, <2>5
    <3>2. (at - 1) \div TextSz = (to - 1) \div TextSz
      <4>1. at - 1 = sent[r] + m - 1 /\ to - 1 = sent[r] + n - 1
        BY <1>1, <2>1, <2>4, <2>5
      <4>2. QED
        BY <2>3, <4>1, Zenon
    <3>3. QED
      BY <3>1, <3>2, Zenon
  <2>7. BehindNUL(src[r], to)
    BY <2>6, Zenon DEF BehindNUL
  <2>8. QED
    BY <2>5, <2>7
<1>4. QED
  BY <1>2, <1>3

LEMMA StreamBlock ==
  ASSUME QueueTypeOK, NEW r \in Runs, SenderKept(r), InQueue(r), InCopy(r),
         SndBlock(r), queue.id = msgid[r]
  PROVE  InQueue(r)' /\ InCopy(r)'
<1>1. PICK msg : /\ msg = [mtype |-> STD_MSG_TYPE,
                           text |-> SubSeq(mtext'[r], 1, read_sz(r))]
                 /\ msg \in Message /\ Len(msg.text) = Left(r)
                 /\ msgsnd(r, msg)
                 /\ \A n \in 1 .. Left(r) : msg.text[n] = mtext'[r][n]
  BY BlockMessage
<1>2. /\ BlocksSent(r) \in Nat /\ BlocksSent(r)' = BlocksSent(r) + 1
      /\ sent[r] = BlocksSent(r) * TextSz
      /\ Left(r) \in 1 .. TextSz /\ sent'[r] = sent[r] + Left(r)
  BY BlockSent, BlocksAre
<1>3. queue'.msgs = Append(queue.msgs, msg)
  BY <1>1, Sends
<1>4. /\ UNCHANGED <<src, dst, found>>
      /\ spc[r] = "send" /\ spc'[r] \in {"send", "last"}
  BY DEF SndBlock, SenderGoes, AfterBlock, QueueTypeOK
<1>5. LastSent(r) = 0 /\ LastSent(r)' = 0
  BY <1>4 DEF LastSent
<1>6. IsBlock(src[r], BlocksSent(r) + 1, msg)
  <2>1. (BlocksSent(r) + 1 - 1) * TextSz = sent[r]
    <3>1. \A b \in Nat : b + 1 - 1 = b
      OBVIOUS
    <3>2. QED
      BY <1>2, <3>1
  <2>2. Len(msg.text) = Smaller(TextSz, Len(src[r]) - sent[r])
    BY <1>1 DEF Left
  <2>3. msg.mtype = STD_MSG_TYPE
    BY <1>1
  <2>4. ASSUME NEW n \in 1 .. Len(msg.text)
        PROVE  msg.text[n] = src[r][sent[r] + n] \/ BehindNUL(src[r], sent[r] + n)
    <3>1. n \in 1 .. Left(r) /\ n \in 1 .. TextSz
      <4>1. n \in 1 .. Left(r)
        BY <1>1
      <4>2. QED
        BY <1>2, <4>1, TextSzAssumption
    <3>2. msg.text[n] = strcpy(mtext[r], ReadInto(r))[n]
      BY <1>1, <3>1, BlockMessage
    <3>3. mtext[r] \in Block /\ ReadInto(r) \in Block
      BY BlockFacts DEF QueueTypeOK
    <3>4. \/ msg.text[n] = ReadInto(r)[n]
          \/ \E m \in 1 .. (n - 1) : ReadInto(r)[m] = NUL
      BY <3>1, <3>2, <3>3, StringCopied
    <3>5. QED
      BY <1>2, <3>1, <3>4, BlockRead
  <2>0. PICK number : number = BlocksSent(r) + 1
    OBVIOUS
  <2> DEFINE at == (number - 1) * TextSz
  <2>5. at = sent[r]
    <3>1. number - 1 = BlocksSent(r)
      BY <1>2, <2>0
    <3>2. QED
      BY <1>2, <3>1, Zenon
  <2> HIDE DEF at
  <2>6. /\ Len(msg.text) = Smaller(TextSz, Len(src[r]) - at)
        /\ \A n \in 1 .. Len(msg.text) :
             msg.text[n] = src[r][at + n] \/ BehindNUL(src[r], at + n)
    BY <2>2, <2>4, <2>5
  <2>7. QED
    <3>1. IsBlock(src[r], number, msg)
      BY <2>3, <2>6, Zenon DEF IsBlock, at
    <3>2. QED
      BY <2>0, <3>1
<1>7. sent'[r] > sent[r] /\ sent'[r] \in Nat
  BY <1>2, BlockFacts, TextSzAssumption
<1>8. BlocksSent(r)' = IF LastSent(r)' = 0 THEN BlocksSent(r) + 1 ELSE BlocksSent(r)
  BY <1>2, <1>5
<1>9. LastSent(r)' \in {0, 1}
  BY <1>5
<1>10. IF LastSent(r)' = 0 THEN IsBlock(src[r], BlocksSent(r) + 1, msg)
                           ELSE msg = LastMessage
  BY <1>5, <1>6
<1>11. sent'[r] = sent[r] \/ (sent[r] = BlocksSent(r) * TextSz /\ sent'[r] > sent[r])
  BY <1>2, <1>7, Zenon
<1>12. QED
  BY <1>1, <1>3, <1>4, <1>5, <1>7, <1>8, <1>9, <1>10, <1>11, StreamGrows, Zenon

LEMMA StreamLast ==
  ASSUME QueueTypeOK, NEW r \in Runs, SenderKept(r), InQueue(r), InCopy(r),
         SndLast(r), queue.id = msgid[r]
  PROVE  InQueue(r)' /\ InCopy(r)'
<1>1. LastMessage \in Message
  BY EmptySeq, TextSzAssumption DEF LastMessage, Message
<1>2. /\ UNCHANGED <<src, dst, found, sent>>
      /\ spc[r] # "done" /\ spc'[r] = "done" /\ msgsnd(r, LastMessage)
  BY DEF SndLast, QueueTypeOK
<1>3. queue'.msgs = Append(queue.msgs, LastMessage)
  BY <1>1, <1>2, Sends
<1>4. LastSent(r) = 0 /\ LastSent(r)' = 1
  BY <1>2 DEF LastSent
<1>5. BlocksSent(r)' = BlocksSent(r)
  BY <1>2 DEF BlocksSent
<1>6. sent'[r] = sent[r] /\ sent'[r] \in Nat
  BY <1>2, BlockFacts
<1>7. QED
  BY <1>1, <1>2, <1>3, <1>4, <1>5, <1>6, StreamGrows

LEMMA StreamSent ==
  ASSUME QueueTypeOK, RunsInTurn, NEW r \in Runs, Active(r), found[r].alone,
         SenderKept(r), InQueue(r), InCopy(r), NEW s \in Runs, Sender(s)
  PROVE  InQueue(r)' /\ InCopy(r)'
<1>1. queue.id = msgid[r] /\ SendingTo(queue.id) \subseteq {r}
  BY DEF RunsInTurn
<1>2. CASE SndOpen(s)
  <2>1. /\ UNCHANGED <<queue, src, dst, sent, found>>
        /\ spc'[r] = "done" <=> spc[r] = "done"
    BY <1>2 DEF SndOpen, SenderGoes, QueueTypeOK
  <2>2. QED
    BY <2>1, StreamElsewhere
<1>3. CASE s = r /\ ~ SndOpen(s)
  BY <1>1, <1>3, StreamBlock, StreamLast DEF Sender
<1>4. CASE s # r /\ (SndBlock(s) \/ SndLast(s))
  <2>1. spc[s] \in {"send", "last"}
    BY <1>4 DEF SndBlock, SndLast, SenderGoes
  <2>2. queue.id # msgid[s]
    BY <1>1, <1>4, <2>1 DEF SendingTo
  <2>3. LastMessage \in Message
    BY EmptySeq, TextSzAssumption DEF LastMessage, Message
  <2>4. queue'.msgs = queue.msgs
    <3>1. CASE SndBlock(s)
      BY <2>2, <3>1, BlockMessage, Sends
    <3>2. CASE SndLast(s)
      BY <2>2, <2>3, <3>2, Sends DEF SndLast
    <3>3. QED
      BY <1>4, <3>1, <3>2
  <2>5. /\ UNCHANGED <<src, dst, found>>
        /\ sent'[r] = sent[r] /\ spc'[r] = spc[r]
    BY <1>4 DEF SndBlock, SndLast, SenderGoes, QueueTypeOK
  <2>6. QED
    BY <2>4, <2>5, StreamElsewhere
<1>5. QED
  BY <1>2, <1>3, <1>4 DEF Sender

(* How much of the file a number of blocks is.                              *)
LEMMA BlockLength ==
  ASSUME QueueTypeOK, NEW r \in Runs, SenderKept(r), NEW o \in Nat, o < BlocksSent(r)
  PROVE  /\ o * TextSz \in Nat /\ o * TextSz < sent[r]
         /\ Smaller((o + 1) * TextSz, sent[r]) =
              o * TextSz + Smaller(TextSz, Len(src[r]) - o * TextSz)
<1>0. PICK b \in Nat, t \in Nat, n \in Nat, len \in Nat :
        b = BlocksSent(r) /\ t = TextSz /\ n = sent[r] /\ len = Len(src[r])
  <2>1. BlocksSent(r) \in Nat /\ sent[r] \in Nat /\ Len(src[r]) \in Nat
    BY BlocksAre, BlockFacts, Zenon
  <2>2. TextSz \in Nat
    BY TextSzAssumption
  <2>3. QED
    BY <2>1, <2>2, Zenon
<1>1. t > 0 /\ n <= len /\ o < b
  BY <1>0, BlockFacts, TextSzAssumption
<1>2. /\ n = b * t \/ (n = len /\ (b - 1) * t < n)
  BY <1>0, BlocksAre
<1>3. PICK x \in Int : x = o * t
  BY <1>0
<1>4. (o + 1) * t = x + t /\ x >= 0
  BY <1>3
<1>5. /\ x + t <= b * t /\ b * t \in Int
  BY <1>1, <1>3, TimesGrows
<1>6. x <= (b - 1) * t /\ (b - 1) * t \in Int
  BY <1>1, <1>3, TimesKeeps
<1>7. x < n
  <2>1. CASE n = b * t
    BY <1>1, <1>5, <2>1
  <2>2. CASE n = len /\ (b - 1) * t < n
    BY <1>6, <2>2
  <2>3. QED
    BY <1>2, <2>1, <2>2
<1>8. (IF x + t < n THEN x + t ELSE n) = x + (IF t < len - x THEN t ELSE len - x)
  <2>1. CASE n = b * t
    <3>1. x + t <= n
      BY <1>5, <2>1
    <3>2. QED
      BY <1>1, <3>1
  <2>2. CASE n = len
    BY <1>1, <2>2
  <2>3. QED
    BY <1>2, <2>1, <2>2
<1>9. Smaller(x + t, n) = x + Smaller(t, len - x)
  BY <1>8 DEF Smaller
<1>10. o * TextSz = x /\ (o + 1) * TextSz = x + t /\ x \in Nat
  BY <1>0, <1>3, <1>4
<1>11. QED
  BY <1>0, <1>7, <1>9, <1>10, Zenon

(* A block behind what a receiver has of the file already.                  *)
LEMMA BlockReceived ==
  ASSUME QueueTypeOK, NEW r \in Runs, SenderKept(r), NEW o \in Nat, o < BlocksSent(r),
         IsPrefix(Before(r), dst[r]), Len(Own(r)) = o * TextSz,
         \A n \in 1 .. Len(Own(r)) : Own(r)[n] = src[r][n] \/ BehindNUL(src[r], n),
         NEW msg \in Message, IsBlock(src[r], o + 1, msg)
  PROVE  LET own == SubSeq(dst[r] \o msg.text, Len(Before(r)) + 1,
                           Len(dst[r] \o msg.text))
         IN  /\ IsPrefix(Before(r), dst[r] \o msg.text)
             /\ Len(own) = Smaller((o + 1) * TextSz, sent[r])
             /\ \A n \in 1 .. Len(own) : own[n] = src[r][n] \/ BehindNUL(src[r], n)
<1>0. PICK own : own = SubSeq(dst[r] \o msg.text, Len(Before(r)) + 1,
                              Len(dst[r] \o msg.text))
  OBVIOUS
<1>1. /\ Before(r) \in Seq(Byte) /\ dst[r] \in Seq(Byte)
      /\ msg.text \in Seq(Byte)
  BY Found, UsableIs DEF Message
<1>2. IsPrefix(Before(r), dst[r] \o msg.text)
  BY <1>1, PrefixGrows
<1>3. PICK at \in Nat : at = o * TextSz
  BY TextSzAssumption
<1>4. ((o + 1) - 1) * TextSz = at
  <2>1. (o + 1) - 1 = o
    OBVIOUS
  <2>2. QED
    BY <1>3, <2>1, Zenon
<1>5. /\ Len(msg.text) = Smaller(TextSz, Len(src[r]) - at)
      /\ \A n \in 1 .. Len(msg.text) :
           msg.text[n] = src[r][at + n] \/ BehindNUL(src[r], at + n)
  BY <1>4, Zenon DEF IsBlock
<1>6. /\ Len(msg.text) \in Nat /\ Len(own) = at + Len(msg.text)
      /\ \A n \in 1 .. at : own[n] = Own(r)[n]
      /\ \A n \in 1 .. Len(msg.text) : own[at + n] = msg.text[n]
  <2>1. Own(r) = SubSeq(dst[r], Len(Before(r)) + 1, Len(dst[r]))
    BY DEF Own
  <2>2. Len(Own(r)) = at
    BY <1>3
  <2>3. /\ Len(msg.text) \in Nat /\ Len(own) = Len(Own(r)) + Len(msg.text)
        /\ \A n \in 1 .. Len(Own(r)) : own[n] = Own(r)[n]
        /\ \A n \in 1 .. Len(msg.text) : own[Len(Own(r)) + n] = msg.text[n]
    <3>1. PICK s, t, text, rest : s = Before(r) /\ t = dst[r] /\ text = msg.text /\ rest = Own(r)
      OBVIOUS
    <3>2. s \in Seq(Byte) /\ t \in Seq(Byte) /\ text \in Seq(Byte) /\ IsPrefix(s, t)
      BY <1>1, <3>1
    <3>3. /\ rest = SubSeq(t, Len(s) + 1, Len(t))
          /\ own = SubSeq(t \o text, Len(s) + 1, Len(t \o text))
      BY <1>0, <2>1, <3>1
    <3>4. /\ Len(text) \in Nat /\ Len(own) = Len(rest) + Len(text)
          /\ \A n \in 1 .. Len(rest) : own[n] = rest[n]
          /\ \A n \in 1 .. Len(text) : own[Len(rest) + n] = text[n]
      <4>1. LET more == SubSeq(t \o text, Len(s) + 1, Len(t \o text))
                tail == SubSeq(t, Len(s) + 1, Len(t))
            IN  /\ Len(text) \in Nat /\ Len(more) = Len(tail) + Len(text)
                /\ \A n \in 1 .. Len(tail) : more[n] = tail[n]
                /\ \A n \in 1 .. Len(text) : more[Len(tail) + n] = text[n]
        BY <3>2, RestGrows
      <4>2. QED
        BY <3>3, <4>1
    <3>5. QED
      BY <3>1, <3>4
  <2>4. QED
    BY <2>2, <2>3, Zenon
<1>7. Len(own) = Smaller((o + 1) * TextSz, sent[r])
  BY <1>3, <1>5, <1>6, BlockLength, Zenon
<1>8. ASSUME NEW n \in 1 .. Len(own)
      PROVE  own[n] = src[r][n] \/ BehindNUL(src[r], n)
  <2>0. PICK x \in Nat : x = Len(msg.text)
    BY <1>6
  <2>9. n \in 1 .. at + x
    <3>1. Len(own) = at + x
      BY <1>6, <2>0
    <3>2. QED
      BY <3>1
  <2>1. CASE n <= at
    <3>1. n \in 1 .. at
      BY <2>1, <2>9
    <3>2. n \in 1 .. Len(Own(r))
      BY <1>3, <3>1
    <3>3. QED
      BY <1>6, <3>1, <3>2
  <2>2. CASE n > at
    <3>1. PICK k \in Nat : k = n - at
      BY <2>2, <2>9
    <3>2. k \in 1 .. Len(msg.text) /\ at + k = n
      <4>1. k \in 1 .. x /\ at + k = n
        BY <2>2, <2>9, <3>1
      <4>2. QED
        BY <2>0, <4>1
    <3>3. own[at + k] = msg.text[k]
      BY <1>6, <3>2
    <3>4. msg.text[k] = src[r][at + k] \/ BehindNUL(src[r], at + k)
      BY <1>5, <3>2
    <3>5. QED
      BY <3>2, <3>3, <3>4
  <2>3. QED
    BY <2>1, <2>2, <2>9
<1>9. QED
  BY <1>0, <1>2, <1>7, <1>8

(* A receiver that has what it has found, and nothing of the file.          *)
LEMMA AllFound ==
  ASSUME QueueTypeOK, NEW r \in Runs, InCopy(r), Received(r) = Len(found[r].msgs)
  PROVE  /\ IsPrefix(Before(r), dst[r]) /\ Own(r) = << >> /\ Len(Own(r)) = 0
         /\ Lasts(r) = {}
<1>0. PICK f \in Nat : f = Len(found[r].msgs)
  BY Found
<1>1. dst[r] = Joined(found[r].msgs, f) /\ \A n \in Lasts(r) : f < n
  <2>1. f - f = 0
    BY <1>0
  <2>2. Received(r) - Len(found[r].msgs) <= 0
    BY <1>0, <2>1
  <2>3. QED
    BY <1>0, <2>2 DEF InCopy
<1>2. f \in 0 .. Len(found[r].msgs)
  BY <1>0
<1>3. Own(r) = << >> /\ Len(Own(r)) = 0
  BY <1>1, <1>2, NothingOwn
<1>4. Lasts(r) = {}
  <2>1. \A n \in Lasts(r) : n \in 1 .. f
    BY <1>0 DEF Lasts
  <2>2. QED
    BY <1>1, <2>1
<1>5. Usable(r) = f
  BY <1>0, <1>4 DEF Usable
<1>6. dst[r] = Before(r) /\ Before(r) \in Seq(Byte)
  BY <1>1, <1>5, UsableIs
<1>7. IsPrefix(Before(r), dst[r])
  BY <1>6, LenProperties, PrefixAt
<1>8. QED
  BY <1>3, <1>4, <1>7

LEMMA StreamReceived ==
  ASSUME QueueTypeOK, NEW r \in Runs, SenderKept(r), InQueue(r), InCopy(r), RcvBlock(r)
  PROVE  InQueue(r)' /\ InCopy(r)'
<1>0. PICK v \in Int, f \in Nat, q \in Nat, b \in Nat, l \in Int, own \in Int :
        /\ v = Received(r) /\ f = Len(found[r].msgs) /\ q = Len(queue.msgs)
        /\ b = BlocksSent(r) /\ l = LastSent(r) /\ own = v - f
        /\ v + q = f + b + l
  <2>1. LastSent(r) \in Int
    BY DEF LastSent
  <2>2. PICK v \in Int : v = Received(r) /\ v - Len(found[r].msgs) \in Int
    BY Found, ReceivedIs
  <2>3. /\ Len(found[r].msgs) \in Nat /\ Len(queue.msgs) \in Nat /\ BlocksSent(r) \in Nat
        /\ v + Len(queue.msgs) = Len(found[r].msgs) + BlocksSent(r) + LastSent(r)
    BY <2>2, Found, ReceivedIs
  <2>4. QED
    BY <2>1, <2>2, <2>3
<1>01. v + q = f + b + l /\ own = v - f
  BY <1>0
<1>1. PICK head : /\ head = Head(queue.msgs) /\ head = queue.msgs[1]
                  /\ head \in Message /\ head.text \in Seq(Byte)
                  /\ head.mtype # LAST_MSG_TYPE /\ q >= 1
  <2>1. queue.msgs \in Seq(Message) /\ queue.msgs # << >>
    BY Found DEF RcvBlock
  <2>2. Head(queue.msgs) = queue.msgs[1] /\ Head(queue.msgs) \in Message /\ q >= 1
    BY <1>0, <2>1, HeadTailProperties, EmptySeq
  <2>3. QED
    BY <2>2 DEF RcvBlock, Message
<1>2. /\ Len(queue'.msgs) = q - 1
      /\ \A n \in 1 .. q - 1 : queue'.msgs[n] = queue.msgs[n + 1]
      /\ dst'[r] = dst[r] \o head.text
      /\ UNCHANGED <<src, sent, spc, found>>
  <2>1. queue.msgs \in Seq(Message) /\ queue.msgs # << >>
    BY Found DEF RcvBlock
  <2>2. queue'.msgs = Tail(queue.msgs)
    BY DEF RcvBlock, QueueTypeOK
  <2>3. /\ Len(queue'.msgs) = q - 1
        /\ \A n \in 1 .. Len(queue'.msgs) : queue'.msgs[n] = queue.msgs[n + 1]
    BY <1>0, <2>1, <2>2, HeadTailProperties
  <2>4. /\ dst'[r] = dst[r] \o Head(queue.msgs).text
        /\ UNCHANGED <<src, sent, spc, found>>
    <3>1. dst \in [Runs -> Seq(Byte)]
      BY DEF QueueTypeOK
    <3>2. /\ dst' = [dst EXCEPT ![r] = @ \o Head(queue.msgs).text]
          /\ UNCHANGED <<src, sent, spc, found>>
      BY DEF RcvBlock
    <3>3. QED
      BY <3>1, <3>2
  <2>5. QED
    BY <1>1, <2>3, <2>4, Zenon
<1>3. BlocksSent(r)' = b /\ LastSent(r)' = l /\ Before(r)' = Before(r) /\ Lasts(r)' = Lasts(r)
  BY <1>0, <1>2 DEF BlocksSent, LastSent, Before, Lasts
<1>4. Received(r)' = v + 1
  <2>1. Received(r)' = f + b + l - (q - 1)
    BY <1>0, <1>2, <1>3 DEF Received
  <2>2. f + b + l - (q - 1) = v + 1
    BY <1>01
  <2>3. QED
    BY <2>1, <2>2
<1>5. InStream(found[r].msgs, src[r], b, v + 1, head)
  <2>1. 1 \in 1 .. Len(queue.msgs)
    BY <1>0, <1>1
  <2>2. QED
    BY <1>0, <1>1, <2>1 DEF InQueue
<1>6. PICK next \in Int : next = own + 1 /\ next = (v + 1) - f
  BY <1>01
<1>7. /\ next <= 0 => head = found[r].msgs[v + 1]
      /\ ~ (next <= 0) => next <= b /\ IsBlock(src[r], next, head)
  <2>1. (v + 1) - Len(found[r].msgs) = next
    BY <1>0, <1>6
  <2>2. head # LastMessage
    BY <1>1 DEF LastMessage
  <2>3. IF next <= 0 THEN head = found[r].msgs[v + 1]
        ELSE IF next <= b THEN IsBlock(src[r], next, head)
        ELSE head = LastMessage
    BY <1>5, <2>1, Zenon DEF InStream
  <2>4. QED
    BY <2>2, <2>3
<1>8. InQueue(r)'
  <2>1. ASSUME NEW n \in 1 .. Len(queue'.msgs)
        PROVE  InStream(found'[r].msgs, src'[r], b, v + 1 + n, queue'.msgs[n])
    <3>1. PICK k : k = n + 1
      OBVIOUS
    <3>2. k \in 1 .. q /\ v + 1 + n = v + k /\ n \in 1 .. q - 1
      BY <1>2, <3>1
    <3>3. InStream(found[r].msgs, src[r], b, v + k, queue.msgs[k])
      BY <1>0, <3>2 DEF InQueue
    <3>4. queue'.msgs[n] = queue.msgs[k]
      BY <1>2, <3>1, <3>2
    <3>5. QED
      BY <1>2, <3>2, <3>3, <3>4
  <2>2. QED
    BY <1>3, <1>4, <2>1, Zenon DEF InQueue
<1>9. /\ v >= 0 /\ own <= b
      /\ own <= 0 => dst[r] = Joined(found[r].msgs, v)
      /\ own > 0 =>
           /\ IsPrefix(Before(r), dst[r])
           /\ Len(Own(r)) = Smaller(own * TextSz, sent[r])
           /\ \A n \in 1 .. Len(Own(r)) : Own(r)[n] = src[r][n] \/ BehindNUL(src[r], n)
      /\ \A n \in Lasts(r) : v < n
  BY <1>0 DEF InCopy
<1>10. ASSUME NEW n \in Lasts(r)
       PROVE  v + 1 < n
  <2>1. n \in 1 .. f /\ found[r].msgs[n].mtype = LAST_MSG_TYPE /\ v < n
    BY <1>0, <1>9 DEF Lasts
  <2>2. CASE n = v + 1
    <3>1. next <= 0
      BY <1>6, <2>1, <2>2
    <3>2. QED
      BY <1>1, <1>7, <2>1, <2>2, <3>1
  <2>3. QED
    BY <2>1, <2>2
<1>11. ASSUME next <= 0
       PROVE  dst'[r] = Joined(found[r].msgs, v + 1)
  <2>1. own <= 0 /\ v + 1 \in 1 .. f /\ (v + 1) - 1 = v
    BY <1>6, <1>9, <1>11
  <2>2. found[r].msgs \in Seq(Message)
    BY Found
  <2>3. Joined(found[r].msgs, v + 1) = Joined(found[r].msgs, v) \o found[r].msgs[v + 1].text
    <3>1. PICK k : k = v + 1
      OBVIOUS
    <3>2. k \in 1 .. Len(found[r].msgs) /\ k - 1 = v
      BY <1>0, <2>1, <3>1
    <3>3. QED
      BY <2>2, <3>1, <3>2, JoinedStep
  <2>4. QED
    BY <1>2, <1>7, <1>9, <1>11, <2>1, <2>3
<1>12. ASSUME ~ (next <= 0)
       PROVE  /\ IsPrefix(Before(r), dst'[r])
              /\ Len(Own(r)') = Smaller(next * TextSz, sent[r])
              /\ \A n \in 1 .. Len(Own(r)') :
                   Own(r)'[n] = src[r][n] \/ BehindNUL(src[r], n)
  <2>1. own \in Nat /\ own < b /\ next = own + 1
    BY <1>6, <1>7, <1>12
  <2>2. /\ IsPrefix(Before(r), dst[r]) /\ Len(Own(r)) = own * TextSz
        /\ \A n \in 1 .. Len(Own(r)) : Own(r)[n] = src[r][n] \/ BehindNUL(src[r], n)
    <3>1. CASE own = 0
      <4>1. Received(r) = Len(found[r].msgs)
        BY <1>0, <3>1
      <4>2. IsPrefix(Before(r), dst[r]) /\ Own(r) = << >> /\ Len(Own(r)) = 0
        BY <4>1, AllFound
      <4>3. 0 * TextSz = 0
        BY TextSzAssumption
      <4>4. QED
        BY <3>1, <4>2, <4>3
    <3>2. CASE own > 0
      <4>1. own < BlocksSent(r)
        BY <1>0, <2>1
      <4>2. own * TextSz < sent[r]
        BY <2>1, <4>1, BlockLength
      <4>3. Smaller(own * TextSz, sent[r]) = own * TextSz
        BY <4>2 DEF Smaller
      <4>4. QED
        BY <1>9, <3>2, <4>3
    <3>3. QED
      BY <2>1, <3>1, <3>2
  <2>3. Own(r)' = SubSeq(dst[r] \o head.text, Len(Before(r)) + 1, Len(dst[r] \o head.text))
    BY <1>2, <1>3 DEF Own
  <2>4. own < BlocksSent(r) /\ IsBlock(src[r], own + 1, head)
    BY <1>0, <1>7, <1>12, <2>1
  <2>5. PICK more : more = Own(r)'
    OBVIOUS
  <2>6. /\ IsPrefix(Before(r), dst[r] \o head.text)
        /\ Len(more) = Smaller((own + 1) * TextSz, sent[r])
        /\ \A n \in 1 .. Len(more) : more[n] = src[r][n] \/ BehindNUL(src[r], n)
    <3>1. LET rest == SubSeq(dst[r] \o head.text, Len(Before(r)) + 1,
                             Len(dst[r] \o head.text))
          IN  /\ IsPrefix(Before(r), dst[r] \o head.text)
              /\ Len(rest) = Smaller((own + 1) * TextSz, sent[r])
              /\ \A n \in 1 .. Len(rest) : rest[n] = src[r][n] \/ BehindNUL(src[r], n)
      BY <1>1, <2>1, <2>2, <2>4, BlockReceived
    <3>2. QED
      BY <2>3, <2>5, <3>1
  <2>7. QED
    BY <1>2, <2>1, <2>5, <2>6
<1>13. InCopy(r)'
  <2>1. /\ v + 1 >= 0 /\ next <= b /\ (next > 0 <=> ~ (next <= 0))
    BY <1>6, <1>7, <1>9
  <2>2. (v + 1) - Len(found[r].msgs) = next
    BY <1>0, <1>6
  <2>3. /\ next <= 0 => dst'[r] = Joined(found'[r].msgs, v + 1)
        /\ next > 0 => 
             /\ IsPrefix(Before(r)', dst'[r])
             /\ Len(Own(r)') = Smaller(next * TextSz, sent'[r])
             /\ \A n \in 1 .. Len(Own(r)') :
                  Own(r)'[n] = src'[r][n] \/ BehindNUL(src'[r], n)
        /\ \A n \in Lasts(r)' : v + 1 < n
    BY <1>2, <1>3, <1>10, <1>11, <1>12, <2>1
  <2>4. QED
    BY <1>2, <1>3, <1>4, <2>1, <2>2, <2>3, Zenon DEF InCopy
<1>14. QED
  BY <1>8, <1>13

LEMMA StreamsKept ==
  ASSUME QueueTypeOK, RunsInTurn, \A s \in Runs : SenderKept(s), StreamKept,
         [QueueNext]_queueVars
  PROVE  StreamKept'
<1> SUFFICES ASSUME NEW r \in Runs, Active(r)', found'[r].alone
             PROVE  InQueue(r)' /\ InCopy(r)'
  BY DEF StreamKept
<1>0. Active(r) /\ found[r].alone => InQueue(r) /\ InCopy(r)
  BY DEF StreamKept
<1>1. ASSUME NEW s \in Runs, Start(s) PROVE InQueue(r)' /\ InCopy(r)'
  <2>1. CASE s = r
    BY <1>1, <2>1, StreamBegins
  <2>2. CASE s # r
    <3>1. rpc'[r] = rpc[r] /\ rpc[s] = "idle" /\ (s > 1 => rpc[s - 1] \in Ended)
      BY <1>1, <2>2 DEF Start, ReceiverGoes, QueueTypeOK
    <3>2. ~ Active(r)
      BY <3>1, NoneActive
    <3>3. QED
      BY <3>1, <3>2 DEF Active
  <2>3. QED
    BY <2>1, <2>2
<1>2. ASSUME NEW s \in Runs, Interrupt(s) PROVE InQueue(r)' /\ InCopy(r)'
  <2>1. Active(s) /\ ~ Active(s)'
    BY <1>2 DEF Interrupt, Active, QueueTypeOK
  <2>2. s # r /\ rpc'[r] = rpc[r]
    BY <1>2, <2>1 DEF Interrupt, QueueTypeOK
  <2>3. Active(r)
    BY <2>2 DEF Active
  <2>4. QED
    BY <2>1, <2>2, <2>3, OneActive
<1>3. ASSUME NEW s \in Runs, Sender(s) PROVE InQueue(r)' /\ InCopy(r)'
  <2>1. UNCHANGED <<rpc, found>>
    BY <1>3 DEF Sender, SndOpen, SndBlock, SndLast
  <2>2. Active(r) /\ found[r].alone
    BY <2>1 DEF Active
  <2>3. QED
    BY <1>0, <1>3, <2>2, StreamSent
<1>4. ASSUME NEW s \in Runs, Receiver(s) PROVE InQueue(r)' /\ InCopy(r)'
  <2>1. Active(s)
    BY <1>4 DEF Receiver, RcvOpen, RcvBlock, RcvLast, ReceiverGoes, Active
  <2>2. Active(r)
    BY <1>4, <2>1 DEF Receiver, RcvOpen, RcvBlock, RcvLast, ReceiverGoes, Active, QueueTypeOK
  <2>3. s = r
    BY <2>1, <2>2, OneActive
  <2>4. UNCHANGED found
    BY <1>4 DEF Receiver, RcvOpen, RcvBlock, RcvLast
  <2>5. InQueue(r) /\ InCopy(r)
    BY <1>0, <2>2, <2>4
  <2>6. CASE RcvOpen(s)
    <3>1. UNCHANGED <<queue, src, dst, sent, spc, found>>
      BY <2>6 DEF RcvOpen
    <3>2. QED
      BY <2>5, <3>1, StreamElsewhere
  <2>7. CASE RcvBlock(s)
    BY <2>3, <2>5, <2>7, StreamReceived
  <2>8. CASE RcvLast(s)
    <3>1. rpc'[r] = "done"
      BY <2>3, <2>8 DEF RcvLast, ReceiverGoes, QueueTypeOK
    <3>2. QED
      BY <3>1 DEF Active
  <2>9. QED
    BY <1>4, <2>6, <2>7, <2>8 DEF Receiver
<1>5. ASSUME UNCHANGED queueVars PROVE InQueue(r)' /\ InCopy(r)'
  <2>1. Active(r) /\ found[r].alone
    BY <1>5 DEF queueVars, Active
  <2>2. UNCHANGED <<queue, src, dst, sent, spc, found>>
    BY <1>5 DEF queueVars
  <2>3. QED
    BY <1>0, <2>1, <2>2, StreamElsewhere
<1>6. QED
  BY <1>1, <1>2, <1>3, <1>4, <1>5 DEF QueueNext

(***************************************************************************)
(* The copies.                                                             *)
(***************************************************************************)
CopyRight(r) ==
  /\ IsPrefix(dst[r], Before(r)) \/ IsPrefix(Before(r), dst[r])
  /\ Len(Own(r)) <= Len(src[r])
  /\ \A n \in 1 .. Len(Own(r)) : Own(r)[n] = src[r][n] \/ BehindNUL(src[r], n)
  /\ Lasts(r) # {} => Own(r) = << >>

CopyDone(r) ==
  rpc[r] = "done" =>
    /\ IsPrefix(Before(r), dst[r])
    /\ Lasts(r) # {} \/ Len(Own(r)) = Len(src[r]) \/ CutAt(r, Len(Own(r)))

LEMMA CopyParts ==
  CopyExact <=> \A r \in Runs : found[r].alone => CopyRight(r) /\ CopyDone(r)
  BY DEF CopyExact, CopyRight, CopyDone

LEMMA StreamCopied ==
  ASSUME QueueTypeOK, NEW r \in Runs, SenderKept(r), InCopy(r)
  PROVE  CopyRight(r)
<1>0. PICK v \in Int, f \in Nat, own \in Int :
        v = Received(r) /\ f = Len(found[r].msgs) /\ own = v - f
  <2>1. PICK v \in Int, f \in Nat : v = Received(r) /\ f = Len(found[r].msgs)
    BY Found, ReceivedIs
  <2>2. v - f \in Int
    OBVIOUS
  <2>3. QED
    BY <2>1, <2>2
<1>1. own = v - f
  BY <1>0
<1>2. /\ v >= 0
      /\ own <= 0 => dst[r] = Joined(found[r].msgs, v)
      /\ own > 0 =>
           /\ IsPrefix(Before(r), dst[r])
           /\ Len(Own(r)) = Smaller(own * TextSz, sent[r])
           /\ \A n \in 1 .. Len(Own(r)) : Own(r)[n] = src[r][n] \/ BehindNUL(src[r], n)
      /\ \A n \in Lasts(r) : v < n
  BY <1>0 DEF InCopy
<1>3. CASE own <= 0
  <2>1. v \in 0 .. f
    BY <1>1, <1>2, <1>3
  <2>2. IsPrefix(dst[r], Before(r)) /\ Own(r) = << >> /\ Len(Own(r)) = 0
    BY <1>0, <1>2, <1>3, <2>1, NothingOwn
  <2>3. 0 <= Len(src[r]) /\ \A n \in 1 .. 0 : FALSE
    BY BlockFacts
  <2>4. QED
    BY <2>2, <2>3 DEF CopyRight
<1>4. CASE own > 0
  <2>1. Lasts(r) = {}
    <3>1. \A n \in Lasts(r) : n \in 1 .. f
      BY <1>0 DEF Lasts
    <3>2. v > f
      BY <1>1, <1>4
    <3>3. QED
      BY <1>2, <3>1, <3>2
  <2>2. Len(Own(r)) <= Len(src[r])
    <3>1. own * TextSz \in Int
      BY TextSzAssumption
    <3>2. PICK x \in Int, y \in Nat, z \in Nat :
            x = own * TextSz /\ y = sent[r] /\ z = Len(src[r]) /\ y <= z
      BY <3>1, BlockFacts
    <3>3. (IF x < y THEN x ELSE y) <= z
      BY <3>2
    <3>4. QED
      BY <1>2, <1>4, <3>2, <3>3 DEF Smaller
  <2>3. QED
    BY <1>2, <1>4, <2>1, <2>2 DEF CopyRight
<1>5. QED
  BY <1>3, <1>4

ActiveRight == \A r \in Runs : Active(r) /\ found[r].alone => CopyRight(r)

LEMMA StreamsCopied ==
  QueueTypeOK /\ (\A s \in Runs : SenderKept(s)) /\ StreamKept => ActiveRight
  BY StreamCopied DEF ActiveRight, StreamKept

(* The last message is an old one, or the one of the run, behind its blocks. *)
LEMMA LastReceived ==
  ASSUME QueueTypeOK, NEW r \in Runs, SenderKept(r), InQueue(r), InCopy(r), RcvLast(r)
  PROVE  /\ IsPrefix(Before(r), dst[r])
         /\ Lasts(r) # {} \/ Len(Own(r)) = Len(src[r]) \/ CutAt(r, Len(Own(r)))
<1>0. PICK v \in Int, f \in Nat, q \in Nat, b \in Nat, l \in Int, own \in Int :
        /\ v = Received(r) /\ f = Len(found[r].msgs) /\ q = Len(queue.msgs)
        /\ b = BlocksSent(r) /\ l = LastSent(r) /\ own = v - f
        /\ v + q = f + b + l
  <2>1. LastSent(r) \in Int
    BY DEF LastSent
  <2>2. PICK v \in Int : v = Received(r) /\ v - Len(found[r].msgs) \in Int
    BY Found, ReceivedIs
  <2>3. /\ Len(found[r].msgs) \in Nat /\ Len(queue.msgs) \in Nat /\ BlocksSent(r) \in Nat
        /\ v + Len(queue.msgs) = Len(found[r].msgs) + BlocksSent(r) + LastSent(r)
    BY <2>2, Found, ReceivedIs
  <2>4. QED
    BY <2>1, <2>2, <2>3
<1>1. v + q = f + b + l /\ own = v - f
  BY <1>0
<1>2. PICK head : /\ head = queue.msgs[1] /\ head.mtype = LAST_MSG_TYPE /\ q >= 1
  <2>1. queue.msgs \in Seq(Message) /\ queue.msgs # << >>
    BY Found DEF RcvLast
  <2>2. Head(queue.msgs) = queue.msgs[1] /\ q >= 1
    BY <1>0, <2>1, HeadTailProperties, EmptySeq
  <2>3. QED
    BY <2>2 DEF RcvLast
<1>3. InStream(found[r].msgs, src[r], b, v + 1, head)
  <2>1. 1 \in 1 .. Len(queue.msgs)
    BY <1>0, <1>2
  <2>2. QED
    BY <1>0, <1>2, <2>1 DEF InQueue
<1>4. PICK next \in Int : next = own + 1 /\ next = (v + 1) - f
  BY <1>1
<1>5. IF next <= 0 THEN head = found[r].msgs[v + 1] ELSE next > b
  <2>1. (v + 1) - Len(found[r].msgs) = next
    BY <1>0, <1>4
  <2>2. ~ IsBlock(src[r], next, head)
    BY <1>2 DEF IsBlock, STD_MSG_TYPE, LAST_MSG_TYPE
  <2>3. IF next <= 0 THEN head = found[r].msgs[v + 1]
        ELSE IF next <= b THEN IsBlock(src[r], next, head)
        ELSE head = LastMessage
    BY <1>3, <2>1, Zenon DEF InStream
  <2>4. QED
    BY <2>2, <2>3
<1>6. /\ v >= 0 /\ own <= b
      /\ own <= 0 => dst[r] = Joined(found[r].msgs, v)
      /\ own > 0 => IsPrefix(Before(r), dst[r]) /\ Len(Own(r)) = Smaller(own * TextSz, sent[r])
      /\ \A n \in Lasts(r) : v < n
  BY <1>0 DEF InCopy
<1>7. CASE next <= 0
  <2>1. v + 1 \in 1 .. f /\ v \in 0 .. f /\ own <= 0
    BY <1>4, <1>6, <1>7
  <2>2. v + 1 \in Lasts(r)
    <3>1. v + 1 \in 1 .. Len(found[r].msgs)
      BY <1>0, <2>1
    <3>2. found[r].msgs[v + 1].mtype = LAST_MSG_TYPE
      BY <1>2, <1>5, <1>7
    <3>3. QED
      BY <3>1, <3>2, Zenon DEF Lasts
  <2>3. \A n \in Lasts(r) : v + 1 <= n
    <3>1. \A n \in Lasts(r) : n \in 1 .. f
      BY <1>0 DEF Lasts
    <3>2. QED
      BY <1>6, <3>1
  <2>4. Usable(r) = v
    <3>1. PICK k \in Lasts(r) : k = v + 1
      BY <2>2
    <3>2. \A n \in Lasts(r) : k <= n
      BY <2>3, <3>1
    <3>3. Usable(r) = k - 1
      BY <3>2, UsableIs
    <3>4. k - 1 = v
      BY <3>1
    <3>5. QED
      BY <3>3, <3>4
  <2>5. dst[r] = Before(r) /\ Before(r) \in Seq(Byte)
    BY <1>6, <2>1, <2>4, UsableIs
  <2>6. IsPrefix(Before(r), dst[r])
    BY <2>5, LenProperties, PrefixAt
  <2>7. QED
    BY <2>2, <2>6
<1>8. CASE ~ (next <= 0)
  <2>1. own = b /\ q = l /\ l >= 1
    BY <1>1, <1>2, <1>4, <1>5, <1>6, <1>8
  <2>2. spc[r] = "done"
    BY <1>0, <2>1 DEF LastSent
  <2>3. sent[r] = Len(src[r]) \/ CutAt(r, sent[r])
    BY <2>2 DEF SenderKept
  <2>4. IsPrefix(Before(r), dst[r]) /\ Len(Own(r)) = sent[r]
    <3>1. CASE own = 0
      <4>1. Received(r) = Len(found[r].msgs)
        <5>1. v = f
          BY <1>1, <3>1
        <5>2. QED
          BY <1>0, <5>1
      <4>2. sent[r] = 0
        BY <1>0, <2>1, <3>1, BlocksAre
      <4>3. QED
        BY <4>1, <4>2, AllFound
    <3>2. CASE own > 0
      <4>1. sent[r] <= b * TextSz /\ sent[r] \in Nat /\ b * TextSz \in Nat
        <5>1. sent[r] <= BlocksSent(r) * TextSz /\ BlocksSent(r) * TextSz \in Nat
          BY BlocksAre, BlockFacts
        <5>2. QED
          BY <1>0, <5>1, BlockFacts
      <4>2. Smaller(b * TextSz, sent[r]) = sent[r]
        BY <4>1 DEF Smaller
      <4>3. QED
        BY <1>6, <2>1, <3>2, <4>2
    <3>3. own >= 0
      BY <1>4, <1>8
    <3>4. QED
      BY <3>1, <3>2, <3>3
  <2>5. QED
    BY <2>3, <2>4
<1>9. QED
  BY <1>7, <1>8

(* A copy grows only while its receiver is at work.                         *)
LEMMA CopyElsewhere ==
  ASSUME QueueTypeOK, NEW r \in Runs, [QueueNext]_queueVars
  PROVE  /\ UNCHANGED <<behind, src>>
         /\ Active(r)' \/ (dst'[r] = dst[r] /\ found'[r] = found[r])
         /\ rpc'[r] = "done" =>
              /\ dst'[r] = dst[r] /\ found'[r] = found[r]
              /\ rpc[r] = "done" \/ (Active(r) /\ RcvLast(r))
<1>1. ASSUME NEW s \in Runs, Start(s)
      PROVE  /\ UNCHANGED <<behind, src, dst>>
             /\ rpc'[r] = "open" \/ (found'[r] = found[r] /\ rpc'[r] = rpc[r])
  BY <1>1 DEF Start, ReceiverGoes, QueueTypeOK
<1>2. ASSUME NEW s \in Runs, Interrupt(s)
      PROVE  /\ UNCHANGED <<behind, src, dst, found>>
             /\ rpc'[r] = "killed" \/ rpc'[r] = rpc[r]
  BY <1>2 DEF Interrupt, QueueTypeOK
<1>3. ASSUME NEW s \in Runs, Sender(s)
      PROVE  UNCHANGED <<behind, src, dst, found, rpc>>
  BY <1>3 DEF Sender, SndOpen, SndBlock, SndLast
<1>4. ASSUME NEW s \in Runs, RcvOpen(s)
      PROVE  /\ UNCHANGED <<behind, src, dst, found>>
             /\ rpc'[r] \in {"receive", "failed", rpc[r]}
  BY <1>4 DEF RcvOpen, ReceiverGoes, QueueTypeOK
<1>5. ASSUME NEW s \in Runs, RcvBlock(s)
      PROVE  /\ UNCHANGED <<behind, src, found, rpc>>
             /\ rpc[r] = "receive" \/ dst'[r] = dst[r]
  BY <1>5 DEF RcvBlock, QueueTypeOK
<1>6. ASSUME NEW s \in Runs, RcvLast(s)
      PROVE  /\ UNCHANGED <<behind, src, dst, found>>
             /\ rpc'[r] = rpc[r] \/ (r = s /\ rpc[r] = "receive")
  BY <1>6 DEF RcvLast, ReceiverGoes, QueueTypeOK
<1>7. ASSUME UNCHANGED queueVars
      PROVE  UNCHANGED <<behind, src, dst, found, rpc>>
  BY <1>7 DEF queueVars
<1>8. QED
  BY <1>1, <1>2, <1>3, <1>4, <1>5, <1>6, <1>7 DEF QueueNext, Receiver, Active

LEMMA CopyKept ==
  /\ QueueTypeOK /\ RunsInTurn /\ (\A s \in Runs : SenderKept(s)) /\ StreamKept /\ CopyExact
  /\ [QueueNext]_queueVars /\ ActiveRight'
  => CopyExact'
<1> SUFFICES ASSUME QueueTypeOK, RunsInTurn, \A s \in Runs : SenderKept(s), StreamKept, CopyExact,
                    [QueueNext]_queueVars, ActiveRight'
             PROVE  CopyExact'
  OBVIOUS
<1>1. \A r \in Runs : found'[r].alone => CopyRight(r)' /\ CopyDone(r)'
  <2>1. SUFFICES ASSUME NEW r \in Runs, found'[r].alone
                 PROVE  CopyRight(r)' /\ CopyDone(r)'
    OBVIOUS
  <2>2. /\ UNCHANGED <<behind, src>>
        /\ Active(r)' \/ (dst'[r] = dst[r] /\ found'[r] = found[r])
        /\ rpc'[r] = "done" =>
             /\ dst'[r] = dst[r] /\ found'[r] = found[r]
             /\ rpc[r] = "done" \/ (Active(r) /\ RcvLast(r))
    BY CopyElsewhere
  <2>3. ASSUME dst'[r] = dst[r], found'[r] = found[r]
        PROVE  /\ CopyRight(r) /\ CopyDone(r)
               /\ CopyRight(r)' /\ Own(r)' = Own(r) /\ Before(r)' = Before(r)
               /\ Lasts(r)' = Lasts(r)
    <3>1. CopyRight(r) /\ CopyDone(r)
      BY <2>1, <2>3, CopyParts
    <3>2. Lasts(r)' = Lasts(r)
      BY <2>3 DEF Lasts
    <3>3. Before(r)' = Before(r)
      BY <2>3, <3>2 DEF Before
    <3>4. Own(r)' = Own(r)
      BY <2>3, <3>3 DEF Own
    <3>5. QED
      BY <2>2, <2>3, <3>1, <3>2, <3>3, <3>4 DEF CopyRight
  <2>4. CopyRight(r)'
    <3>1. CASE Active(r)'
      BY <2>1, <3>1 DEF ActiveRight
    <3>2. QED
      BY <2>2, <2>3, <3>1
  <2>5. CopyDone(r)'
    <3>1. SUFFICES ASSUME rpc'[r] = "done"
                   PROVE  /\ IsPrefix(Before(r)', dst'[r])
                          /\ \/ Lasts(r)' # {} \/ Len(Own(r)') = Len(src'[r])
                             \/ CutAt(r, Len(Own(r)))'
      BY DEF CopyDone
    <3>2. /\ IsPrefix(Before(r), dst[r])
          /\ Lasts(r) # {} \/ Len(Own(r)) = Len(src[r]) \/ CutAt(r, Len(Own(r)))
      <4>1. CASE rpc[r] = "done"
        BY <2>2, <2>3, <3>1, <4>1 DEF CopyDone
      <4>2. CASE Active(r) /\ RcvLast(r)
        <5>1. InQueue(r) /\ InCopy(r)
          BY <2>1, <2>2, <3>1, <4>2 DEF StreamKept
        <5>2. QED
          BY <4>2, <5>1, LastReceived
      <4>3. QED
        BY <2>2, <3>1, <4>1, <4>2
    <3>3. QED
      BY <2>2, <2>3, <3>1, <3>2 DEF CutAt
  <2>6. QED
    BY <2>4, <2>5
<1>2. QED
  BY <1>1 DEF CopyExact, CopyRight, CopyDone

(***************************************************************************)
(* The beginning.                                                          *)
(***************************************************************************)
LEMMA InitTurns == QueueInit => RunsInTurn /\ (\A r \in Runs : SenderKept(r)) /\ StreamKept
<1> SUFFICES ASSUME QueueInit PROVE RunsInTurn /\ (\A r \in Runs : SenderKept(r)) /\ StreamKept
  OBVIOUS
<1>1. \A r \in Runs : /\ rpc[r] = "idle" /\ spc[r] = "idle" /\ dst[r] = << >> /\ sent[r] = 0
                      /\ buf[r] = [n \in 1 .. TextSz |-> NUL]
  BY DEF QueueInit
<1>2. \A r \in Runs : ~ Active(r)
  BY <1>1 DEF Active
<1>3. 0 % TextSz = 0
  <2>1. 0 * TextSz = 0
    BY TextSzAssumption
  <2>2. QED
    BY <2>1, BlocksOf
<1>4. RunsInTurn
  BY <1>1, <1>2 DEF RunsInTurn
<1>5. \A r \in Runs : SenderKept(r)
  BY <1>1, <1>3 DEF SenderKept
<1>6. StreamKept
  BY <1>2 DEF StreamKept
<1>7. QED
  BY <1>4, <1>5, <1>6

LEMMA InitCopies == QueueInit => CopyExact
<1> SUFFICES ASSUME QueueInit, NEW r \in Runs PROVE CopyRight(r) /\ CopyDone(r)
  BY CopyParts
<1>1. QueueTypeOK
  BY InitTypes
<1>2. dst[r] = << >> /\ Len(found[r].msgs) = 0 /\ rpc[r] = "idle"
  BY EmptySeq DEF QueueInit
<1>3. Lasts(r) = {}
  BY <1>2 DEF Lasts
<1>4. 0 \in 0 .. Len(found[r].msgs) /\ dst[r] = Joined(found[r].msgs, 0)
  BY <1>2, JoinedNothing
<1>5. IsPrefix(dst[r], Before(r)) /\ Own(r) = << >> /\ Len(Own(r)) = 0
  BY <1>1, <1>3, <1>4, NothingOwn
<1>6. 0 <= Len(src[r])
  BY <1>1, BlockFacts
<1>7. QED
  BY <1>2, <1>5, <1>6 DEF CopyRight, CopyDone

(***************************************************************************)
(* Theorems.                                                               *)
(***************************************************************************)

(* What the receivers and senders of all the runs keep between them, and    *)
(* the stream of every run that has the queue for itself.                   *)
THEOREM QueueInvariantHolds == QueueSpec => []QueueInv
<1> DEFINE Kept == QueueTypeOK /\ RunsInTurn /\ (\A r \in Runs : SenderKept(r)) /\ StreamKept
<1>1. QueueInit => Kept /\ CopyExact
  BY InitTypes, InitTurns, InitCopies
<1>2. Kept /\ [QueueNext]_queueVars => Kept'
  BY TypesKept, TurnKept, SendersKept, StreamsKept
<1>3. Kept => ActiveRight
  BY StreamsCopied
<1>4. Kept /\ CopyExact /\ [QueueNext]_queueVars /\ ActiveRight' => CopyExact'
  BY CopyKept
<1>5. Kept /\ CopyExact => QueueInv
  BY DEF QueueInv, Inv
<1> HIDE DEF Kept
<1>6. QED
  BY <1>1, <1>2, <1>3, <1>4, <1>5, PTL DEF QueueSpec

(* A run to whose queue no other sender sends makes a copy of the file      *)
(* behind what it found in the queue, whole but for a block without NUL     *)
(* that the sender takes for the end of the file, and exact but behind a    *)
(* NUL (send and receive).                                                  *)
THEOREM CopiesExact == QueueSpec => []Inv
<1>1. QueueInv => Inv
  BY DEF QueueInv
<1>2. QED
  BY <1>1, QueueInvariantHolds, PTL
=============================================================================
