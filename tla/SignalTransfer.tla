--------------------------- MODULE SignalTransfer ---------------------------
(***************************************************************************)
(* task5/sig-transf: the child sends a file to its parent bit by bit,      *)
(* SIGUSR1 for a one and SIGUSR2 for a zero, and waits for the SIGUSR1 the *)
(* parent's handler answers each bit with.  Its exit is the end of file:   *)
(* the parent exits in its SIGCHLD handler.                                *)
(*                                                                         *)
(* SIGUSR1, SIGUSR2 and SIGCHLD are blocked except in sigsuspend, and a    *)
(* handler blocks everything, so a sigsuspend delivers one signal.  A      *)
(* pending signal is not queued twice.  When several are pending any of    *)
(* them may come first (POSIX leaves it open).                             *)
(***************************************************************************)
EXTENDS Integers, Sequences

CONSTANTS
  Sources,   \* the contents the source file may have
  TopBit     \* the highest bit of a byte, 128 in the source

ASSUME TopBitAssumption == TopBit \in {1, 2, 4, 8, 16, 32, 64, 128}
ASSUME SourcesAssumption == Sources \subseteq Seq(0 .. (2 * TopBit - 1))

VARIABLES
  src,       \* the source file
  dst,       \* the destination file
  cpc,       \* where the child is
  offset,    \* the bytes the child has read
  c,         \* the byte it is sending
  i,         \* the bit it is sending
  alarm,     \* its alarm is set
  cpending,  \* the signals pending for the child
  ppc,       \* where the parent is
  fout,      \* the parent's fopen succeeded
  counter,   \* the parent's next bit
  out_char,  \* the bits of the byte it is receiving
  ppending,  \* the signals pending for the parent
  timedout   \* history: the child was ended by SIGALRM

child == <<cpc, offset, c, i, alarm>>
parent == <<ppc, fout, counter, out_char>>
vars == <<src, dst, child, cpending, parent, ppending, timedout>>

Byte == 0 .. (2 * TopBit - 1)
Bits == { b \in {1, 2, 4, 8, 16, 32, 64, 128} : b <= TopBit }
ChildPC == {"open", "read", "send", "suspend", "exited"}
ParentPC == {"open", "loop", "suspend", "exited", "crashed"}

(* The state at the fork.                                                   *)
Init ==
  /\ src \in Sources
  /\ dst = << >>
  /\ cpc = "open"
  /\ offset = 0
  /\ c = 0
  /\ i = TopBit
  /\ alarm = FALSE
  /\ cpending = {}
  /\ ppc = "open"
  /\ fout = TRUE
  /\ counter = TopBit
  /\ out_char = 0
  /\ ppending = {}
  /\ timedout = FALSE

(* kill(): a signal to a process that has ended is lost.                    *)
KillParent(signal) ==
  ppending' = IF ppc \in {"exited", "crashed"} THEN ppending
              ELSE ppending \union {signal}
KillChild(signal) ==
  cpending' = IF cpc = "exited" THEN cpending ELSE cpending \union {signal}

(***************************************************************************)
(* The child.                                                              *)
(***************************************************************************)
ChildGoes(from, to) == cpc = from /\ cpc' = to

ChildEnds == cpc' = "exited" /\ KillParent("CHLD")

ChildOpen ==
  /\ ChildGoes("open", "read")
  /\ UNCHANGED <<src, dst, offset, c, i, alarm, cpending, parent, ppending,
                 timedout>>

(* open fails, exit(EXIT_FAILURE).                                          *)
ChildOpenFails ==
  /\ cpc = "open"
  /\ ChildEnds
  /\ UNCHANGED <<src, dst, offset, c, i, alarm, cpending, parent, timedout>>

(* Mutant: the alarm is not set.                                            *)
ChildReadUnarmed ==
  /\ ChildGoes("read", "send")
  /\ offset < Len(src)
  /\ offset' = offset + 1
  /\ c' = src[offset + 1]
  /\ i' = TopBit
  /\ UNCHANGED <<src, dst, alarm, cpending, parent, ppending, timedout>>

ChildRead ==
  /\ ChildGoes("read", "send")
  /\ offset < Len(src)
  /\ offset' = offset + 1
  /\ c' = src[offset + 1]
  /\ i' = TopBit
  /\ alarm' = TRUE
  /\ UNCHANGED <<src, dst, cpending, parent, ppending, timedout>>

(* read returns 0, exit(EXIT_SUCCESS).                                      *)
ChildEOF ==
  /\ cpc = "read"
  /\ offset = Len(src)
  /\ ChildEnds
  /\ UNCHANGED <<src, dst, offset, c, i, alarm, cpending, parent, timedout>>

(* The test i & c.                                                          *)
BitSet == (c \div i) % 2 = 1

(* Mutant: the next bit is sent without waiting for the acknowledgement.    *)
ChildSendOn ==
  /\ ChildGoes("send", IF i \div 2 >= 1 THEN "send" ELSE "read")
  /\ KillParent(IF BitSet THEN "USR1" ELSE "USR2")
  /\ i' = i \div 2
  /\ UNCHANGED <<src, dst, offset, c, alarm, cpending, parent, timedout>>

ChildSend ==
  /\ ChildGoes("send", "suspend")
  /\ KillParent(IF BitSet THEN "USR1" ELSE "USR2")
  /\ UNCHANGED <<src, dst, offset, c, i, alarm, cpending, parent, timedout>>

(* sigsuspend returns after the acknowledgement.                            *)
ChildAck ==
  /\ ChildGoes("suspend", IF i \div 2 >= 1 THEN "send" ELSE "read")
  /\ "USR1" \in cpending
  /\ cpending' = cpending \ {"USR1"}
  /\ i' = i \div 2
  /\ UNCHANGED <<src, dst, offset, c, alarm, parent, ppending, timedout>>

(* SIGALRM, a second after alarm(1): parentexit.  Whether it is blocked     *)
(* outside sigsuspend depends on a set main() has not initialised; the      *)
(* build that does not block it has the behaviours of the one that does.    *)
ChildAlarm ==
  /\ cpc # "exited"
  /\ alarm
  /\ ChildEnds
  /\ timedout' = TRUE
  /\ UNCHANGED <<src, dst, offset, c, i, alarm, cpending, parent>>

(***************************************************************************)
(* The parent.                                                             *)
(***************************************************************************)
ParentOpen ==
  /\ ppc = "open"
  /\ ppc' = "loop"
  /\ fout' \in BOOLEAN
  /\ UNCHANGED <<src, dst, child, cpending, counter, out_char, ppending,
                 timedout>>

(* A whole byte is written before the parent suspends itself again.         *)
ParentWrite ==
  /\ ppc = "loop"
  /\ counter = 0
  /\ fout
  /\ ppc' = "suspend"
  /\ dst' = Append(dst, out_char)
  /\ counter' = TopBit
  /\ out_char' = 0
  /\ UNCHANGED <<src, child, cpending, fout, ppending, timedout>>

(* fileno(NULL): fopen has failed and nobody has looked.                    *)
ParentCrash ==
  /\ ppc = "loop"
  /\ counter = 0
  /\ ~ fout
  /\ ppc' = "crashed"
  /\ UNCHANGED <<src, dst, child, cpending, fout, counter, out_char, ppending,
                 timedout>>

ParentSuspend ==
  /\ ppc = "loop"
  /\ counter # 0
  /\ ppc' = "suspend"
  /\ UNCHANGED <<src, dst, child, cpending, fout, counter, out_char, ppending,
                 timedout>>

(* A pending signal is delivered to the suspended parent.                   *)
Delivered(signal) ==
  /\ ppc = "suspend"
  /\ signal \in ppending
  /\ ppending' = ppending \ {signal}

GotOne ==
  /\ Delivered("USR1")
  /\ out_char' = out_char + counter
  /\ counter' = counter \div 2
  /\ KillChild("USR1")
  /\ ppc' = "loop"
  /\ UNCHANGED <<src, dst, child, fout, timedout>>

GotZero ==
  /\ Delivered("USR2")
  /\ counter' = counter \div 2
  /\ KillChild("USR1")
  /\ ppc' = "loop"
  /\ UNCHANGED <<src, dst, child, fout, out_char, timedout>>

(* Mutant: SIGCHLD is not blocked between two suspensions.                  *)
childexit_unblocked ==
  /\ ppc \in {"loop", "suspend"}
  /\ "CHLD" \in ppending
  /\ ppending' = ppending \ {"CHLD"}
  /\ ppc' = "exited"
  /\ UNCHANGED <<src, dst, child, cpending, fout, counter, out_char, timedout>>

(* SIGCHLD, in whose handler the parent exits with EXIT_SUCCESS.            *)
childexit ==
  /\ Delivered("CHLD")
  /\ ppc' = "exited"
  /\ UNCHANGED <<src, dst, child, cpending, fout, counter, out_char, timedout>>

(***************************************************************************)
(* The specification: both processes are scheduled again and again, and a  *)
(* child that keeps waiting is reached by its alarm.                       *)
(***************************************************************************)
Child == ChildOpen \/ ChildOpenFails \/ ChildRead \/ ChildEOF \/ ChildSend
           \/ ChildAck
Parent == ParentOpen \/ ParentWrite \/ ParentCrash \/ ParentSuspend \/ GotOne
            \/ GotZero \/ childexit

Next == Child \/ ChildAlarm \/ Parent

Spec == Init /\ [][Next]_vars

FairSpec == Spec /\ WF_vars(Child) /\ WF_vars(ChildAlarm) /\ WF_vars(Parent)

(***************************************************************************)
(* Properties.                                                             *)
(***************************************************************************)

(* The types: the received bits fit in a byte (GotOne) and the two counters *)
(* of bits hold a bit or have run out.                                      *)
TypeOK ==
  /\ src \in Sources
  /\ dst \in Seq(Byte)
  /\ cpc \in ChildPC
  /\ offset \in 0 .. Len(src)
  /\ c \in Byte
  /\ i \in Bits \union {0}
  /\ alarm \in BOOLEAN
  /\ cpending \subseteq {"USR1"}
  /\ ppc \in ParentPC
  /\ fout \in BOOLEAN
  /\ counter \in Bits \union {0}
  /\ out_char \in Byte
  /\ ppending \subseteq {"USR1", "USR2", "CHLD"}
  /\ timedout \in BOOLEAN

(* Signals are not counted by the kernel, so the protocol must never have   *)
(* two on the way: one bit or one acknowledgement, and none while the child *)
(* is about to send.                                                        *)
OneSignalInFlight ==
  /\ ~ {"USR1", "USR2"} \subseteq ppending
  /\ cpending # {} => ppending \subseteq {"CHLD"}
  /\ cpc = "send" => cpending = {} /\ ppending = {}

(* The part of it that is inductive: but for the suspended child nobody has *)
(* a signal on the way, and SIGCHLD comes from a child that has ended.      *)
SignalsKept ==
  /\ cpc \in ChildPC
  /\ OneSignalInFlight
  /\ cpending \subseteq {"USR1"}
  /\ cpc \in {"open", "read"} => cpending = {} /\ ppending = {}
  /\ cpc # "exited" => "CHLD" \notin ppending
  /\ ppending \subseteq {"USR1", "USR2", "CHLD"}

(* The parent reassembles the file: dst is a prefix of src, whenever the    *)
(* alarm may have ended the child.  The acknowledgement of the last bit     *)
(* leaves the parent's handler before the byte is written, and the child    *)
(* may exit at once: SIGCHLD must not end the parent before the write.      *)
(* Without a timeout and with both files open the copy is complete.         *)
PrefixOK ==
  /\ Len(dst) <= Len(src)
  /\ \A n \in 1 .. Len(dst) : dst[n] = src[n]

CompleteUnlessTimeout ==
  /\ TypeOK
  /\ PrefixOK
  /\ ppc = "exited" /\ ~ timedout /\ offset > 0 => dst = src

(***************************************************************************)
(* The inductive invariant behind it.  Bit b of byte o is the next one the *)
(* parent needs; a byte that is complete may still have to be written.     *)
(***************************************************************************)
Needs(o, b) ==
  \/ Len(dst) = o - 1 /\ counter = b
  \/ /\ Len(dst) = o - 2 /\ counter = 0 /\ b = TopBit
     /\ ppc \in {"loop", "crashed"}

NeedsNext == IF i \div 2 >= 1 THEN Needs(offset, i \div 2)
                              ELSE Needs(offset + 1, TopBit)

(* Where the child is, and what is on the way from it and to it.            *)
ChildPlace ==
  /\ cpc = "open" => offset = 0
  /\ cpc \in {"open", "read"} => Needs(offset + 1, TopBit)
  /\ cpc \in {"send", "suspend"} => offset >= 1 /\ i # 0 /\ c = src[offset]
  /\ cpc = "send" => Needs(offset, i)

BitPending == "USR1" \in ppending \/ "USR2" \in ppending

BitRight ==
  BitPending =>
    /\ cpc \in {"suspend", "exited"}
    /\ offset >= 1 /\ i # 0 /\ c = src[offset]
    /\ Needs(offset, i)
    /\ "USR1" \in ppending <=> BitSet

AckRight == cpending # {} /\ cpc = "suspend" => NeedsNext

(* The bits that the parent has of a byte are those above its counter.      *)
Above(x, b) == IF b = 0 THEN x ELSE x - (x % (2 * b))

HalfByte ==
  /\ counter = TopBit => out_char = 0
  /\ counter # TopBit =>
       Len(dst) < Len(src) /\ out_char = Above(src[Len(dst) + 1], counter)
  /\ ppc \in {"open", "suspend", "exited"} => counter # 0

EndOfFile ==
  cpc = "exited" /\ ~ timedout /\ offset > 0 =>
    offset = Len(src) /\ Needs(offset + 1, TopBit) /\ ~ BitPending

ParentLast == ppc = "exited" => cpc = "exited"

IInv ==
  /\ TypeOK
  /\ PrefixOK
  /\ SignalsKept
  /\ ChildPlace
  /\ BitRight
  /\ AckRight
  /\ HalfByte
  /\ EndOfFile
  /\ ParentLast

(* Neither process waits for ever, not even for one that has crashed.       *)
BothEnd == <>(cpc = "exited" /\ ppc \in {"exited", "crashed"})
=============================================================================
