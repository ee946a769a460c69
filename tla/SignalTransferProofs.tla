------------------------ MODULE SignalTransferProofs ------------------------
(***************************************************************************)
(* Proofs about SignalTransfer, for every width of a byte and every source. *)
(***************************************************************************)
EXTENDS SignalTransfer, TLAPS

LEMMA InitSignalsKept == Init => SignalsKept
BY DEF Init, SignalsKept, OneSignalInFlight, ChildPC

(* A child that sends has nothing on the way, and one that ends leaves at   *)
(* most the bit or the acknowledgement it was waiting with.                 *)
LEMMA ChildKeeps == SignalsKept /\ (Child \/ ChildAlarm) => SignalsKept'
<1> SUFFICES ASSUME SignalsKept, Child \/ ChildAlarm PROVE SignalsKept'
  OBVIOUS
<1> USE DEF SignalsKept, OneSignalInFlight, ChildPC
<1>1. CASE ChildOpen
  BY <1>1 DEF ChildOpen, ChildGoes
<1>2. CASE ChildRead
  BY <1>2 DEF ChildRead, ChildGoes
<1>3. CASE ChildSend
  BY <1>3 DEF ChildSend, ChildGoes, KillParent
<1>4. CASE ChildAck
  BY <1>4 DEF ChildAck, ChildGoes
<1>5. CASE ChildOpenFails \/ ChildEOF \/ ChildAlarm
  BY <1>5 DEF ChildOpenFails, ChildEOF, ChildAlarm, ChildEnds, KillParent
<1>6. QED
  BY <1>1, <1>2, <1>3, <1>4, <1>5 DEF Child

(* The parent turns the one bit into the one acknowledgement.               *)
LEMMA ParentKeeps == SignalsKept /\ Parent => SignalsKept'
<1> SUFFICES ASSUME SignalsKept, Parent PROVE SignalsKept'
  OBVIOUS
<1> USE DEF SignalsKept, OneSignalInFlight, ChildPC
<1>1. CASE ParentOpen \/ ParentWrite \/ ParentCrash \/ ParentSuspend
  BY <1>1 DEF ParentOpen, ParentWrite, ParentCrash, ParentSuspend, child
<1>2. CASE GotOne
  BY <1>2 DEF GotOne, Delivered, KillChild, child
<1>3. CASE GotZero
  BY <1>3 DEF GotZero, Delivered, KillChild, child
<1>4. CASE childexit
  BY <1>4 DEF childexit, Delivered, child
<1>5. QED
  BY <1>1, <1>2, <1>3, <1>4 DEF Parent

(* Signals are not counted by the kernel; the protocol never has two on the *)
(* way (st_main.c).                                                         *)
THEOREM SignalsNeverMerge == Spec => []OneSignalInFlight
<1>1. SignalsKept /\ [Next]_vars => SignalsKept'
  <2>1. SignalsKept /\ UNCHANGED vars => SignalsKept'
    BY DEF SignalsKept, OneSignalInFlight, vars, child
  <2>2. QED
    BY <2>1, ChildKeeps, ParentKeeps DEF Next
<1>2. SignalsKept => OneSignalInFlight
  BY DEF SignalsKept
<1>3. QED
  BY <1>1, <1>2, InitSignalsKept, PTL DEF Spec

(***************************************************************************)
(* Arithmetic of the bits of a byte.                                       *)
(***************************************************************************)
LEMMA Powers ==
  ASSUME NEW b \in Bits
  PROVE  /\ b \in 1 .. TopBit
         /\ TopBit \in Bits /\ TopBit \in Nat
         /\ IF b = 1 THEN b \div 2 = 0 /\ ~ (b \div 2 >= 1)
                     ELSE /\ b \div 2 >= 1 /\ b \div 2 \in Bits
                          /\ 2 * (b \div 2) = b /\ b \div 2 < b
  BY TopBitAssumption DEF Bits

(* Whether bit b is set is all that the bits above the next one add.        *)
LEMMA NextBit ==
  ASSUME NEW x \in Nat, NEW b \in Bits
  PROVE  Above(x, b \div 2) =
           IF (x \div b) % 2 = 1 THEN Above(x, b) + b ELSE Above(x, b)
<1>1. CASE b = 1
  BY <1>1 DEF Above
<1>2. CASE b = 2
  BY <1>2 DEF Above
<1>3. CASE b = 4
  BY <1>3 DEF Above
<1>4. CASE b = 8
  BY <1>4 DEF Above
<1>5. CASE b = 16
  BY <1>5 DEF Above
<1>6. CASE b = 32
  BY <1>6 DEF Above
<1>7. CASE b = 64
  BY <1>7 DEF Above
<1>8. CASE b = 128
  BY <1>8 DEF Above
<1>9. QED
  BY <1>1, <1>2, <1>3, <1>4, <1>5, <1>6, <1>7, <1>8 DEF Bits

LEMMA AboveRange ==
  ASSUME NEW x \in Byte
  PROVE  /\ x \in Nat
         /\ Above(x, TopBit) = 0 /\ Above(x, 0) = x
         /\ \A b \in Bits : Above(x, b) \in 0 .. x
<1>1. x \in Nat /\ x < 2 * TopBit /\ TopBit \in Nat /\ TopBit > 0
  BY TopBitAssumption DEF Byte
<1>2. x % (2 * TopBit) = x
  BY <1>1, TopBitAssumption
<1>3. ASSUME NEW b \in Bits PROVE Above(x, b) \in 0 .. x
  BY <1>1, <1>3 DEF Above, Bits
<1>4. QED
  BY <1>1, <1>2, <1>3 DEF Above

(***************************************************************************)
(* The steps, for the invariant.                                           *)
(***************************************************************************)
LEMMA SourceBytes ==
  ASSUME TypeOK
  PROVE  /\ src \in Seq(Byte) /\ Len(src) \in Nat
         /\ \A n \in 1 .. Len(src) : src[n] \in Byte
         /\ dst \in Seq(Byte) /\ Len(dst) \in Nat
         /\ offset \in Nat
<1>1. src \in Seq(Byte) /\ dst \in Seq(Byte)
  BY SourcesAssumption DEF TypeOK, Byte
<1>2. QED
  BY <1>1 DEF TypeOK

LEMMA InitIInv == Init => IInv
<1> SUFFICES ASSUME Init PROVE IInv
  OBVIOUS
<1>1. TopBit \in Bits /\ TopBit \in Nat /\ TopBit > 0
  BY TopBitAssumption DEF Bits
<1>2. TypeOK
  <2>1. src \in Seq(Byte)
    BY SourcesAssumption DEF Init, Byte
  <2>2. Len(src) \in Nat
    BY <2>1
  <2>3. 0 \in Byte
    BY <1>1 DEF Byte
  <2>4. << >> \in Seq(Byte) /\ 0 \in 0 .. Len(src)
    BY <2>2
  <2>5. QED
    BY <1>1, <2>3, <2>4 DEF Init, TypeOK, ChildPC, ParentPC
<1>3. Len(src) \in Nat
  BY <1>2, SourceBytes
<1>4. QED
  BY <1>1, <1>2, <1>3, InitSignalsKept
     DEF Init, IInv, PrefixOK, ChildPlace, Needs, BitRight, BitPending,
         AckRight, HalfByte, EndOfFile, ParentLast

(* The child's steps leave what the parent has.                             *)
LEMMA ChildKeepsCopy ==
  ASSUME IInv, Child \/ ChildAlarm
  PROVE  /\ UNCHANGED <<src, dst, ppc, fout, counter, out_char>>
         /\ PrefixOK' /\ HalfByte'
         /\ \A o, b : Needs(o, b)' <=> Needs(o, b)
<1>1. UNCHANGED <<src, dst, ppc, fout, counter, out_char>>
  BY DEF Child, ChildOpen, ChildOpenFails, ChildRead, ChildEOF, ChildSend,
         ChildAck, ChildAlarm, parent
<1>2. QED
  BY <1>1 DEF IInv, PrefixOK, HalfByte, Above, Needs

LEMMA ChildOpenKeeps ==
  ASSUME IInv, ChildOpen
  PROVE  IInv'
<1>1. Child
  BY DEF Child
<1>2. SignalsKept' /\ PrefixOK' /\ HalfByte'
  BY <1>1, ChildKeeps, ChildKeepsCopy DEF IInv
<1>3. \A o, b : Needs(o, b)' <=> Needs(o, b)
  BY <1>1, ChildKeepsCopy
<1>4. TypeOK'
  BY DEF ChildOpen, ChildGoes, IInv, TypeOK, ChildPC, parent
<1>5. ChildPlace' /\ AckRight' /\ EndOfFile' /\ ParentLast'
  BY <1>3 DEF ChildOpen, ChildGoes, IInv, ChildPlace, AckRight, EndOfFile,
              ParentLast, SignalsKept, parent
<1>6. BitRight'
  BY DEF ChildOpen, ChildGoes, IInv, BitRight, BitPending, SignalsKept
<1>7. QED
  BY <1>2, <1>4, <1>5, <1>6 DEF IInv

LEMMA ChildReadKeeps ==
  ASSUME IInv, ChildRead
  PROVE  IInv'
<1>1. Child
  BY DEF Child
<1>2. SignalsKept' /\ PrefixOK' /\ HalfByte'
  BY <1>1, ChildKeeps, ChildKeepsCopy DEF IInv
<1>3. \A o, b : Needs(o, b)' <=> Needs(o, b)
  BY <1>1, ChildKeepsCopy
<1>4. /\ TypeOK /\ cpc = "read" /\ cpc' = "send" /\ cpending = {} /\ ppending = {}
      /\ cpending' = {} /\ ppending' = {}
      /\ offset' = offset + 1 /\ c' = src[offset + 1] /\ i' = TopBit
      /\ offset < Len(src) /\ offset \in Nat /\ Len(src) \in Nat
      /\ src[offset + 1] \in Byte
      /\ Needs(offset + 1, TopBit)
      /\ TopBit \in Bits /\ TopBit # 0
      /\ UNCHANGED <<src, dst, cpending, parent, ppending, timedout>>
  <2>1. TypeOK /\ cpc = "read" /\ offset < Len(src)
    BY DEF ChildRead, ChildGoes, IInv
  <2>2. offset + 1 \in 1 .. Len(src)
    BY <2>1, SourceBytes
  <2>3. TopBit \in Bits /\ TopBit # 0
    BY TopBitAssumption DEF Bits
  <2>4. QED
    BY <2>1, <2>2, <2>3, SourceBytes
       DEF ChildRead, ChildGoes, IInv, ChildPlace, SignalsKept
<1>5. TypeOK'
  BY <1>4 DEF ChildRead, TypeOK, ChildPC, parent
<1>6. ChildPlace'
  BY <1>3, <1>4 DEF ChildPlace
<1>7. BitRight' /\ AckRight' /\ EndOfFile' /\ ParentLast'
  BY <1>4 DEF IInv, BitRight, BitPending, AckRight, EndOfFile, ParentLast, parent
<1>8. QED
  BY <1>2, <1>5, <1>6, <1>7 DEF IInv

LEMMA ChildSendKeeps ==
  ASSUME IInv, ChildSend
  PROVE  IInv'
<1>1. Child
  BY DEF Child
<1>2. SignalsKept' /\ PrefixOK' /\ HalfByte'
  BY <1>1, ChildKeeps, ChildKeepsCopy DEF IInv
<1>3. \A o, b : Needs(o, b)' <=> Needs(o, b)
  BY <1>1, ChildKeepsCopy
<1>4. /\ cpc = "send" /\ cpc' = "suspend" /\ cpending = {} /\ ppending = {}
      /\ ppending' \in { {}, {IF BitSet THEN "USR1" ELSE "USR2"} }
      /\ UNCHANGED <<src, dst, offset, c, i, alarm, cpending, parent, timedout>>
  BY DEF ChildSend, ChildGoes, KillParent, IInv, SignalsKept, OneSignalInFlight
<1>5. TypeOK'
  BY <1>4 DEF IInv, TypeOK, ChildPC, parent
<1>6. ChildPlace'
  BY <1>3, <1>4 DEF IInv, ChildPlace
<1>7. BitRight'
  BY <1>3, <1>4 DEF IInv, ChildPlace, BitRight, BitPending, BitSet
<1>8. AckRight' /\ EndOfFile' /\ ParentLast'
  BY <1>4 DEF IInv, AckRight, EndOfFile, ParentLast, parent
<1>9. QED
  BY <1>2, <1>5, <1>6, <1>7, <1>8 DEF IInv

LEMMA ChildAckKeeps ==
  ASSUME IInv, ChildAck
  PROVE  IInv'
<1>1. Child
  BY DEF Child
<1>2. SignalsKept' /\ PrefixOK' /\ HalfByte'
  BY <1>1, ChildKeeps, ChildKeepsCopy DEF IInv
<1>3. \A o, b : Needs(o, b)' <=> Needs(o, b)
  BY <1>1, ChildKeepsCopy
<1>4. /\ cpc = "suspend" /\ cpc' = IF i \div 2 >= 1 THEN "send" ELSE "read"
      /\ cpending # {} /\ cpending' = {} /\ i' = i \div 2
      /\ UNCHANGED <<src, dst, offset, c, alarm, parent, ppending, timedout>>
  BY DEF ChildAck, ChildGoes, IInv, TypeOK
<1>5. /\ i \in Bits /\ offset >= 1 /\ c = src[offset] /\ NeedsNext
      /\ ~ BitPending
  BY <1>4 DEF IInv, TypeOK, ChildPlace, AckRight, SignalsKept,
              OneSignalInFlight, BitPending
<1>6. i \div 2 \in Bits \union {0} /\ (i \div 2 >= 1 => i \div 2 # 0)
  BY <1>5, Powers
<1>7. TypeOK'
  BY <1>4, <1>6 DEF IInv, TypeOK, ChildPC, parent
<1>8. ChildPlace'
  BY <1>3, <1>4, <1>5, <1>6 DEF ChildPlace, NeedsNext
<1>9. BitRight' /\ AckRight' /\ EndOfFile' /\ ParentLast'
  BY <1>4, <1>5 DEF IInv, BitRight, BitPending, AckRight, EndOfFile, ParentLast,
                    parent
<1>10. QED
  BY <1>2, <1>7, <1>8, <1>9 DEF IInv

(* However the child ends, what it has sent stays right.                    *)
LEMMA ChildEndsKeeps ==
  ASSUME IInv, ChildOpenFails \/ ChildEOF \/ ChildAlarm
  PROVE  IInv'
<1>1. Child \/ ChildAlarm
  BY DEF Child
<1>2. SignalsKept' /\ PrefixOK' /\ HalfByte'
  BY <1>1, ChildKeeps, ChildKeepsCopy DEF IInv
<1>3. \A o, b : Needs(o, b)' <=> Needs(o, b)
  BY <1>1, ChildKeepsCopy
<1>4. /\ cpc # "exited" /\ cpc' = "exited"
      /\ ppending' \in {ppending, ppending \union {"CHLD"}}
      /\ UNCHANGED <<src, dst, offset, c, i, alarm, cpending, parent>>
  BY DEF ChildOpenFails, ChildEOF, ChildAlarm, ChildEnds, KillParent
<1>5. timedout' \in {timedout, TRUE}
  BY DEF ChildOpenFails, ChildEOF, ChildAlarm
<1>6. TypeOK'
  BY <1>4, <1>5 DEF IInv, TypeOK, ChildPC, parent
<1>7. ChildPlace' /\ AckRight' /\ ParentLast'
  BY <1>4 DEF ChildPlace, AckRight, ParentLast
<1>8. BitPending' <=> BitPending
  BY <1>4 DEF BitPending
<1>9. BitRight'
  BY <1>3, <1>4, <1>8 DEF IInv, BitRight, BitSet
<1>10. EndOfFile'
  <2>1. CASE ChildAlarm
    BY <2>1 DEF ChildAlarm, EndOfFile
  <2>2. CASE ChildOpenFails
    BY <2>2, <1>4 DEF ChildOpenFails, EndOfFile, IInv, ChildPlace
  <2>3. CASE ChildEOF
    BY <2>3, <1>3, <1>4, <1>8
       DEF ChildEOF, EndOfFile, IInv, ChildPlace, BitRight
  <2>4. QED
    BY <2>1, <2>2, <2>3
<1>11. QED
  BY <1>2, <1>6, <1>7, <1>9, <1>10 DEF IInv

(* The parent's steps leave the child where it is.                          *)
LEMMA ParentKeepsChild ==
  ASSUME IInv, Parent
  PROVE  UNCHANGED <<src, child, timedout>>
  BY DEF Parent, ParentOpen, ParentWrite, ParentCrash, ParentSuspend, GotOne,
         GotZero, childexit, child

(* A step of the parent that takes no bit and writes no byte.               *)
LEMMA QuietKeeps ==
  ASSUME IInv, Parent, UNCHANGED <<dst, counter, out_char, cpending>>,
         ppending' \in {ppending, ppending \ {"CHLD"}},
         fout' \in BOOLEAN, ppc' \in ParentPC,
         ppc' \in {"open", "suspend", "exited"} => counter # 0,
         ppc \in {"loop", "crashed"} /\ counter = 0 => ppc' \in {"loop", "crashed"},
         ppc' = "exited" => ppc = "exited" \/ "CHLD" \in ppending
  PROVE  IInv'
<1>1. UNCHANGED <<src, cpc, offset, c, i, alarm, timedout>> /\ SignalsKept'
  BY ParentKeepsChild, ParentKeeps DEF child, IInv
<1>2. \A o, b : Needs(o, b) => Needs(o, b)'
  BY DEF Needs
<1>3. BitPending' <=> BitPending
  BY DEF BitPending
<1>4. TypeOK' /\ PrefixOK'
  BY <1>1 DEF IInv, TypeOK, PrefixOK
<1>5. ChildPlace' /\ AckRight' /\ EndOfFile'
  BY <1>1, <1>2, <1>3
     DEF IInv, ChildPlace, AckRight, NeedsNext, EndOfFile
<1>6. BitRight'
  BY <1>1, <1>2, <1>3 DEF IInv, BitRight, BitSet
<1>7. HalfByte'
  BY <1>1 DEF IInv, HalfByte, Above
<1>8. ParentLast'
  BY <1>1 DEF IInv, ParentLast, SignalsKept
<1>9. QED
  BY <1>1, <1>4, <1>5, <1>6, <1>7, <1>8 DEF IInv

LEMMA ParentGoesKeeps ==
  ASSUME IInv, ParentOpen \/ ParentCrash \/ ParentSuspend \/ childexit
  PROVE  IInv'
<1>1. TypeOK /\ HalfByte /\ Parent
  BY DEF IInv, Parent
<1>2. QED
  BY <1>1, QuietKeeps
     DEF ParentOpen, ParentCrash, ParentSuspend, childexit, Delivered, child,
         TypeOK, HalfByte, ParentPC

LEMMA ParentWriteKeeps ==
  ASSUME IInv, ParentWrite
  PROVE  IInv'
<1>1. /\ UNCHANGED <<src, cpc, offset, c, i, alarm, timedout>> /\ SignalsKept'
  BY ParentKeepsChild, ParentKeeps DEF child, IInv, Parent
<1>2. /\ TypeOK /\ PrefixOK
      /\ ppc = "loop" /\ counter = 0 /\ ppc' = "suspend" /\ counter' = TopBit
      /\ dst' = Append(dst, out_char) /\ out_char' = 0
      /\ UNCHANGED <<cpending, fout, ppending>>
  BY DEF ParentWrite, IInv
<1>3. TopBit \in Bits /\ TopBit \in Nat /\ TopBit > 0 /\ 0 \in Byte
  BY TopBitAssumption DEF Bits, Byte
<1>4. Len(dst) < Len(src) /\ out_char = src[Len(dst) + 1]
  BY <1>2, <1>3 DEF IInv, HalfByte, Above
<1>5. /\ Len(dst') = Len(dst) + 1 /\ dst' \in Seq(Byte)
      /\ \A n \in 1 .. Len(dst) : dst'[n] = dst[n]
      /\ dst'[Len(dst) + 1] = out_char
  BY <1>2, SourceBytes DEF TypeOK
<1>6. TypeOK'
  BY <1>1, <1>2, <1>3, <1>5 DEF TypeOK, ParentPC
<1>7. PrefixOK'
  BY <1>1, <1>2, <1>4, <1>5, SourceBytes DEF PrefixOK
<1>8. ASSUME NEW o \in Nat, NEW b \in Bits, Needs(o, b) PROVE Needs(o, b)'
  <2>1. b # 0
    BY <1>8 DEF Bits
  <2>2. Len(dst) = o - 2 /\ b = TopBit
    BY <1>2, <1>8, <2>1 DEF Needs
  <2>3. Len(dst') = o - 1 /\ counter' = b
    BY <1>2, <1>5, <1>8, <2>2, SourceBytes
  <2>4. QED
    BY <2>3 DEF Needs
<1>9. /\ i \in Bits \union {0} /\ offset \in Nat /\ offset + 1 \in Nat
      /\ i \div 2 >= 1 => i \div 2 \in Bits
  <2>1. i \in Bits \union {0} /\ offset \in Nat
    BY <1>2, SourceBytes DEF TypeOK
  <2>2. QED
    BY <2>1, Powers
<1>10. ChildPlace'
  BY <1>1, <1>3, <1>8, <1>9 DEF IInv, ChildPlace
<1>11. NeedsNext => NeedsNext'
  BY <1>1, <1>3, <1>8, <1>9 DEF NeedsNext
<1>12. AckRight'
  BY <1>1, <1>2, <1>11 DEF IInv, AckRight
<1>13. BitPending' <=> BitPending
  BY <1>2 DEF BitPending
<1>14. BitRight' /\ EndOfFile'
  BY <1>1, <1>2, <1>3, <1>8, <1>9, <1>13 DEF IInv, BitRight, EndOfFile, BitSet
<1>15. HalfByte' /\ ParentLast'
  BY <1>2, <1>3 DEF HalfByte, ParentLast
<1>16. QED
  BY <1>1, <1>6, <1>7, <1>10, <1>12, <1>14, <1>15 DEF IInv

(* What the parent does to the bit that is pending.                         *)
LEMMA GotKeeps ==
  ASSUME IInv, GotOne \/ GotZero
  PROVE  IInv'
<1>1. /\ UNCHANGED <<src, cpc, offset, c, i, alarm, timedout>> /\ SignalsKept'
  BY ParentKeepsChild, ParentKeeps DEF child, IInv, Parent
<1>2. /\ TypeOK /\ ppc = "suspend" /\ ppc' = "loop" /\ counter # 0
      /\ counter' = counter \div 2
      /\ cpending' \in {cpending, cpending \union {"USR1"}}
      /\ BitPending /\ cpending = {}
      /\ UNCHANGED <<dst, fout>>
  BY DEF GotOne, GotZero, Delivered, KillChild, IInv, HalfByte, BitPending,
         SignalsKept, OneSignalInFlight
<1>3. /\ offset >= 1 /\ offset \in Nat /\ i \in Bits /\ c = src[offset]
      /\ Len(dst) = offset - 1 /\ counter = i
      /\ cpc \in {"suspend", "exited"}
  BY <1>2, SourceBytes DEF IInv, BitRight, Needs, TypeOK
<1>4. ~ BitPending' /\ ppending' \subseteq {"CHLD"}
  BY <1>2 DEF GotOne, GotZero, Delivered, IInv, SignalsKept, OneSignalInFlight,
              BitPending
<1>5. out_char' = IF BitSet THEN out_char + counter ELSE out_char
  BY <1>3, <1>2 DEF GotOne, GotZero, Delivered, IInv, BitRight, BitPending,
                    SignalsKept, OneSignalInFlight
<1>6. /\ offset \in 1 .. Len(src) /\ Len(dst) + 1 = offset /\ Len(dst) < Len(src)
      /\ c \in Byte /\ c \in Nat
  <2>1. offset <= Len(src) /\ c \in Byte
    BY <1>2 DEF TypeOK
  <2>2. QED
    BY <1>2, <1>3, <2>1, SourceBytes, AboveRange
<1>7. out_char = Above(c, i)
  <2>1. CASE i = TopBit
    BY <1>3, <1>6, <2>1, AboveRange DEF IInv, HalfByte
  <2>2. CASE i # TopBit
    BY <1>3, <1>6, <2>2 DEF IInv, HalfByte
  <2>3. QED
    BY <2>1, <2>2
<1>8. out_char' = Above(c, i \div 2)
  BY <1>3, <1>5, <1>6, <1>7, NextBit DEF BitSet
<1>9. /\ i \div 2 \in Bits \union {0} /\ i \div 2 # TopBit
      /\ out_char' \in Byte /\ (i \div 2 >= 1 \/ i \div 2 = 0)
  <2>1. i \div 2 \in Bits \union {0} /\ i \div 2 # TopBit
    BY <1>3, Powers
  <2>2. Above(c, i \div 2) \in 0 .. c
    BY <1>6, <2>1, AboveRange
  <2>3. out_char' \in Byte
    BY <1>6, <1>8, <2>2, TopBitAssumption DEF Byte
  <2>4. QED
    BY <1>3, <2>1, <2>3, Powers
<1>10. TypeOK'
  <2>1. ppending' \subseteq {"USR1", "USR2", "CHLD"} /\ cpending' \subseteq {"USR1"}
    BY <1>1 DEF SignalsKept
  <2>2. QED
    BY <1>1, <1>2, <1>3, <1>9, <2>1 DEF TypeOK, ParentPC
<1>11. PrefixOK'
  BY <1>1, <1>2 DEF IInv, PrefixOK
<1>12. ChildPlace' /\ BitRight' /\ ParentLast'
  BY <1>1, <1>2, <1>3, <1>4 DEF IInv, ChildPlace, BitRight, ParentLast
<1>13. NeedsNext'
  BY <1>1, <1>2, <1>3, <1>6, <1>9, SourceBytes DEF NeedsNext, Needs
<1>14. AckRight'
  BY <1>13 DEF AckRight
<1>15. HalfByte'
  BY <1>1, <1>2, <1>3, <1>6, <1>8, <1>9 DEF HalfByte, Above
<1>16. EndOfFile'
  BY <1>1, <1>2 DEF IInv, EndOfFile
<1>17. QED
  BY <1>1, <1>10, <1>11, <1>12, <1>14, <1>15, <1>16 DEF IInv

LEMMA NextIInv == IInv /\ [Next]_vars => IInv'
<1> SUFFICES ASSUME IInv, [Next]_vars PROVE IInv'
  OBVIOUS
<1>1. CASE UNCHANGED vars
  <2> USE <1>1 DEF vars, child, parent, IInv
  <2>1. TypeOK' /\ PrefixOK' /\ SignalsKept' /\ ChildPlace'
    BY DEF TypeOK, PrefixOK, SignalsKept, OneSignalInFlight, ChildPlace, Needs
  <2>2. BitRight' /\ AckRight' /\ HalfByte' /\ EndOfFile' /\ ParentLast'
    BY DEF BitRight, BitPending, BitSet, Needs, AckRight, NeedsNext, HalfByte,
           Above, EndOfFile, ParentLast
  <2>3. QED
    BY <2>1, <2>2
<1>2. QED
  BY <1>1, ChildOpenKeeps, ChildReadKeeps, ChildSendKeeps, ChildAckKeeps,
     ChildEndsKeeps, ParentGoesKeeps, ParentWriteKeeps, GotKeeps
     DEF Next, Child, Parent

(* The inductive invariant of the transfer (st_main.c).                     *)
THEOREM InvariantHolds == Spec => []IInv
<1>1. QED
  BY InitIInv, NextIInv, PTL DEF Spec

(* The copy is a prefix of the file at any time, however the child ends;    *)
(* when the parent has ended without a timeout it is the whole file.        *)
THEOREM CopyComplete == Spec => []CompleteUnlessTimeout
<1>1. ASSUME IInv, ppc = "exited", ~ timedout, offset > 0 PROVE dst = src
  <2>1. cpc = "exited" /\ offset = Len(src) /\ Needs(offset + 1, TopBit)
    BY <1>1 DEF IInv, ParentLast, EndOfFile
  <2>2. Len(dst) = Len(src) /\ src \in Seq(Byte) /\ dst \in Seq(Byte)
    BY <1>1, <2>1, SourceBytes DEF Needs, IInv
  <2>3. \A n \in 1 .. Len(dst) : dst[n] = src[n]
    BY <1>1 DEF IInv, PrefixOK
  <2>4. QED
    BY <2>2, <2>3
<1>2. IInv => CompleteUnlessTimeout
  BY <1>1 DEF IInv, CompleteUnlessTimeout
<1>3. QED
  BY <1>2, InvariantHolds, PTL
=============================================================================
