------------------------- MODULE ShellWrapperProofs --------------------------
(***************************************************************************)
(* Proofs about ShellWrapper, for any scripts, any capacity of the pipes   *)
(* and any number of descriptors.                                          *)
(***************************************************************************)
EXTENDS ShellWrapper, FiniteSetTheorems, SequenceTheorems, WellFoundedInduction,
        TLAPS

(* The line at hand holds programs.                                         *)
LEMMA LineFacts ==
  ASSUME script \in Scripts, start \in 0 .. next, next \in 0 .. Len(script)
  PROVE  /\ script \in Seq(Text) /\ Len(script) \in Nat
         /\ size \in Nat /\ Len(Line) = size /\ Line \in Seq(Programs)
         /\ \A c \in 1 .. size : Line[c] = script[start + c].program
<1>1. script \in Seq(Text) /\ Len(script) \in Nat
  BY ScriptsAssumption
<1>2. size \in Nat
  BY <1>1 DEF size
<1>3. ASSUME NEW c \in 1 .. size
      PROVE  script[start + c].program \in Programs
  <2>1. start + c \in 1 .. Len(script)
    BY <1>1 DEF size
  <2>2. script[start + c] \in Text
    BY <1>1, <2>1, ElementOfSeq
  <2>3. QED
    BY <2>2 DEF Text
<1>4. Line \in [1 .. size -> Programs]
  BY <1>3 DEF Line, Children
<1>5. Line \in Seq(Programs)
  BY <1>2, <1>4, IsASeq
<1>6. Len(Line) = size
  BY <1>2, <1>4, <1>5
<1>7. QED
  BY <1>1, <1>2, <1>5, <1>6 DEF Line, Children

LEMMA SizeKnown ==
  ASSUME IInv
  PROVE  /\ script \in Scripts /\ Len(script) \in Nat /\ size \in Nat
         /\ start \in 0 .. next /\ next \in 0 .. Len(script)
         /\ Line \in Seq(Programs) /\ Len(Line) = size
         /\ \A c \in 1 .. size : Line[c] = script[start + c].program
<1>1. /\ script \in Scripts /\ start \in 0 .. next /\ next \in 0 .. end
      /\ end \in 0 .. Len(script)
  BY DEF IInv, TypeOK
<1>2. Len(script) \in Nat
  BY <1>1, ScriptsAssumption
<1>3. next \in 0 .. Len(script)
  BY <1>1, <1>2
<1>4. QED
  BY <1>1, <1>2, <1>3, LineFacts

(***************************************************************************)
(* The history of lines.                                                   *)
(***************************************************************************)
Places == [from : 0 .. Len(script), to : 0 .. Len(script)]

(* What is said of the lines run before stays true when one more is taken.  *)
LEMMA HistoryKept ==
  ASSUME ran \in Seq(Places), script' = script, NEW r \in Places,
         ran' = Append(ran, r)
  PROVE  /\ Len(ran) \in Nat /\ Len(ran') = Len(ran) + 1
         /\ ran' \in Seq(Places) /\ ran' # << >>
         /\ ran'[Len(ran) + 1] = r
         /\ \A k \in 1 .. Len(ran) :
              /\ ran'[k] = ran[k]
              /\ FirstFails(k)' <=> FirstFails(k)
              /\ Follows(k)' <=> Follows(k)
         /\ \A k \in 1 .. Len(ran) + 1 : FailedSince(k)' = FailedSince(k)
<1>1. /\ Len(ran) \in Nat /\ Len(ran') = Len(ran) + 1
      /\ ran' \in Seq(Places) /\ ran' # << >>
      /\ ran'[Len(ran) + 1] = r
      /\ \A k \in 1 .. Len(ran) : ran'[k] = ran[k]
  BY AppendProperties
<1>2. \A k \in 1 .. Len(ran) : FirstFails(k)' <=> FirstFails(k)
  BY <1>1 DEF FirstFails
<1>3. ASSUME NEW k \in 1 .. Len(ran) PROVE Follows(k)' <=> Follows(k)
  <2>1. k > 1 => k - 1 \in 1 .. Len(ran)
    BY <1>1
  <2>2. QED
    BY <1>1, <2>1 DEF Follows
<1>4. ASSUME NEW k \in 1 .. Len(ran) + 1 PROVE FailedSince(k)' = FailedSince(k)
  <2>1. \A m \in 1 .. k - 1 : m \in 1 .. Len(ran)
    BY <1>1
  <2>2. \A n \in 1 .. k - 1 : \A m \in n + 1 .. k - 1 : m \in 1 .. k - 1
    BY <1>1
  <2>3. \A n \in 1 .. k - 1 :
          (FirstFails(n)' /\ \A m \in n + 1 .. k - 1 : Follows(m)') <=>
          (FirstFails(n) /\ \A m \in n + 1 .. k - 1 : Follows(m))
    BY <1>2, <1>3, <2>1, <2>2
  <2>4. QED
    BY <2>3, Zenon DEF FailedSince
<1>5. QED
  BY <1>1, <1>2, <1>3, <1>4

(* More failed lines only weaken what is said of the place.                 *)
LEMMA GoesBackMonotone ==
  ASSUME NEW place, NEW F, NEW G, F \subseteq G, GoesBack(place, F)
  PROVE  GoesBack(place, G)
<1>1. PICK k \in F : place <= ran[k].to /\ (F = {k} => place = ran[k].to)
  BY DEF GoesBack
<1>2. k \in G /\ (G = {k} => F = {k})
  BY <1>1
<1>3. QED
  BY <1>1, <1>2 DEF GoesBack

LEMMA FailedBefore ==
  /\ \A n : FailedSince(n) \subseteq 1 .. n - 1
  /\ FailedNow \subseteq FailedSince(Len(ran) + 1)
BY DEF FailedSince, FailedNow

LEMMA NothingYet ==
  /\ \A S : << >> \in Seq(S)
  /\ Len(<< >>) = 0
BY EmptySeq

LEMMA InitIInv == Init => IInv
<1> SUFFICES ASSUME Init PROVE IInv
  OBVIOUS
<1>1. /\ script \in Scripts /\ start = 0 /\ next = 0 /\ end = 0 /\ offset = 0
      /\ ppc = "scan" /\ i = 0 /\ held = {} /\ leaked = 0
      /\ cpc = << >> /\ cheld = << >> /\ have = << >> /\ chan = << >>
      /\ wrote = << >> /\ ran = << >>
  BY DEF Init
<1>2. Len(script) \in Nat
  BY <1>1, ScriptsAssumption
<1>3. size = 0
  BY <1>1 DEF size
<1>4. Cardinality(held) = 0
  BY <1>1, FS_EmptySet
<1>5. TypeOK
  BY <1>1, <1>2, <1>3, <1>4, NothingYet, OpenMaxAssumption DEF TypeOK, OpenFds
<1>6. ChildrenMade /\ HeldThere
  BY <1>1, <1>3, NothingYet DEF ChildrenMade, HeldThere
<1>7. LinesRun
  BY <1>1, NothingYet DEF LinesRun
<1>8. Offsets
  BY <1>1, <1>2 DEF Offsets
<1>9. InputOrder
  BY <1>1, NothingYet DEF InputOrder
<1>10. QED
  BY <1>5, <1>6, <1>7, <1>8, <1>9 DEF IInv

(***************************************************************************)
(* The children: they move units and the shared offset, and leave alone    *)
(* what the shell has.                                                     *)
(***************************************************************************)
ChildPC == {"forked", "run", "zombie", "reaped"}

ChildTypes ==
  /\ cpc \in Seq(ChildPC)
  /\ cheld \in Seq(SUBSET PipeEnds)
  /\ have \in Seq({0, 1})
  /\ chan \in Seq(0 .. PipeCap)
  /\ wrote \in Seq(0 .. 2)

LEMMA ChildMoves ==
  ASSUME IInv, NEW c \in DOMAIN cpc, Child(c)
  PROVE  /\ UNCHANGED shell
         /\ ChildTypes'
         /\ Len(cpc') = Len(cpc) /\ Len(cheld') = Len(cpc)
         /\ Len(have') = Len(cpc) /\ Len(chan') = Len(cpc)
         /\ Len(wrote') = Len(cpc)
         /\ \A d \in 1 .. Len(cpc) : HasEnded(d) => HasEnded(d)'
         /\ \/ offset' \in {offset, Len(script)}
            \/ /\ c = 1 /\ Line[c] = "bad" /\ offset' = GivenBack
               /\ cpc[c] = "run" /\ cpc'[c] = "zombie"
<1>1. /\ cpc \in Seq(ChildPC) /\ cheld \in Seq(SUBSET PipeEnds)
      /\ have \in Seq({0, 1}) /\ chan \in Seq(0 .. PipeCap)
      /\ wrote \in Seq(0 .. 2)
      /\ Len(cheld) = Len(cpc) /\ Len(have) = Len(cpc) /\ Len(chan) = Len(cpc)
      /\ Len(wrote) = Len(cpc)
      /\ Len(cpc) \in Nat /\ c \in 1 .. Len(cpc)
  BY DEF IInv, TypeOK, ChildrenMade, ChildPC
<1>2. UNCHANGED shell
  BY DEF Child, Exec, ExecCrashes, Read, ReadEOF, WriteTerminal,
         WritePipe, WriteKilled
<1>3. PipeEnds' = PipeEnds /\ PipeCap \in Nat
  BY <1>2, PipeCapAssumption DEF PipeEnds, size, shell
<1> DEFINE Stays == \A d \in 1 .. Len(cpc) : HasEnded(d) => HasEnded(d)'
<1>4. Ends(c) => Stays /\ cpc'[c] = "zombie"
  BY <1>1 DEF Ends, HasEnded
<1>5. UNCHANGED cpc => Stays
  BY DEF HasEnded
<1> DEFINE Kept == /\ cpc' \in Seq(ChildPC) /\ Len(cpc') = Len(cpc)
                   /\ cheld' \in Seq(SUBSET PipeEnds) /\ Len(cheld') = Len(cpc)
<1>6. Ends(c) => Kept
  <2>1. /\ "zombie" \in ChildPC /\ {} \in SUBSET PipeEnds
        /\ c \in 1 .. Len(cheld)
    BY <1>1 DEF ChildPC
  <2>2. /\ [cpc EXCEPT ![c] = "zombie"] \in Seq(ChildPC)
        /\ Len([cpc EXCEPT ![c] = "zombie"]) = Len(cpc)
    BY <1>1, <2>1, ExceptSeq
  <2>3. /\ [cheld EXCEPT ![c] = {}] \in Seq(SUBSET PipeEnds)
        /\ Len([cheld EXCEPT ![c] = {}]) = Len(cheld)
    BY <1>1, <2>1, ExceptSeq
  <2>4. QED
    BY <1>1, <2>2, <2>3 DEF Ends
<1>7. UNCHANGED <<cpc, cheld>> => Kept
  BY <1>1
<1>8. ASSUME NEW h \in {0, 1}
      PROVE  /\ [have EXCEPT ![c] = h] \in Seq({0, 1})
             /\ Len([have EXCEPT ![c] = h]) = Len(cpc)
  <2>1. c \in 1 .. Len(have)
    BY <1>1
  <2>2. QED
    BY <1>1, <2>1, ExceptSeq
<1>9. ASSUME NEW k \in 1 .. Len(cpc), NEW u \in 0 .. PipeCap
      PROVE  /\ [chan EXCEPT ![k] = u] \in Seq(0 .. PipeCap)
             /\ Len([chan EXCEPT ![k] = u]) = Len(cpc)
  <2>1. k \in 1 .. Len(chan)
    BY <1>1
  <2>2. QED
    BY <1>1, <2>1, ExceptSeq
<1> DEFINE Goal ==
      /\ Kept
      /\ have' \in Seq({0, 1}) /\ Len(have') = Len(cpc)
      /\ chan' \in Seq(0 .. PipeCap) /\ Len(chan') = Len(cpc)
      /\ wrote' \in Seq(0 .. 2) /\ Len(wrote') = Len(cpc)
<1>10. AfterWrite(c) => /\ Kept
                       /\ have' \in Seq({0, 1}) /\ Len(have') = Len(cpc)
                       /\ wrote' \in Seq(0 .. 2) /\ Len(wrote') = Len(cpc)
  <2>1. c \in 1 .. Len(wrote)
    BY <1>1
  <2>2. wrote[c] \in 0 .. 2
    BY <1>1, <2>1, ElementOfSeq
  <2>3. Sat(wrote[c] + 1) \in 0 .. 2
    BY <2>2 DEF Sat
  <2>4. /\ [wrote EXCEPT ![c] = Sat(wrote[c] + 1)] \in Seq(0 .. 2)
        /\ Len([wrote EXCEPT ![c] = Sat(wrote[c] + 1)]) = Len(cpc)
    BY <1>1, <2>1, <2>3, ExceptSeq
  <2>5. QED
    BY <1>6, <1>7, <1>8, <2>4 DEF AfterWrite
<1> HIDE DEF Kept
<1>11. CASE Exec(c)
  <2>1. /\ "run" \in ChildPC /\ c \in 1 .. Len(cheld)
        /\ cheld[c] \ ClosedByChild(c) \in SUBSET PipeEnds
    BY <1>1 DEF ChildPC
  <2>2. /\ [cpc EXCEPT ![c] = "run"] \in Seq(ChildPC)
        /\ Len([cpc EXCEPT ![c] = "run"]) = Len(cpc)
    BY <1>1, <2>1, ExceptSeq
  <2>3. /\ [cheld EXCEPT ![c] = cheld[c] \ ClosedByChild(c)] \in Seq(SUBSET PipeEnds)
        /\ Len([cheld EXCEPT ![c] = cheld[c] \ ClosedByChild(c)]) = Len(cheld)
    BY <1>1, <2>1, ExceptSeq
  <2>4. Goal
    BY <1>1, <1>11, <2>2, <2>3 DEF Exec, Kept
  <2>5. offset' = offset
    BY <1>11 DEF Exec
  <2>6. ASSUME NEW d \in 1 .. Len(cpc), HasEnded(d) PROVE HasEnded(d)'
    <3>1. d # c
      BY <1>11, <2>6 DEF Exec, HasEnded
    <3>2. cpc' = [cpc EXCEPT ![c] = "run"]
      BY <1>11 DEF Exec
    <3>3. d \in DOMAIN cpc
      BY <1>1
    <3>4. cpc'[d] = cpc[d]
      BY <3>1, <3>2, <3>3
    <3>5. QED
      BY <2>6, <3>4 DEF HasEnded
  <2>7. QED
    BY <1>2, <1>3, <2>4, <2>5, <2>6, Zenon DEF ChildTypes, Kept
<1>12. CASE ExecCrashes(c) \/ ReadEOF(c) \/ WriteKilled(c)
  <2>1. Ends(c) /\ UNCHANGED <<offset, have, chan, wrote>>
    BY <1>12 DEF ExecCrashes, ReadEOF, WriteKilled
  <2>2. Goal /\ Stays
    BY <1>1, <1>4, <1>6, <2>1
  <2>3. QED
    BY <1>2, <1>3, <2>1, <2>2, Zenon DEF ChildTypes, Kept
<1>13. CASE Read(c)
  <2>1. UNCHANGED <<cpc, cheld, wrote>> /\ have' = [have EXCEPT ![c] = 1]
    BY <1>13 DEF Read
  <2>2. /\ offset' \in {offset, Len(script)}
        /\ chan' \in Seq(0 .. PipeCap) /\ Len(chan') = Len(cpc)
    <3>1. CASE c = 1
      BY <1>1, <1>13, <3>1 DEF Read
    <3>2. CASE c # 1
      <4>1. c - 1 \in 1 .. Len(cpc) /\ c - 1 \in 1 .. Len(chan)
        BY <1>1, <3>2
      <4>2. chan[c - 1] \in 0 .. PipeCap
        BY <1>1, <4>1, ElementOfSeq
      <4>3. /\ chan[c - 1] > 0 /\ offset' = offset
            /\ chan' = [chan EXCEPT ![c - 1] = chan[c - 1] - 1]
        BY <1>13, <3>2 DEF Read
      <4>4. chan[c - 1] - 1 \in 0 .. PipeCap
        BY <1>3, <4>2, <4>3
      <4>5. QED
        BY <1>9, <4>1, <4>3, <4>4
    <3>3. QED
      BY <3>1, <3>2
  <2>3. Goal
    BY <1>1, <1>7, <1>8, <2>1, <2>2
  <2>4. Stays
    BY <1>5, <2>1
  <2>5. QED
    BY <1>2, <1>3, <2>2, <2>3, <2>4, Zenon DEF ChildTypes, Kept
<1>14. CASE WriteTerminal(c) \/ WritePipe(c)
  <2>1. /\ AfterWrite(c) /\ cpc[c] = "run"
        /\ chan' = chan \/ (chan[c] < PipeCap /\ chan' = [chan EXCEPT ![c] = chan[c] + 1])
    BY <1>1, <1>14 DEF WriteTerminal, WritePipe, Writes
  <2>2. chan' \in Seq(0 .. PipeCap) /\ Len(chan') = Len(cpc)
    <3>1. c \in 1 .. Len(chan)
      BY <1>1
    <3>2. chan[c] \in 0 .. PipeCap
      BY <1>1, <3>1, ElementOfSeq
    <3>3. chan[c] < PipeCap => chan[c] + 1 \in 0 .. PipeCap
      BY <1>3, <3>2
    <3>4. CASE chan' = chan
      BY <1>1, <3>4
    <3>5. CASE chan[c] < PipeCap /\ chan' = [chan EXCEPT ![c] = chan[c] + 1]
      <4>1. chan[c] + 1 \in 0 .. PipeCap /\ c \in 1 .. Len(cpc)
        BY <1>1, <3>3, <3>5
      <4>2. QED
        BY <1>9, <3>5, <4>1
    <3>6. QED
      BY <2>1, <3>4, <3>5
  <2>3. Goal
    BY <1>1, <1>10, <2>1, <2>2
  <2>4. Stays
    BY <1>4, <1>5, <2>1 DEF AfterWrite
  <2>5. \/ offset' = offset
        \/ c = 1 /\ Line[c] = "bad" /\ offset' = GivenBack /\ cpc'[c] = "zombie"
    BY <1>4, <2>1 DEF AfterWrite, OffsetAfter
  <2>6. QED
    BY <1>2, <1>3, <2>1, <2>3, <2>4, <2>5, Zenon DEF ChildTypes, Kept
<1>15. QED
  BY <1>11, <1>12, <1>13, <1>14 DEF Child

(* Where the shared offset is while nothing but the children moves it: they *)
(* do so by reading it to the end or by giving back what is unread.         *)
LEMMA OffsetsKept ==
  ASSUME IInv, UNCHANGED <<script, start, next, end, ran>>,
         ppc' # "failed" => ppc # "failed" /\ offset' = offset,
         end = 0 => offset' = offset,
         1 \in DOMAIN cpc /\ HasEnded(1) => (1 \in DOMAIN cpc /\ HasEnded(1))'
  PROVE  Offsets'
<1>1. FailedSince(Len(ran) + 1)' = FailedSince(Len(ran) + 1)
  BY DEF FailedSince, FirstFails, Follows
<1>2. FailedNow \subseteq FailedNow'
  BY <1>1 DEF FailedNow
<1>3. ASSUME end > 0, offset < Len(script), ppc # "failed"
      PROVE  GoesBack(offset, FailedNow')
  <2>1. GoesBack(offset, FailedNow)
    BY <1>3 DEF IInv, Offsets
  <2>2. QED
    BY <1>2, <2>1, GoesBackMonotone
<1>4. ASSUME end > 0, offset' < Len(script), ppc' # "failed"
      PROVE  GoesBack(offset, FailedNow)'
  <2>1. offset' = offset /\ ppc # "failed"
    BY <1>4
  <2>2. GoesBack(offset, FailedNow')
    BY <1>3, <1>4, <2>1
  <2>3. QED
    BY <2>1, <2>2 DEF GoesBack
<1>5. QED
  BY <1>4 DEF IInv, Offsets

(* The first command of the line at hand gives back what is unread.         *)
LEMMA GivesBack ==
  ASSUME IInv, UNCHANGED <<script, start, next, end, ran, ppc>>, ppc # "failed",
         end > 0, offset' = GivenBack, offset' < Len(script),
         DOMAIN cpc' = DOMAIN cpc, 1 \in DOMAIN cpc, size > 0, Line[1] = "bad",
         ~ HasEnded(1), HasEnded(1)'
  PROVE  GoesBack(offset, FailedNow)'
<1> DEFINE last == Len(ran)
<1>1. /\ offset \in 0 .. Len(script) /\ Len(script) \in Nat
      /\ next \in 0 .. Len(script) /\ start \in 0 .. next /\ end = Len(script)
      /\ ran \in Seq(Places)
  BY SizeKnown DEF IInv, TypeOK, Offsets, Places
<1>2. ran # << >>
  BY <1>1 DEF IInv, LinesRun, size
<1>3. last \in Nat /\ last > 0 /\ ran[last] = [from |-> start, to |-> next]
  BY <1>1, <1>2, EmptySeq DEF IInv, LinesRun
<1>4. FirstFails(last)
  <2>1. 1 \in 1 .. size /\ Line[1] = script[start + 1].program
    BY SizeKnown
  <2>2. QED
    BY <1>3, <2>1 DEF FirstFails
<1>5. last \in FailedSince(last + 1)
  BY <1>3, <1>4 DEF FailedSince
<1>6. FailedSince(last + 1)' = FailedSince(last + 1)
  BY DEF FailedSince, FirstFails, Follows
<1>7. last \notin FailedNow
  BY DEF FailedNow
<1>8. FailedNow' = FailedNow \union {last}
  BY <1>5, <1>6, <1>7 DEF FailedNow
<1> HIDE DEF last
<1>9. offset < Len(script) => GoesBack(offset, FailedNow)
  BY <1>1 DEF IInv, Offsets
<1>10. CASE unread <= offset
  <2>1. offset' = offset - (Len(script) - next)
    BY <1>1, <1>10 DEF GivenBack, unread
  <2>2. offset' <= ran[last].to
    BY <1>1, <1>3, <2>1
  <2>3. FailedNow' = {last} => offset' = ran[last].to
    <3>1. SUFFICES ASSUME FailedNow' = {last} PROVE offset' = ran[last].to
      OBVIOUS
    <3>2. FailedNow = {}
      BY <1>7, <1>8, <3>1
    <3>3. ~ GoesBack(offset, FailedNow)
      BY <3>2 DEF GoesBack
    <3>4. QED
      BY <1>1, <1>3, <1>9, <2>1, <3>3
  <2>4. last \in FailedNow'
    BY <1>8
  <2>5. QED
    BY <2>2, <2>3, <2>4 DEF GoesBack
<1>11. CASE ~ (unread <= offset)
  <2>1. offset' = offset
    BY <1>11 DEF GivenBack
  <2>2. GoesBack(offset, FailedNow)
    BY <1>9, <2>1
  <2>3. GoesBack(offset, FailedNow')
    <3>1. FailedNow \subseteq FailedNow'
      BY <1>8
    <3>2. QED
      BY <2>2, <3>1, GoesBackMonotone
  <2>4. QED
    BY <2>1, <2>3 DEF GoesBack
<1>12. QED
  BY <1>10, <1>11

(* The lines that have been run stay as they are.                           *)
LEMMA OrderKept ==
  ASSUME IInv, UNCHANGED <<script, next, ran>>, ppc' = "eof" => next = Len(script)
  PROVE  InputOrder'
BY DEF IInv, InputOrder, GoesBack, FailedSince, FirstFails, Follows

LEMMA ChildKeeps ==
  ASSUME IInv, NEW c \in DOMAIN cpc, Child(c)
  PROVE  IInv'
<1>1. /\ UNCHANGED shell /\ ChildTypes'
      /\ Len(cpc') = Len(cpc) /\ Len(cheld') = Len(cpc)
      /\ Len(have') = Len(cpc) /\ Len(chan') = Len(cpc) /\ Len(wrote') = Len(cpc)
      /\ \A d \in 1 .. Len(cpc) : HasEnded(d) => HasEnded(d)'
      /\ \/ offset' \in {offset, Len(script)}
         \/ /\ c = 1 /\ Line[c] = "bad" /\ offset' = GivenBack
            /\ cpc[c] = "run" /\ cpc'[c] = "zombie"
  BY ChildMoves
<1>2. /\ script \in Scripts /\ offset \in 0 .. Len(script)
      /\ start \in 0 .. next /\ next \in 0 .. end /\ end \in 0 .. Len(script)
      /\ Len(script) \in Nat /\ size \in Nat
      /\ Len(cpc) \in Nat /\ c \in 1 .. Len(cpc) /\ Len(cpc) <= size
      /\ cpc \in Seq(ChildPC)
  BY SizeKnown DEF IInv, TypeOK, ChildrenMade, ChildPC
<1>3. /\ script' = script /\ start' = start /\ next' = next /\ end' = end
      /\ ppc' = ppc /\ i' = i /\ held' = held /\ leaked' = leaked /\ ran' = ran
  BY <1>1 DEF shell
<1>4. size' = size /\ PipeEnds' = PipeEnds /\ OpenFds' = OpenFds
  BY <1>3 DEF size, PipeEnds, OpenFds
<1>5. offset' \in 0 .. Len(script)
  BY <1>1, <1>2 DEF GivenBack, unread
<1>6. TypeOK'
  BY <1>1, <1>3, <1>4, <1>5 DEF IInv, TypeOK, ChildTypes, ChildPC
<1>7. ChildrenMade' /\ HeldThere'
  BY <1>1, <1>3, <1>4 DEF IInv, ChildrenMade, HeldThere
<1>8. LinesRun'
  BY <1>3 DEF IInv, LinesRun
<1>9. size > 0 /\ end > 0
  BY <1>2 DEF size
<1>10. DOMAIN cpc' = DOMAIN cpc /\ DOMAIN cpc = 1 .. Len(cpc)
  BY <1>1, <1>2 DEF ChildTypes
<1>11. Offsets'
  <2>1. CASE offset' = offset \/ ppc = "failed"
    BY <1>1, <1>3, <1>9, <1>10, <2>1, OffsetsKept
  <2>2. CASE offset' = Len(script)
    BY <1>2, <1>3, <1>9, <2>2 DEF IInv, Offsets
  <2>3. CASE /\ c = 1 /\ Line[c] = "bad" /\ offset' = GivenBack
             /\ cpc[c] = "run" /\ cpc'[c] = "zombie" /\ ppc # "failed"
    <3>1. 1 \in DOMAIN cpc /\ ~ HasEnded(1) /\ HasEnded(1)'
      BY <1>10, <2>3 DEF HasEnded
    <3>2. offset' < Len(script) => GoesBack(offset, FailedNow)'
      BY <1>3, <1>9, <1>10, <2>3, <3>1, GivesBack
    <3>3. QED
      BY <1>3, <1>9, <3>2 DEF IInv, Offsets
  <2>4. QED
    BY <1>1, <2>1, <2>2, <2>3
<1>12. InputOrder'
  BY <1>3, OrderKept DEF IInv, InputOrder
<1>13. QED
  BY <1>6, <1>7, <1>8, <1>11, <1>12 DEF IInv

(***************************************************************************)
(* The shell.                                                              *)
(***************************************************************************)
LEMMA SetSizes ==
  ASSUME NEW S, IsFiniteSet(S), NEW a, NEW b
  PROVE  /\ IsFiniteSet(S \union {a, b})
         /\ Cardinality(S) \in Nat /\ Cardinality(S \union {a, b}) \in Nat
         /\ Cardinality(S \union {a, b}) <= Cardinality(S) + 2
<1>1. /\ IsFiniteSet(S \union {a}) /\ IsFiniteSet((S \union {a}) \union {b})
      /\ Cardinality(S \union {a}) =
           IF a \in S THEN Cardinality(S) ELSE Cardinality(S) + 1
      /\ Cardinality((S \union {a}) \union {b}) =
           IF b \in S \union {a} THEN Cardinality(S \union {a})
           ELSE Cardinality(S \union {a}) + 1
  BY FS_AddElement
<1>2. S \union {a, b} = (S \union {a}) \union {b}
  OBVIOUS
<1>3. Cardinality(S) \in Nat
  BY FS_CardinalityType
<1>4. IsFiniteSet(S \union {a, b})
  BY <1>1, <1>2
<1>5. Cardinality(S \union {a, b}) \in Nat
  BY <1>4, FS_CardinalityType
<1>6. QED
  BY <1>1, <1>2, <1>3, <1>4, <1>5

(* The shell never has more than three pipe ends of a line open.            *)
LEMMA HeldCount ==
  ASSUME HeldThere, ppc \in {"scan", "pipe", "close", "wait", "eof", "failed"}
  PROVE  /\ IsFiniteSet(held) /\ Cardinality(held) \in Nat /\ Cardinality(held) <= 3
         /\ ppc \in {"scan", "eof", "failed"} => Cardinality(held) = 0
         /\ ppc = "pipe" => Cardinality(held) <= 1
         /\ ppc = "wait" => Cardinality(held) = 1
<1>1. /\ IsFiniteSet({}) /\ Cardinality({}) = 0
      /\ \A x : IsFiniteSet({x}) /\ Cardinality({x}) = 1
  BY FS_EmptySet, FS_Singleton
<1>2. CASE ppc \in {"scan", "eof", "failed"}
  <2>1. held = {}
    BY <1>2 DEF HeldThere
  <2>2. QED
    BY <1>1, <1>2, <2>1
<1>3. CASE ppc = "pipe" \/ ppc = "wait"
  <2>1. \/ held = {} /\ ppc # "wait"
        \/ \E x : held = {x}
    <3>1. CASE ppc = "pipe"
      <4>1. held = IF i = 0 THEN {} ELSE {<<i, "r">>}
        BY <3>1 DEF HeldThere
      <4>2. ppc # "wait"
        BY <3>1
      <4>3. QED
        BY <4>1, <4>2, Zenon
    <3>2. CASE ppc = "wait"
      BY <3>2 DEF HeldThere
    <3>3. QED
      BY <1>3, <3>1, <3>2
  <2>2. \/ IsFiniteSet(held) /\ Cardinality(held) = 0 /\ ppc # "wait"
        \/ IsFiniteSet(held) /\ Cardinality(held) = 1
    BY <1>1, <2>1, Zenon
  <2>3. QED
    BY <1>3, <2>2
<1>4. CASE ppc = "close"
  <2> DEFINE S == IF i = 1 THEN {} ELSE {<<i - 1, "r">>}
  <2>1. IsFiniteSet(S) /\ Cardinality(S) <= 1
    <3>1. S = {} \/ \E x : S = {x}
      BY Zenon
    <3>2. IsFiniteSet(S) /\ (Cardinality(S) = 0 \/ Cardinality(S) = 1)
      BY <1>1, <3>1, Zenon
    <3>3. QED
      BY <3>2
  <2>2. held = S \union {<<i, "r">>, <<i, "w">>}
    BY <1>4 DEF HeldThere
  <2> HIDE DEF S
  <2>3. /\ IsFiniteSet(held) /\ Cardinality(held) \in Nat
        /\ Cardinality(S) \in Nat /\ Cardinality(held) <= Cardinality(S) + 2
    BY <2>1, <2>2, SetSizes
  <2>4. QED
    BY <1>4, <2>1, <2>3
<1>5. QED
  BY <1>2, <1>3, <1>4

(* A line is taken: from where the one before has ended or, at the end of   *)
(* the script, from where first commands that failed have left the offset.  *)
LEMMA TakeKeeps ==
  ASSUME IInv, ppc = "scan", NEW p \in 0 .. Len(script), Take(p),
         end' = Len(script), offset' \in 0 .. Len(script), Offsets',
         \/ ran = << >> /\ p = 0
         \/ ran # << >> /\ p = next
         \/ ran # << >> /\ next = Len(script) /\ GoesBack(p, FailedSince(Len(ran) + 1))
  PROVE  IInv'
<1>1. /\ start' = p /\ ppc' = "pipe" /\ i' = 0
      /\ cpc' = << >> /\ cheld' = << >> /\ have' = << >> /\ chan' = << >>
      /\ wrote' = << >>
      /\ script' = script /\ held' = held /\ leaked' = leaked
  BY DEF Take
<1>2. PICK q \in (p + 1) .. Len(script) :
        next' = q /\ ran' = Append(ran, [from |-> p, to |-> q])
  BY DEF Take
<1>3. /\ script \in Scripts /\ Len(script) \in Nat /\ held = {}
      /\ ran \in Seq(Places) /\ OpenFds <= OpenMax /\ leaked \in Nat
      /\ leaked = Len(ran)
  BY SizeKnown DEF IInv, TypeOK, HeldThere, LinesRun, Places
<1> DEFINE r == [from |-> p, to |-> q]
<1>4. r \in Places
  BY <1>3 DEF Places
<1>5. /\ Len(ran) \in Nat /\ Len(ran') = Len(ran) + 1
      /\ ran' \in Seq(Places) /\ ran' # << >>
      /\ ran'[Len(ran) + 1] = r
      /\ \A k \in 1 .. Len(ran) : ran'[k] = ran[k] /\ (Follows(k)' <=> Follows(k))
      /\ \A k \in 1 .. Len(ran) + 1 : FailedSince(k)' = FailedSince(k)
  BY <1>1, <1>2, <1>3, <1>4, HistoryKept
<1>6. size' \in Nat /\ OpenFds' = OpenFds /\ Places' = Places
  BY <1>1, <1>2, <1>3 DEF OpenFds, size, Places
<1>7. TypeOK'
  <2>1. /\ cpc' \in Seq({"forked", "run", "zombie", "reaped"})
        /\ cheld' \in Seq(SUBSET PipeEnds') /\ have' \in Seq({0, 1})
        /\ chan' \in Seq(0 .. PipeCap) /\ wrote' \in Seq(0 .. 2)
    BY <1>1, NothingYet
  <2>2. /\ i' \in 0 .. size' /\ start' \in 0 .. next'
        /\ next' \in 0 .. end' /\ end' \in 0 .. Len(script)
    BY <1>1, <1>2, <1>3, <1>6
  <2>3. held' \subseteq PipeEnds'
    BY <1>1, <1>3
  <2>4. ran' \in Seq([from : 0 .. Len(script'), to : 0 .. Len(script')])
    BY <1>1, <1>5 DEF Places
  <2>5. QED
    BY <1>1, <1>3, <1>6, <2>1, <2>2, <2>3, <2>4 DEF TypeOK
<1>8. ChildrenMade' /\ HeldThere'
  BY <1>1, <1>3, <1>6, NothingYet DEF ChildrenMade, HeldThere
<1>9. LinesRun'
  <2>1. ran'[Len(ran')] = [from |-> start', to |-> next'] /\ start' < next'
    BY <1>1, <1>2, <1>3, <1>5
  <2>2. leaked' = Len(ran') - 1
    BY <1>1, <1>3, <1>5
  <2>3. QED
    BY <1>1, <1>5, <2>1, <2>2 DEF LinesRun
<1> HIDE DEF r
<1>10. InputOrder'
  <2>1. ran # << >> => Len(ran) \in 1 .. Len(ran) /\ ran[Len(ran)].to = next
    BY <1>3, <1>5, EmptySeq DEF IInv, LinesRun
  <2> DEFINE Order(k) ==
        \/ k = 1 /\ ran[k].from = 0
        \/ Follows(k)
        \/ k > 1 /\ ran[k - 1].to = Len(script) /\ GoesBack(ran[k].from, FailedSince(k))
  <2>2. ASSUME NEW k \in 1 .. Len(ran) + 1,
               NEW place, GoesBack(place, FailedSince(k))
        PROVE  \E m \in FailedSince(k)' :
                 place <= ran'[m].to /\ (FailedSince(k)' = {m} => place = ran'[m].to)
    <3>1. FailedSince(k) \subseteq 1 .. Len(ran) /\ FailedSince(k)' = FailedSince(k)
      BY <1>5, FailedBefore
    <3>2. QED
      BY <1>5, <2>2, <3>1 DEF GoesBack
  <2>3. ASSUME NEW k \in 1 .. Len(ran) PROVE Order(k)'
    <3>1. Order(k)
      BY DEF IInv, InputOrder
    <3>2. CASE k = 1 /\ ran[k].from = 0
      BY <1>5, <3>2
    <3>3. CASE Follows(k)
      BY <1>5, <3>3
    <3>4. CASE /\ k > 1 /\ ran[k - 1].to = Len(script)
               /\ GoesBack(ran[k].from, FailedSince(k))
      <4>1. k - 1 \in 1 .. Len(ran) /\ k \in 1 .. Len(ran) + 1
        BY <1>5, <3>4
      <4>2. ran'[k - 1] = ran[k - 1] /\ ran'[k] = ran[k]
        BY <1>5, <4>1
      <4>3. GoesBack(ran[k].from, FailedSince(k))'
        BY <2>2, <3>4, <4>1, <4>2 DEF GoesBack
      <4>4. QED
        BY <1>1, <3>4, <4>2, <4>3
    <3>5. QED
      BY <3>1, <3>2, <3>3, <3>4
  <2>4. ASSUME NEW k, k = Len(ran) + 1 PROVE Order(k)'
    <3>1. ran'[k].from = p /\ (ran # << >> => k > 1 /\ ran'[k - 1].to = next)
      BY <1>5, <2>1, <2>4 DEF r
    <3>2. CASE ran = << >> /\ p = 0
      <4>1. k = 1 /\ ran'[k].from = 0
        BY <2>4, <3>1, <3>2, EmptySeq
      <4>2. QED
        BY <4>1
    <3>3. CASE ran # << >> /\ p = next
      BY <3>1, <3>3 DEF Follows
    <3>4. CASE /\ ran # << >> /\ next = Len(script)
               /\ GoesBack(p, FailedSince(Len(ran) + 1))
      <4>1. \E m \in FailedSince(k)' :
              p <= ran'[m].to /\ (FailedSince(k)' = {m} => p = ran'[m].to)
        <5>1. k \in 1 .. Len(ran) + 1
          BY <1>5, <2>4
        <5>2. QED
          BY <2>2, <2>4, <3>4, <5>1
      <4>2. QED
        BY <1>1, <3>1, <3>4, <4>1 DEF GoesBack
    <3>5. QED
      BY <3>2, <3>3, <3>4
  <2> HIDE DEF Order
  <2>5. \A k \in 1 .. Len(ran') : Order(k)'
    <3>1. \A k \in 1 .. Len(ran') : k \in 1 .. Len(ran) \/ k = Len(ran) + 1
      BY <1>5
    <3>2. QED
      BY <2>3, <2>4, <3>1
  <2>6. ppc' # "eof"
    BY <1>1
  <2>7. QED
    BY <2>5, <2>6, Zenon DEF InputOrder, Order
<1>11. QED
  BY <1>7, <1>8, <1>9, <1>10 DEF IInv

LEMMA ScanKeeps ==
  ASSUME IInv, ScanBuffered \/ ScanRead
  PROVE  IInv'
<1>1. /\ script \in Scripts /\ Len(script) \in Nat /\ offset \in 0 .. Len(script)
      /\ next \in 0 .. end /\ end \in {0, Len(script)} /\ (end = 0 => offset = 0)
      /\ ran \in Seq(Places)
      /\ ran = << >> => next = 0
      /\ ran # << >> => 0 < next /\ ran[Len(ran)].to = next
  BY SizeKnown DEF IInv, TypeOK, Offsets, LinesRun, Places
<1>2. CASE ScanBuffered
  <2>1. /\ ppc = "scan" /\ next < end /\ Take(next)
        /\ end' = end /\ offset' = offset /\ script' = script
        /\ ppc' = "pipe"
    BY <1>2 DEF ScanBuffered, Take
  <2>2. end = Len(script) /\ next \in 0 .. Len(script)
    BY <1>1, <2>1
  <2>3. PICK q \in (next + 1) .. Len(script) :
          ran' = Append(ran, [from |-> next, to |-> q])
    BY <2>1 DEF Take
  <2>4. /\ Len(ran) \in Nat /\ Len(ran') = Len(ran) + 1
        /\ ran'[Len(ran) + 1] = [from |-> next, to |-> q]
        /\ \A k \in 1 .. Len(ran) :
              /\ ran'[k] = ran[k]
              /\ FirstFails(k)' <=> FirstFails(k)
              /\ Follows(k)' <=> Follows(k)
    <3>1. [from |-> next, to |-> q] \in Places
      BY <1>1, <2>2 DEF Places
    <3>2. QED
      BY <1>1, <2>1, <2>3, <3>1, HistoryKept
  <2>5. Offsets'
    <3>1. SUFFICES ASSUME offset < Len(script) PROVE GoesBack(offset, FailedNow)'
      BY <1>1, <2>1 DEF Offsets
    <3>2. GoesBack(offset, FailedNow)
      BY <1>1, <2>1, <3>1 DEF IInv, Offsets
    <3>3. FailedNow \subseteq 1 .. Len(ran)
      <4>1. FailedSince(Len(ran) + 1) \subseteq 1 .. Len(ran)
        BY <2>4, FailedBefore
      <4>2. QED
        BY <4>1, FailedBefore
    <3>4. ASSUME NEW k \in FailedNow PROVE k \in FailedNow'
      <4>1. k \in 1 .. Len(ran) /\ k \in FailedSince(Len(ran) + 1)
        BY <3>3, FailedBefore
      <4>2. FirstFails(k)'
        BY <2>4, <4>1 DEF FailedSince
      <4>3. ASSUME NEW m \in k + 1 .. Len(ran') PROVE Follows(m)'
        <5>1. CASE m \in 1 .. Len(ran)
          BY <2>4, <4>1, <5>1 DEF FailedSince
        <5>2. CASE m \notin 1 .. Len(ran)
          <6>1. m = Len(ran) + 1 /\ Len(ran) \in 1 .. Len(ran) /\ m - 1 = Len(ran)
            BY <2>4, <4>1, <5>2
          <6>2. ran'[m].from = next /\ ran'[m - 1].to = next
            BY <1>1, <2>4, <6>1, EmptySeq
          <6>3. QED
            BY <6>1, <6>2 DEF Follows
        <5>3. QED
          BY <5>1, <5>2
      <4>4. k \in FailedSince(Len(ran) + 1)'
        BY <2>4, <4>1, <4>2, <4>3 DEF FailedSince
      <4>5. k # Len(ran')
        BY <2>4, <4>1
      <4>6. QED
        BY <4>4, <4>5 DEF FailedNow
    <3>5. PICK k \in FailedNow :
            offset <= ran[k].to /\ (FailedNow = {k} => offset = ran[k].to)
      BY <3>2 DEF GoesBack
    <3>6. /\ k \in FailedNow' /\ (FailedNow' = {k} => FailedNow = {k})
          /\ ran'[k] = ran[k]
      BY <2>4, <3>3, <3>4
    <3>7. QED
      BY <2>1, <3>5, <3>6 DEF GoesBack
  <2>6. QED
    BY <1>1, <2>1, <2>2, <2>5, TakeKeeps
<1>3. CASE ScanRead
  <2>1. /\ ppc = "scan" /\ next = end /\ offset < Len(script) /\ Take(offset)
        /\ end' = Len(script) /\ offset' = Len(script)
    BY <1>3 DEF ScanRead
  <2>2. script' = script
    BY <2>1 DEF Take
  <2>3. Offsets'
    BY <1>1, <2>1, <2>2 DEF Offsets
  <2>4. \/ ran = << >> /\ offset = 0
        \/ /\ ran # << >> /\ next = Len(script)
           /\ GoesBack(offset, FailedSince(Len(ran) + 1))
    <3>1. CASE end = 0
      BY <1>1, <2>1, <3>1
    <3>2. CASE end # 0
      <4>1. end > 0 /\ next = Len(script)
        BY <1>1, <2>1, <3>2
      <4>2. GoesBack(offset, FailedNow)
        BY <2>1, <4>1 DEF IInv, Offsets
      <4>3. GoesBack(offset, FailedSince(Len(ran) + 1))
        BY <4>2, FailedBefore, GoesBackMonotone
      <4>4. QED
        BY <1>1, <4>1, <4>3
    <3>3. QED
      BY <3>1, <3>2
  <2>5. QED
    BY <1>1, <2>1, <2>3, <2>4, TakeKeeps
<1>4. QED
  BY <1>2, <1>3

(* What the other steps of the shell leave as it is.                        *)
LEMMA Steady ==
  ASSUME IInv, UNCHANGED <<script, start, next, end, offset, ran>>,
         ppc' # "eof", ppc # "failed",
         1 \in DOMAIN cpc /\ HasEnded(1) => (1 \in DOMAIN cpc /\ HasEnded(1))'
  PROVE  /\ Line' = Line /\ size' = size /\ PipeEnds' = PipeEnds
         /\ Offsets' /\ InputOrder'
<1>1. size' = size
  BY DEF size
<1>2. Line' = Line
  BY <1>1 DEF Line, Children
<1>3. PipeEnds' = PipeEnds
  BY <1>1 DEF PipeEnds
<1>4. Offsets'
  BY OffsetsKept
<1>5. InputOrder'
  BY OrderKept DEF IInv, InputOrder
<1>6. QED
  BY <1>1, <1>2, <1>3, <1>4, <1>5

LEMMA ScanEOFKeeps ==
  ASSUME IInv, ScanEOF
  PROVE  IInv'
<1>1. /\ ppc = "scan" /\ ppc' = "eof" /\ next = end /\ offset = Len(script)
      /\ UNCHANGED <<script, start, next, end, i, held, leaked, ran, offset, cpc,
                     cheld, have, chan, wrote>>
  BY DEF ScanEOF
<1>2. size' = size /\ PipeEnds' = PipeEnds /\ OpenFds' = OpenFds
  BY <1>1 DEF size, PipeEnds, OpenFds
<1>3. TypeOK'
  BY <1>1, <1>2 DEF IInv, TypeOK
<1>4. ChildrenMade' /\ HeldThere'
  BY <1>1, <1>2 DEF IInv, ChildrenMade, HeldThere
<1>5. LinesRun'
  BY <1>1 DEF IInv, LinesRun
<1>6. Offsets'
  BY <1>1 DEF IInv, Offsets
<1>7. next = Len(script)
  BY <1>1 DEF IInv, TypeOK, Offsets
<1>8. InputOrder'
  BY <1>1, <1>7, OrderKept
<1>9. QED
  BY <1>3, <1>4, <1>5, <1>6, <1>8 DEF IInv

LEMMA PipeForkKeeps ==
  ASSUME IInv, PipeFork
  PROVE  IInv'
<1>1. /\ ppc = "pipe" /\ i < size /\ OpenFds + 2 <= OpenMax
      /\ i' = i + 1 /\ ppc' = "close"
      /\ held' = held \union ({i'} \X {"r", "w"})
      /\ cpc' = Append(cpc, "forked") /\ cheld' = Append(cheld, held')
      /\ chan' = Append(chan, 0) /\ wrote' = Append(wrote, 0)
      /\ UNCHANGED <<script, start, next, end, leaked, ran, offset>>
  BY DEF PipeFork
<1>2. \E h \in {0, 1} : have' = Append(have, h)
  BY DEF PipeFork
<1>3. /\ size' = size /\ PipeEnds' = PipeEnds
      /\ Offsets' /\ InputOrder'
  <2>1. cpc \in Seq(ChildPC)
    BY DEF IInv, TypeOK, ChildPC
  <2>2. 1 \in DOMAIN cpc => 1 \in DOMAIN cpc' /\ cpc'[1] = cpc[1]
    BY <1>1, <2>1, AppendProperties
  <2>3. QED
    BY <1>1, <2>2, Steady DEF HasEnded
<1>4. size \in Nat /\ i \in Nat /\ i' \in 1 .. size
  BY <1>1, SizeKnown DEF IInv, TypeOK
<1>5. held = IF i = 0 THEN {} ELSE {<<i, "r">>}
  BY <1>1 DEF IInv, HeldThere
<1>6. held' = held \union {<<i', "r">>, <<i', "w">>}
  BY <1>1
<1>7. held' \subseteq PipeEnds
  <2>1. held \subseteq PipeEnds
    BY DEF IInv, TypeOK
  <2>2. <<i', "r">> \in PipeEnds /\ <<i', "w">> \in PipeEnds
    BY <1>4 DEF PipeEnds
  <2>3. QED
    BY <1>6, <2>1, <2>2
<1>8. OpenFds' <= OpenMax
  <2>1. IsFiniteSet(held) /\ Cardinality(held) \in Nat
    BY HeldCount DEF IInv, TypeOK
  <2>2. Cardinality(held') \in Nat /\ Cardinality(held') <= Cardinality(held) + 2
    BY <1>6, <2>1, SetSizes
  <2>3. leaked \in Nat /\ leaked' = leaked /\ OpenMax \in Nat
    BY <1>1, OpenMaxAssumption DEF IInv, TypeOK
  <2>4. QED
    BY <1>1, <2>1, <2>2, <2>3 DEF OpenFds
<1>9. /\ Len(cpc) = i /\ Len(cheld) = i /\ Len(have) = i /\ Len(chan) = i
      /\ Len(wrote) = i /\ wrote \in Seq(0 .. 2)
      /\ cpc \in Seq(ChildPC) /\ cheld \in Seq(SUBSET PipeEnds)
      /\ have \in Seq({0, 1}) /\ chan \in Seq(0 .. PipeCap)
  BY <1>1 DEF IInv, ChildrenMade, TypeOK, ChildPC
<1>10. /\ cpc' \in Seq(ChildPC) /\ cheld' \in Seq(SUBSET PipeEnds)
       /\ have' \in Seq({0, 1}) /\ chan' \in Seq(0 .. PipeCap)
       /\ Len(cpc') = i + 1 /\ Len(cheld') = i + 1
       /\ Len(have') = i + 1 /\ Len(chan') = i + 1
       /\ wrote' \in Seq(0 .. 2) /\ Len(wrote') = i + 1
  <2>1. cpc' \in Seq(ChildPC) /\ Len(cpc') = i + 1
    BY <1>1, <1>9, AppendProperties DEF ChildPC
  <2>2. cheld' \in Seq(SUBSET PipeEnds) /\ Len(cheld') = i + 1
    BY <1>1, <1>7, <1>9, AppendProperties
  <2>3. have' \in Seq({0, 1}) /\ Len(have') = i + 1
    BY <1>2, <1>9, AppendProperties
  <2>4. chan' \in Seq(0 .. PipeCap) /\ Len(chan') = i + 1
    <3>1. 0 \in 0 .. PipeCap
      BY PipeCapAssumption
    <3>2. QED
      BY <1>1, <1>9, <3>1, AppendProperties
  <2>5. wrote' \in Seq(0 .. 2) /\ Len(wrote') = i + 1
    BY <1>1, <1>9, AppendProperties
  <2>6. QED
    BY <2>1, <2>2, <2>3, <2>4, <2>5
<1>11. TypeOK'
  <2>1. i' \in 0 .. size
    BY <1>4
  <2>2. QED
    BY <1>1, <1>3, <1>7, <1>8, <1>10, <2>1 DEF IInv, TypeOK, ChildPC
<1>12. ChildrenMade'
  BY <1>1, <1>3, <1>4, <1>10 DEF ChildrenMade
<1>13. HeldThere'
  <2>1. held' = {<<i', "r">>, <<i', "w">>} \union
                (IF i' = 1 THEN {} ELSE {<<i' - 1, "r">>})
    <3>1. CASE i = 0
      BY <1>1, <1>5, <1>6, <3>1
    <3>2. CASE i # 0
      <4>1. i' # 1 /\ i' - 1 = i
        BY <1>1, <1>4, <3>2
      <4>2. QED
        BY <1>5, <1>6, <3>2, <4>1, Zenon
    <3>3. QED
      BY <3>1, <3>2
  <2>2. QED
    BY <1>1, <2>1 DEF HeldThere
<1>14. LinesRun'
  BY <1>1, <1>3 DEF IInv, LinesRun
<1>15. QED
  BY <1>3, <1>11, <1>12, <1>13, <1>14 DEF IInv

LEMMA PipeFailsKeeps ==
  ASSUME IInv, PipeFails
  PROVE  IInv'
<1>1. /\ ppc = "pipe" /\ OpenFds + 2 > OpenMax /\ ppc' = "failed" /\ held' = {}
      /\ offset' = GivenBack
      /\ UNCHANGED <<script, start, next, end, i, leaked, ran, cpc, cheld, have,
                     chan, wrote>>
  BY DEF PipeFails
<1>2. size' = size /\ PipeEnds' = PipeEnds /\ offset' \in 0 .. Len(script)
  BY <1>1, SizeKnown DEF IInv, TypeOK, size, PipeEnds, GivenBack, unread
<1>3. Offsets' /\ InputOrder'
  <2>1. end = 0 => offset' = offset
    BY <1>1 DEF IInv, TypeOK, Offsets, GivenBack, unread
  <2>2. QED
    BY <1>1, <2>1, OffsetsKept, OrderKept DEF HasEnded
<1>4. Cardinality(held) \in Nat /\ Cardinality(held) <= 1
  BY <1>1, HeldCount DEF IInv, TypeOK
<1>5. leaked \in Nat /\ OpenMax \in Nat
  BY OpenMaxAssumption DEF IInv, TypeOK
<1>6. OpenFds' <= OpenMax /\ leaked > OpenMax - 6
  <2>1. Cardinality(held') = 0
    BY <1>1, FS_EmptySet
  <2>2. OpenFds <= OpenMax
    BY DEF IInv, TypeOK
  <2>3. QED
    BY <1>1, <1>4, <1>5, <2>1, <2>2 DEF OpenFds
<1>7. TypeOK'
  BY <1>1, <1>2, <1>6 DEF IInv, TypeOK
<1>8. ChildrenMade' /\ HeldThere'
  BY <1>1, <1>2 DEF IInv, ChildrenMade, HeldThere
<1>9. LinesRun'
  BY <1>1, <1>2, <1>6 DEF IInv, LinesRun
<1>10. QED
  BY <1>2, <1>3, <1>7, <1>8, <1>9 DEF IInv

LEMMA ParentCloseKeeps ==
  ASSUME IInv, ParentClose
  PROVE  IInv'
<1>1. /\ ppc = "close" /\ ppc' = "pipe" /\ held' = held \ Closed
      /\ UNCHANGED <<script, start, next, end, i, leaked, ran, offset, cpc, cheld, have,
                     chan, wrote>>
  BY DEF ParentClose
<1>2. /\ size' = size /\ PipeEnds' = PipeEnds
      /\ Offsets' /\ InputOrder'
  BY <1>1, Steady DEF HasEnded
<1>3. OpenFds' <= OpenMax
  <2>1. IsFiniteSet(held) /\ Cardinality(held) \in Nat
    BY HeldCount DEF IInv, TypeOK
  <2>2. held' \subseteq held
    BY <1>1
  <2>3. IsFiniteSet(held') /\ Cardinality(held') <= Cardinality(held)
    BY <2>1, <2>2, FS_Subset
  <2>4. Cardinality(held') \in Nat
    BY <2>3, FS_CardinalityType
  <2>5. leaked \in Nat /\ OpenMax \in Nat /\ leaked' = leaked /\ OpenFds <= OpenMax
    BY <1>1, OpenMaxAssumption DEF IInv, TypeOK
  <2>6. QED
    BY <2>1, <2>3, <2>4, <2>5 DEF OpenFds
<1>4. TypeOK'
  BY <1>1, <1>2, <1>3 DEF IInv, TypeOK
<1>5. ChildrenMade'
  BY <1>1, <1>2 DEF IInv, ChildrenMade
<1>6. HeldThere'
  <2>1. i >= 1 /\ i \in Int
    BY <1>1 DEF IInv, ChildrenMade, TypeOK
  <2>2. held = {<<i, "r">>, <<i, "w">>} \union
               (IF i = 1 THEN {} ELSE {<<i - 1, "r">>})
    BY <1>1 DEF IInv, HeldThere
  <2>3. <<i, "r">> # <<i, "w">> /\ <<i, "r">> # <<i - 1, "r">>
    BY <2>1
  <2>4. held' = {<<i, "r">>}
    <3>1. Closed = {<<i, "w">>, <<i - 1, "r">>}
      BY DEF Closed
    <3>2. QED
      BY <1>1, <2>2, <2>3, <3>1, Zenon
  <2>5. QED
    BY <1>1, <2>1, <2>4 DEF HeldThere
<1>7. LinesRun'
  BY <1>1, <1>2 DEF IInv, LinesRun
<1>8. QED
  BY <1>2, <1>4, <1>5, <1>6, <1>7 DEF IInv

LEMMA WaitStartKeeps ==
  ASSUME IInv, WaitStart
  PROVE  IInv'
<1>1. /\ ppc = "pipe" /\ i = size /\ ppc' = "wait"
      /\ UNCHANGED <<script, start, next, end, i, held, leaked, ran, offset, cpc, cheld,
                     have, chan, wrote>>
  BY DEF WaitStart
<1>2. /\ size' = size /\ PipeEnds' = PipeEnds
      /\ Offsets' /\ InputOrder'
  BY <1>1, Steady DEF HasEnded
<1>3. OpenFds' = OpenFds
  BY <1>1 DEF OpenFds
<1>4. TypeOK'
  BY <1>1, <1>2, <1>3 DEF IInv, TypeOK
<1>5. ChildrenMade' /\ HeldThere'
  <2>1. size # 0
    BY <1>1, SizeKnown DEF IInv, LinesRun, size
  <2>2. QED
    BY <1>1, <1>2, <2>1 DEF IInv, ChildrenMade, HeldThere
<1>6. LinesRun'
  BY <1>1, <1>2 DEF IInv, LinesRun
<1>7. QED
  BY <1>2, <1>4, <1>5, <1>6 DEF IInv

LEMMA WaitKeeps ==
  ASSUME IInv, Wait
  PROVE  IInv'
<1>1. /\ ppc = "wait" /\ ppc' = ppc /\ i > 0 /\ i' = i - 1
      /\ UNCHANGED <<script, start, next, end, held, leaked, ran, offset, cheld, have,
                     chan, wrote>>
  BY DEF Wait
<1>2. PICK c \in Children : /\ cpc[c] = "zombie"
                            /\ cpc' = [cpc EXCEPT ![c] = "reaped"]
  BY DEF Wait
<1>3. /\ size' = size /\ PipeEnds' = PipeEnds
      /\ Offsets' /\ InputOrder'
  BY <1>1, <1>2, Steady DEF HasEnded
<1>4. OpenFds' = OpenFds
  BY <1>1 DEF OpenFds
<1>5. cpc' \in Seq(ChildPC) /\ Len(cpc') = Len(cpc)
  <2>1. cpc \in Seq(ChildPC) /\ "reaped" \in ChildPC
    BY DEF IInv, TypeOK, ChildPC
  <2>2. CASE c \in 1 .. Len(cpc)
    BY <1>2, <2>1, <2>2, ExceptSeq
  <2>3. CASE c \notin 1 .. Len(cpc)
    <3>1. DOMAIN cpc = 1 .. Len(cpc) /\ cpc = [k \in DOMAIN cpc |-> cpc[k]]
      BY <2>1
    <3>2. cpc' = cpc
      BY <1>2, <2>3, <3>1
    <3>3. QED
      BY <2>1, <3>2
  <2>4. QED
    BY <2>2, <2>3
<1>6. i' \in 0 .. size
  <2>1. size \in Nat
    BY SizeKnown
  <2>2. i \in 0 .. size
    BY DEF IInv, TypeOK
  <2>3. QED
    BY <1>1, <2>1, <2>2
<1>7. TypeOK'
  BY <1>1, <1>3, <1>4, <1>5, <1>6 DEF IInv, TypeOK, ChildPC
<1>8. ChildrenMade' /\ HeldThere'
  BY <1>1, <1>3, <1>5 DEF IInv, ChildrenMade, HeldThere
<1>9. LinesRun'
  BY <1>1, <1>3 DEF IInv, LinesRun
<1>10. QED
  BY <1>3, <1>7, <1>8, <1>9 DEF IInv

(* A line has cost the shell one descriptor.                                *)
LEMMA WaitEndKeeps ==
  ASSUME IInv, WaitEnd
  PROVE  IInv'
<1>1. /\ ppc = "wait" /\ ppc' = "scan" /\ i = 0
      /\ leaked' = leaked + Cardinality(held) /\ held' = {}
      /\ UNCHANGED <<script, start, next, end, i, ran, offset, cpc, cheld, have, chan, wrote>>
  BY DEF WaitEnd
<1>2. /\ size' = size /\ PipeEnds' = PipeEnds
      /\ Offsets' /\ InputOrder'
  BY <1>1, Steady DEF HasEnded
<1>3. Cardinality(held) \in Nat /\ Cardinality(held) = 1
  BY <1>1, HeldCount DEF IInv, TypeOK
<1>4. /\ leaked \in Nat /\ OpenFds <= OpenMax
      /\ Len(ran) \in Nat /\ leaked = Len(ran) - 1
  BY <1>1 DEF IInv, TypeOK, LinesRun
<1>5. leaked' \in Nat /\ OpenFds' <= OpenMax
  <2>1. Cardinality(held') = 0
    BY <1>1, FS_EmptySet
  <2>2. leaked \in Nat /\ OpenFds <= OpenMax /\ Cardinality(held) \in Nat
        /\ leaked' = leaked + Cardinality(held)
    BY <1>1, <1>3, <1>4
  <2>3. leaked' \in Nat /\ OpenFds' = OpenFds
    BY <2>1, <2>2 DEF OpenFds
  <2>4. QED
    BY <2>2, <2>3
<1>6. TypeOK'
  BY <1>1, <1>2, <1>5 DEF IInv, TypeOK
<1>7. ChildrenMade' /\ HeldThere'
  BY <1>1, <1>2 DEF IInv, ChildrenMade, HeldThere
<1>8. leaked' = Len(ran)
  BY <1>1, <1>3, <1>4
<1>9. LinesRun'
  BY <1>1, <1>2, <1>8 DEF IInv, LinesRun
<1>10. QED
  BY <1>2, <1>6, <1>7, <1>9 DEF IInv

LEMMA NextIInv ==
  ASSUME IInv, [Next]_vars
  PROVE  IInv'
<1>1. CASE UNCHANGED vars
  <2>1. UNCHANGED <<script, start, next, end, ppc, i, held, leaked, ran, offset, cpc, cheld,
                    have, chan, wrote>>
    BY <1>1 DEF vars, shell
  <2>2. size' = size /\ PipeEnds' = PipeEnds /\ OpenFds' = OpenFds
    BY <2>1 DEF size, PipeEnds, OpenFds
  <2>3. TypeOK'
    BY <2>1, <2>2 DEF IInv, TypeOK
  <2>4. ChildrenMade' /\ HeldThere'
    BY <2>1, <2>2 DEF IInv, ChildrenMade, HeldThere
  <2>5. LinesRun' /\ Offsets' /\ InputOrder'
    BY <2>1, OffsetsKept, OrderKept DEF IInv, LinesRun, HasEnded, InputOrder
  <2>6. QED
    BY <2>3, <2>4, <2>5 DEF IInv
<1>2. CASE Next
  <2>1. Shell => IInv'
    BY ScanKeeps, ScanEOFKeeps, PipeForkKeeps, PipeFailsKeeps, ParentCloseKeeps,
       WaitStartKeeps, WaitKeeps, WaitEndKeeps DEF Shell
  <2>2. ASSUME NEW c \in DOMAIN cpc, Child(c) PROVE IInv'
    BY <2>2, ChildKeeps
  <2>3. QED
    BY <1>2, <2>1, <2>2 DEF Next
<1>3. QED
  BY <1>1, <1>2

(***************************************************************************)
(* The units of a line.  A step of a child touches its own state and the   *)
(* pipes on either side of it.                                             *)
(***************************************************************************)
LEMMA ChildDomains ==
  ASSUME IInv
  PROVE  /\ Len(cpc) \in Nat /\ size \in Nat /\ Len(cpc) <= size
         /\ DOMAIN cpc = 1 .. Len(cpc) /\ DOMAIN cheld = 1 .. Len(cpc)
         /\ DOMAIN have = 1 .. Len(cpc) /\ DOMAIN chan = 1 .. Len(cpc)
         /\ DOMAIN wrote = 1 .. Len(cpc)
         /\ \A c \in 1 .. Len(cpc) :
              /\ cpc[c] \in ChildPC /\ have[c] \in {0, 1}
              /\ wrote[c] \in 0 .. 2 /\ chan[c] \in Nat
<1>1. /\ cpc \in Seq(ChildPC) /\ cheld \in Seq(SUBSET PipeEnds)
      /\ have \in Seq({0, 1}) /\ chan \in Seq(0 .. PipeCap) /\ wrote \in Seq(0 .. 2)
      /\ Len(cheld) = Len(cpc) /\ Len(have) = Len(cpc) /\ Len(chan) = Len(cpc)
      /\ Len(wrote) = Len(cpc) /\ Len(cpc) <= size
  BY DEF IInv, TypeOK, ChildrenMade, ChildPC
<1>2. size \in Nat
  BY SizeKnown
<1>3. PipeCap \in Nat
  BY PipeCapAssumption
<1>4. ASSUME NEW c \in 1 .. Len(cpc)
      PROVE  /\ cpc[c] \in ChildPC /\ have[c] \in {0, 1}
             /\ wrote[c] \in 0 .. 2 /\ chan[c] \in Nat
  <2>1. /\ c \in 1 .. Len(have) /\ c \in 1 .. Len(chan) /\ c \in 1 .. Len(wrote)
    BY <1>1
  <2>2. chan[c] \in 0 .. PipeCap
    BY <1>1, <2>1, ElementOfSeq
  <2>3. QED
    BY <1>1, <1>3, <2>1, <2>2, ElementOfSeq
<1>5. QED
  BY <1>1, <1>2, <1>4

LEMMA ChildFrame ==
  ASSUME IInv, NEW c \in DOMAIN cpc, Child(c)
  PROVE  /\ UNCHANGED shell /\ Line' = Line /\ size' = size
         /\ Len(cpc') = Len(cpc) /\ DOMAIN cpc' = DOMAIN cpc
         /\ cpc[c] \in {"forked", "run"} /\ cpc'[c] \in {"run", "zombie"}
         /\ \A d \in 1 .. Len(cpc) : d # c =>
              /\ cpc'[d] = cpc[d] /\ cheld'[d] = cheld[d]
              /\ have'[d] = have[d] /\ wrote'[d] = wrote[d]
              /\ d # c - 1 => chan'[d] = chan[d]
<1>1. /\ UNCHANGED shell /\ Len(cpc') = Len(cpc) /\ cpc' \in Seq(ChildPC)
  BY ChildMoves DEF ChildTypes
<1>2. Line' = Line /\ size' = size
  BY <1>1 DEF shell, Line, Children, size
<1>3. /\ Len(cpc) \in Nat
      /\ DOMAIN cpc = 1 .. Len(cpc) /\ DOMAIN cheld = 1 .. Len(cpc)
      /\ DOMAIN have = 1 .. Len(cpc) /\ DOMAIN chan = 1 .. Len(cpc)
      /\ DOMAIN wrote = 1 .. Len(cpc)
  BY ChildDomains
<1>4. DOMAIN cpc' = DOMAIN cpc
  BY <1>1, <1>3
<1> DEFINE Apart == \A d \in 1 .. Len(cpc) : d # c =>
              /\ cpc'[d] = cpc[d] /\ cheld'[d] = cheld[d]
              /\ have'[d] = have[d] /\ wrote'[d] = wrote[d]
              /\ d # c - 1 => chan'[d] = chan[d]
<1> DEFINE Moves == cpc[c] \in {"forked", "run"} /\ cpc'[c] \in {"run", "zombie"}
<1>5. Exec(c) => Moves /\ Apart
  BY <1>3 DEF Exec
<1>6. ExecCrashes(c) => Moves /\ Apart
  BY <1>3 DEF ExecCrashes, Ends
<1>7. Read(c) => Moves /\ Apart
  BY <1>3 DEF Read, Reads
<1>8. ReadEOF(c) => Moves /\ Apart
  BY <1>3 DEF ReadEOF, Reads, Ends
<1>9. WriteKilled(c) => Moves /\ Apart
  BY <1>3 DEF WriteKilled, Writes, Ends
<1>10. ASSUME WriteTerminal(c) \/ WritePipe(c) PROVE Moves /\ Apart
  <2>1. AfterWrite(c) /\ cpc[c] = "run"
    BY <1>10 DEF WriteTerminal, WritePipe, Writes
  <2>2. \A d \in 1 .. Len(cpc) : d # c => chan'[d] = chan[d]
    BY <1>3, <1>10 DEF WriteTerminal, WritePipe
  <2>3. /\ have' = [have EXCEPT ![c] = 0]
        /\ wrote' = [wrote EXCEPT ![c] = Sat(@ + 1)]
        /\ \/ UNCHANGED <<cpc, cheld>>
           \/ /\ cpc' = [cpc EXCEPT ![c] = "zombie"]
              /\ cheld' = [cheld EXCEPT ![c] = {}]
    BY <2>1 DEF AfterWrite, Ends
  <2>4. QED
    BY <1>3, <2>1, <2>2, <2>3
<1>11. Moves /\ Apart
  BY <1>5, <1>6, <1>7, <1>8, <1>9, <1>10 DEF Child
<1>12. QED
  BY <1>1, <1>2, <1>4, <1>11

(* A child that has not ended still has its output and the pipe before it.  *)
LEMMA ChildEndsKept ==
  ASSUME IInv, EndsKept, NEW c \in DOMAIN cpc, Child(c)
  PROVE  EndsKept'
<1>1. /\ DOMAIN cpc' = DOMAIN cpc /\ DOMAIN cpc = 1 .. Len(cpc)
      /\ DOMAIN cheld = 1 .. Len(cpc) /\ c \in 1 .. Len(cpc) /\ Len(cpc) \in Nat
      /\ cpc[c] \in {"forked", "run"} /\ cpc'[c] \in {"run", "zombie"}
      /\ \A d \in 1 .. Len(cpc) : d # c => cpc'[d] = cpc[d] /\ cheld'[d] = cheld[d]
  BY ChildDomains, ChildFrame
<1>2. <<c, "w">> \in cheld[c] /\ (c > 1 => <<c - 1, "r">> \in cheld[c])
  <2>1. ~ HasEnded(c)
    BY <1>1 DEF HasEnded
  <2>2. QED
    BY <2>1 DEF EndsKept
<1>3. cpc'[c] = "run" => cheld'[c] = cheld[c] \/ cheld'[c] = cheld[c] \ {<<c, "r">>}
  <2>1. Exec(c) => cheld'[c] = cheld[c] \ {<<c, "r">>}
    BY <1>1 DEF Exec, ClosedByChild
  <2>2. ExecCrashes(c) \/ ReadEOF(c) \/ WriteKilled(c) => cpc'[c] = "zombie"
    BY <1>1 DEF ExecCrashes, ReadEOF, WriteKilled, Ends
  <2>3. Read(c) => cheld'[c] = cheld[c]
    BY DEF Read
  <2>4. WriteTerminal(c) \/ WritePipe(c) => cpc'[c] = "zombie" \/ cheld'[c] = cheld[c]
    BY <1>1 DEF WriteTerminal, WritePipe, AfterWrite, Ends
  <2>5. QED
    BY <2>1, <2>2, <2>3, <2>4 DEF Child
<1>4. ASSUME NEW d \in 1 .. Len(cpc), ~ HasEnded(d)'
      PROVE  <<d, "w">> \in cheld'[d] /\ (d > 1 => <<d - 1, "r">> \in cheld'[d])
  <2>1. CASE d = c
    <3>1. cpc'[c] = "run"
      BY <1>1, <1>4, <2>1 DEF HasEnded
    <3>2. <<c, "w">> # <<c, "r">> /\ <<c - 1, "r">> # <<c, "r">>
      BY <1>1
    <3>3. QED
      BY <1>2, <1>3, <2>1, <3>1, <3>2
  <2>2. CASE d # c
    BY <1>1, <1>4, <2>2 DEF EndsKept, HasEnded
  <2>3. QED
    BY <2>1, <2>2
<1>5. QED
  BY <1>1, <1>4 DEF EndsKept

(* No child takes itself off the list of those that the shell waits for.    *)
LEMMA ChildAwaited ==
  ASSUME IInv, ChildrenAwaited, NEW c \in DOMAIN cpc, Child(c)
  PROVE  ChildrenAwaited'
<1>1. /\ DOMAIN cpc' = DOMAIN cpc /\ DOMAIN cpc = 1 .. Len(cpc)
      /\ Len(cpc') = Len(cpc) /\ size' = size /\ UNCHANGED shell
      /\ cpc[c] \in {"forked", "run"} /\ cpc'[c] \in {"run", "zombie"}
      /\ \A d \in 1 .. Len(cpc) : d # c => cpc'[d] = cpc[d]
  BY ChildDomains, ChildFrame
<1>2. \A d \in DOMAIN cpc : cpc'[d] # "reaped" <=> cpc[d] # "reaped"
  BY <1>1
<1>3. { d \in DOMAIN cpc' : cpc'[d] # "reaped" } = { d \in DOMAIN cpc : cpc[d] # "reaped" }
  BY <1>1, <1>2
<1>4. QED
  BY <1>1, <1>3 DEF ChildrenAwaited, shell

(* What each program has in hand and has written.                           *)
LEMMA ChildProgramsKept ==
  ASSUME IInv, ProgramsKept, NEW c \in DOMAIN cpc, Child(c)
  PROVE  ProgramsKept'
<1>1. /\ UNCHANGED shell /\ Line' = Line /\ ppc' = ppc
      /\ DOMAIN cpc' = DOMAIN cpc /\ DOMAIN cpc = 1 .. Len(cpc)
      /\ DOMAIN have = 1 .. Len(cpc) /\ DOMAIN wrote = 1 .. Len(cpc)
      /\ c \in 1 .. Len(cpc) /\ Len(cpc) \in Nat
      /\ cpc[c] \in {"forked", "run"} /\ cpc'[c] \in {"run", "zombie"}
      /\ \A d \in 1 .. Len(cpc) : d # c =>
           cpc'[d] = cpc[d] /\ have'[d] = have[d] /\ wrote'[d] = wrote[d]
  BY ChildDomains, ChildFrame DEF shell
<1>2. \A d \in 1 .. Len(cpc) : have[d] \in {0, 1} /\ wrote[d] \in 0 .. 2
  BY ChildDomains
<1>3. script' = script /\ (offset' = offset \/ offset' = Len(script)
                            \/ (c = 1 /\ Line[1] = "bad"))
  BY <1>1, ChildMoves DEF shell
<1> USE DEF ProgramKept
<1>4. \A d \in DOMAIN cpc : ProgramKept(d)
  BY DEF ProgramsKept
<1>5. Line[c] \in Programs
  <2>1. Line \in Seq(Programs) /\ c \in 1 .. Len(Line)
    BY <1>1, ChildDomains, SizeKnown
  <2>2. QED
    BY <2>1, ElementOfSeq
<1>6. ProgramKept(c)
  BY <1>1, <1>4
<1>7. ProgramKept(c)'
  <2>1. CASE Exec(c) \/ ExecCrashes(c) \/ ReadEOF(c) \/ WriteKilled(c)
    <3>1. have' = have /\ wrote' = wrote
      BY <2>1 DEF Exec, ExecCrashes, ReadEOF, WriteKilled
    <3>2. /\ cpc'[c] = "run" => cpc[c] = "forked" /\ Line[c] # ""
          /\ offset' = offset
      BY <1>1, <2>1 DEF Exec, ExecCrashes, ReadEOF, WriteKilled, Ends
    <3>3. Taken(c)' = Taken(c)
      BY <1>1, <3>1 DEF Taken
    <3>4. c = 1 /\ ppc # "failed" =>
            Taken(c)' <= 1 /\ (Taken(c)' = 1 => offset' = Len(script'))
      BY <1>3, <1>6, <3>2, <3>3
    <3>5. QED
      BY <1>1, <1>6, <3>1, <3>2, <3>4
  <2>2. CASE Read(c)
    <3>1. /\ cpc[c] = "run" /\ Line[c] \in {"cat", "head"} /\ have[c] = 0
          /\ have'[c] = 1 /\ wrote'[c] = wrote[c] /\ cpc'[c] = "run"
          /\ c = 1 => offset < Len(script) /\ offset' = Len(script)
      BY <1>1, <2>2 DEF Read, Reads
    <3>2. Taken(c) = wrote[c] /\ Taken(c)' = 1 + wrote[c]
      BY <1>1, <1>2, <3>1 DEF Taken
    <3>3. offset \in Nat /\ Len(script) \in Nat
      BY ScriptsAssumption DEF IInv, TypeOK
    <3>4. c = 1 /\ ppc # "failed" => wrote[c] = 0
      <4>1. c = 1 /\ ppc # "failed" => Taken(c) <= 1 /\ (Taken(c) = 1 => offset = Len(script))
        BY <1>6
      <4>2. wrote[c] \in 0 .. 2
        BY <1>1, <1>2
      <4>3. QED
        BY <3>1, <3>2, <3>3, <4>1, <4>2
    <3>5. c = 1 /\ ppc # "failed" =>
            Taken(c)' <= 1 /\ (Taken(c)' = 1 => offset' = Len(script'))
      BY <1>3, <3>1, <3>2, <3>4
    <3>6. Line[c] = "head" => wrote[c] = 0
      BY <1>6, <3>1
    <3>7. CASE Line[c] = "cat"
      BY <1>1, <3>1, <3>5, <3>7
    <3>8. CASE Line[c] = "head"
      <4>1. have'[c] = 1 /\ wrote'[c] = 0
        BY <3>1, <3>6, <3>8
      <4>2. QED
        BY <1>1, <3>1, <3>5, <3>8, <4>1
    <3>9. QED
      BY <3>1, <3>7, <3>8
  <2>3. CASE WriteTerminal(c) \/ WritePipe(c)
    <3>1. /\ cpc[c] = "run" /\ (have[c] = 1 \/ Line[c] = "yes")
          /\ have'[c] = 0 /\ wrote'[c] = Sat(wrote[c] + 1)
          /\ offset' = offset \/ Line[c] = "bad"
          /\ cpc'[c] = IF Line[c] \in {"gen", "head", "bad"} THEN "zombie" ELSE "run"
      BY <1>1, <2>3 DEF WriteTerminal, WritePipe, Writes, AfterWrite, OffsetAfter, Ends
    <3>2. CASE Line[c] = "cat"
      <4>1. have[c] = 1
        BY <3>1, <3>2
      <4>2. Taken(c) = 1 + wrote[c] /\ Taken(c)' = Sat(wrote[c] + 1)
        BY <1>1, <1>2, <3>1, <3>2, <4>1 DEF Taken, Sat
      <4>3. c = 1 /\ ppc # "failed" =>
              Taken(c)' <= 1 /\ (Taken(c)' = 1 => offset' = Len(script'))
        <5>1. c = 1 /\ ppc # "failed" =>
                Taken(c) <= 1 /\ (Taken(c) = 1 => offset = Len(script))
          BY <1>6
        <5>2. wrote[c] \in 0 .. 2
          BY <1>1, <1>2
        <5>3. QED
          BY <1>3, <3>1, <3>2, <4>2, <5>1, <5>2 DEF Sat
      <4>4. QED
        BY <1>1, <3>1, <3>2, <4>3
    <3>3. CASE Line[c] = "head"
      <4>1. have[c] = 1 /\ wrote[c] = 0 /\ wrote'[c] = 1
        BY <1>1, <1>6, <3>1, <3>3 DEF Sat
      <4>2. Taken(c) = 1 /\ Taken(c)' = 1
        BY <1>1, <3>1, <3>3, <4>1 DEF Taken
      <4>3. QED
        BY <1>1, <1>3, <1>6, <3>1, <3>3, <4>1, <4>2
    <3>4. CASE Line[c] \in {"gen", "bad"}
      <4>1. wrote[c] = 0 /\ wrote'[c] = 1
        <5>1. have[c] = 1 /\ have[c] + wrote[c] = 1
          BY <1>6, <3>1, <3>4
        <5>2. wrote[c] \in 0 .. 2
          BY <1>1, <1>2
        <5>3. QED
          BY <3>1, <5>1, <5>2 DEF Sat
      <4>2. Taken(c)' = 0
        BY <1>1, <3>4 DEF Taken
      <4>3. cpc'[c] = "zombie" /\ have'[c] = 0
        BY <3>1, <3>4
      <4>4. Line'[c] = Line[c]
        BY <1>1
      <4>5. CASE Line[c] = "gen"
        BY <4>1, <4>2, <4>3, <4>4, <4>5
      <4>6. CASE Line[c] = "bad"
        BY <4>1, <4>2, <4>3, <4>4, <4>6
      <4>7. QED
        BY <3>4, <4>5, <4>6
    <3>5. CASE Line[c] = "yes"
      <4>1. Taken(c)' = 0
        BY <1>1, <3>5 DEF Taken
      <4>2. QED
        BY <1>1, <3>1, <3>5, <4>1
    <3>6. Line[c] # ""
      BY <1>6, <3>1
    <3>7. QED
      BY <1>5, <3>2, <3>3, <3>4, <3>5, <3>6 DEF Programs
  <2>4. QED
    BY <2>1, <2>2, <2>3 DEF Child
<1>8. ASSUME NEW d \in DOMAIN cpc, d # c PROVE ProgramKept(d)'
  <2>1. /\ cpc'[d] = cpc[d] /\ have'[d] = have[d] /\ wrote'[d] = wrote[d]
        /\ Taken(d)' = Taken(d) /\ ProgramKept(d)
    BY <1>1, <1>4, <1>8 DEF Taken
  <2>2. d = 1 /\ ppc # "failed" =>
          Taken(d) <= 1 /\ (Taken(d) = 1 => offset' = Len(script))
    BY <1>3, <1>8, <2>1
  <2>3. QED
    BY <1>1, <1>3, <2>1, <2>2
<1>9. \A d \in DOMAIN cpc' : ProgramKept(d)'
  BY <1>1, <1>7, <1>8
<1>10. QED
  BY <1>9 DEF ProgramsKept

LEMMA SatAdd ==
  ASSUME NEW a \in Nat, NEW b \in Nat
  PROVE  /\ Sat(a) \in 0 .. 2
         /\ Sat(a + Sat(b)) = Sat(a + b) /\ Sat(Sat(a) + b) = Sat(a + b)
BY DEF Sat

(* A unit written is in the pipe, and one read is in hand.                  *)
LEMMA ChildUnitsKept ==
  ASSUME IInv, UnitsKept, NEW c \in DOMAIN cpc, Child(c)
  PROVE  UnitsKept'
<1>1. /\ Line' = Line /\ size' = size /\ Len(cpc') = Len(cpc)
      /\ DOMAIN cpc' = DOMAIN cpc /\ DOMAIN cpc = 1 .. Len(cpc)
      /\ DOMAIN have = 1 .. Len(cpc) /\ DOMAIN wrote = 1 .. Len(cpc)
      /\ DOMAIN chan = 1 .. Len(cpc)
      /\ c \in 1 .. Len(cpc) /\ Len(cpc) \in Nat
      /\ \A d \in 1 .. Len(cpc) : d # c =>
           /\ have'[d] = have[d] /\ wrote'[d] = wrote[d]
           /\ d # c - 1 => chan'[d] = chan[d]
  BY ChildDomains, ChildFrame
<1>2. \A d \in 1 .. Len(cpc) :
        have[d] \in {0, 1} /\ wrote[d] \in 0 .. 2 /\ chan[d] \in Nat
  BY ChildDomains
<1>3. \A d \in 1 .. Len(cpc) : Taken(d) \in Nat
  BY <1>2 DEF Taken
<1>4. \A d \in 1 .. Len(cpc) : d # c => Taken(d)' = Taken(d)
  BY <1>1 DEF Taken
<1> DEFINE Behind(d) == IF d < Len(cpc) THEN Taken(d + 1) ELSE 0
<1>5. \A d \in 1 .. Len(cpc) : d < size => wrote[d] = Sat(chan[d] + Behind(d))
  BY <1>1 DEF UnitsKept
<1>6. \A d \in 1 .. Len(cpc) : Behind(d) \in Nat
  BY <1>1, <1>3
<1>7. ASSUME NEW d \in 1 .. Len(cpc), d # c - 1
      PROVE  Behind(d)' = Behind(d)
  <2>1. d < Len(cpc) => d + 1 \in 1 .. Len(cpc) /\ d + 1 # c
    BY <1>1, <1>7
  <2>2. d < Len(cpc) => Taken(d + 1)' = Taken(d + 1)
    BY <1>4, <2>1
  <2>3. QED
    BY <1>1, <2>2
<1>8. c > 1 => c - 1 \in 1 .. Len(cpc)
               /\ Behind(c - 1) = Taken(c) /\ Behind(c - 1)' = Taken(c)'
  <2> SUFFICES ASSUME c > 1
               PROVE  c - 1 \in 1 .. Len(cpc)
                      /\ Behind(c - 1) = Taken(c) /\ Behind(c - 1)' = Taken(c)'
    OBVIOUS
  <2>1. c - 1 \in 1 .. Len(cpc) /\ c - 1 < Len(cpc) /\ (c - 1) + 1 = c
    BY <1>1
  <2>2. QED
    BY <1>1, <2>1
<1> HIDE DEF Behind
<1> DEFINE Goal == \A d \in 1 .. Len(cpc) :
                     d < size => wrote'[d] = Sat(chan'[d] + Behind(d)')
<1>9. Exec(c) \/ ExecCrashes(c) \/ ReadEOF(c) \/ WriteKilled(c) => Goal
  <2> SUFFICES ASSUME Exec(c) \/ ExecCrashes(c) \/ ReadEOF(c)
                        \/ WriteKilled(c)
               PROVE  Goal
    OBVIOUS
  <2>1. have' = have /\ wrote' = wrote /\ chan' = chan
    BY DEF Exec, ExecCrashes, ReadEOF, WriteKilled
  <2>2. Taken(c)' = Taken(c)
    BY <1>1, <2>1 DEF Taken
  <2>3. \A d \in 1 .. Len(cpc) : Behind(d)' = Behind(d)
    BY <1>7, <1>8, <2>2
  <2>4. QED
    BY <1>5, <2>1, <2>3
<1>10. Read(c) => Goal
  <2> SUFFICES ASSUME Read(c), NEW d \in 1 .. Len(cpc), d < size
               PROVE  wrote'[d] = Sat(chan'[d] + Behind(d)')
    OBVIOUS
  <2>1. /\ Line[c] \in {"cat", "head"} /\ have[c] = 0 /\ have'[c] = 1
        /\ wrote' = wrote
        /\ IF c = 1 THEN chan' = chan
                    ELSE chan[c - 1] > 0 /\ chan' = [chan EXCEPT ![c - 1] = @ - 1]
    BY <1>1 DEF Read, Reads
  <2>2. CASE d = c - 1
    <3>1. c > 1 /\ c # 1 /\ chan[d] \in Nat /\ Taken(c) \in Nat
      BY <1>1, <1>2, <1>3, <2>2
    <3>2. chan'[d] = chan[d] - 1
      BY <1>1, <2>1, <2>2, <3>1
    <3>3. Taken(c)' = Taken(c) + 1
      BY <1>1, <1>2, <2>1 DEF Taken
    <3>4. Behind(d) = Taken(c) /\ Behind(d)' = Taken(c) + 1
      BY <1>8, <2>2, <3>1, <3>3
    <3>5. chan'[d] + Behind(d)' = chan[d] + Behind(d)
      BY <3>1, <3>2, <3>4
    <3>6. QED
      BY <1>5, <2>1, <3>5
  <2>3. CASE d # c - 1
    <3>1. chan'[d] = chan[d]
      BY <1>1, <2>1, <2>3
    <3>2. QED
      BY <1>5, <1>7, <2>1, <2>3, <3>1
  <2>4. QED
    BY <2>2, <2>3
<1>11. WriteTerminal(c) \/ WritePipe(c) => Goal
  <2> SUFFICES ASSUME WriteTerminal(c) \/ WritePipe(c),
                      NEW d \in 1 .. Len(cpc), d < size
               PROVE  wrote'[d] = Sat(chan'[d] + Behind(d)')
    OBVIOUS
  <2>1. /\ have[c] = 1 \/ Line[c] = "yes"
        /\ have'[c] = 0 /\ wrote'[c] = Sat(wrote[c] + 1)
        /\ \/ c = size /\ chan' = chan
           \/ chan' = [chan EXCEPT ![c] = @ + 1]
    BY <1>1 DEF WriteTerminal, WritePipe, Writes, AfterWrite
  <2>2. CASE d = c
    <3>1. c # size /\ d # c - 1 /\ chan[c] \in Nat /\ Behind(c) \in Nat /\ wrote[c] \in Nat
      BY <1>1, <1>2, <1>6, <2>2, ChildDomains
    <3>2. chan'[c] = chan[c] + 1
      BY <1>1, <2>1, <3>1
    <3>3. wrote'[c] = Sat((chan[c] + Behind(c)) + 1)
      <4>1. wrote[c] = Sat(chan[c] + Behind(c))
        BY <1>1, <1>5, <2>2
      <4>2. chan[c] + Behind(c) \in Nat
        BY <3>1
      <4>3. Sat(Sat(chan[c] + Behind(c)) + 1) = Sat((chan[c] + Behind(c)) + 1)
        BY <4>2, SatAdd
      <4>4. QED
        BY <2>1, <4>1, <4>3
    <3>4. (chan[c] + Behind(c)) + 1 = (chan[c] + 1) + Behind(c)
      BY <3>1
    <3>5. QED
      BY <1>7, <2>2, <3>1, <3>2, <3>3, <3>4
  <2>3. CASE d = c - 1
    <3>1. c > 1 /\ chan[d] \in Nat /\ Taken(c) \in Nat /\ d # c /\ chan'[d] = chan[d]
      BY <1>1, <1>2, <1>3, <2>1, <2>3
    <3>2. Taken(c)' = Sat(Taken(c))
      BY <1>1, <1>2, <2>1 DEF Taken, Sat
    <3>3. Sat(chan[d] + Sat(Taken(c))) = Sat(chan[d] + Taken(c))
      BY <3>1, SatAdd
    <3>4. wrote[d] = Sat(chan[d] + Taken(c)) /\ Behind(d)' = Sat(Taken(c))
      BY <1>5, <1>8, <2>3, <3>1, <3>2
    <3>5. wrote'[d] = wrote[d]
      BY <1>1, <3>1
    <3>6. QED
      BY <3>1, <3>3, <3>4, <3>5
  <2>4. CASE d # c /\ d # c - 1
    BY <1>1, <1>5, <1>7, <2>4
  <2>5. QED
    BY <2>2, <2>3, <2>4
<1>12. Goal
  BY <1>9, <1>10, <1>11 DEF Child
<1>13. QED
  BY <1>1, <1>12 DEF UnitsKept, Behind

(* An end of file is met behind a program that has come to its end, and     *)
(* SIGPIPE before one that has.                                             *)
LEMMA ChildEndsInOrder ==
  ASSUME IInv, LineInv, NEW c \in DOMAIN cpc, Child(c)
  PROVE  EndsInOrder'
<1>1. /\ Line' = Line /\ size' = size /\ Len(cpc') = Len(cpc) /\ UNCHANGED shell
      /\ DOMAIN cpc' = DOMAIN cpc /\ DOMAIN cpc = 1 .. Len(cpc)
      /\ DOMAIN have = 1 .. Len(cpc) /\ DOMAIN wrote = 1 .. Len(cpc)
      /\ DOMAIN chan = 1 .. Len(cpc)
      /\ c \in 1 .. Len(cpc) /\ Len(cpc) \in Nat
      /\ cpc[c] \in {"forked", "run"} /\ cpc'[c] \in {"run", "zombie"}
      /\ \A d \in 1 .. Len(cpc) : d # c =>
           /\ cpc'[d] = cpc[d] /\ have'[d] = have[d] /\ wrote'[d] = wrote[d]
           /\ d # c - 1 => chan'[d] = chan[d]
  BY ChildDomains, ChildFrame
<1>2. size \in Nat /\ Len(cpc) <= size
  BY ChildDomains
<1>3. ~ HasEnded(c)
  BY <1>1 DEF HasEnded
<1>4. \A d \in 1 .. Len(cpc) : d # c =>
        /\ HasEnded(d)' <=> HasEnded(d)
        /\ Killed(d)' <=> Killed(d)
        /\ MetEOF(d)' <=> MetEOF(d)
  BY <1>1 DEF HasEnded, Killed, MetEOF
<1>5. \A d \in 1 .. Len(cpc) : HasEnded(d) => HasEnded(d)'
  BY <1>3, <1>4
<1>6. \A d \in 1 .. Len(cpc) :
        /\ Killed(d) => /\ d < size
                        /\ IF d < Len(cpc) THEN HasEnded(d + 1) ELSE ppc = "failed"
        /\ MetEOF(d) /\ d > 1 => HasEnded(d - 1) /\ ~ Killed(d - 1) /\ chan[d - 1] = 0
  BY <1>1 DEF LineInv, EndsInOrder
<1>7. ASSUME Killed(c)'
      PROVE  c < size /\ (IF c < Len(cpc) THEN HasEnded(c + 1) ELSE ppc = "failed")
  <2>1. WriteKilled(c)
    <3>1. ~ Exec(c)
      BY <1>1, <1>7 DEF Exec, Killed, HasEnded
    <3>2. ~ ExecCrashes(c)
      <4>1. Line[c] = "" => have[c] = 0
        BY <1>1 DEF LineInv, ProgramsKept, ProgramKept
      <4>2. have'[c] = 1 \/ Line[c] = "yes"
        BY <1>1, <1>7 DEF Killed
      <4>3. ExecCrashes(c) => Line[c] = "" /\ have'[c] = have[c]
        BY DEF ExecCrashes
      <4>4. Line[c] = "yes" => Line[c] # ""
        OBVIOUS
      <4>5. have[c] = 0 => have[c] # 1
        OBVIOUS
      <4>6. QED
        BY <4>1, <4>2, <4>3, <4>4, <4>5, Zenon
    <3>3. ~ Read(c) /\ ~ ReadEOF(c)
      BY <1>1, <1>7 DEF Read, ReadEOF, Reads, Killed, HasEnded
    <3>4. ~ WriteTerminal(c) /\ ~ WritePipe(c)
      BY <1>1, <1>7 DEF WriteTerminal, WritePipe, Writes, AfterWrite, Killed, HasEnded
    <3>5. QED
      BY <3>1, <3>2, <3>3, <3>4 DEF Child
  <2>2. /\ c < size /\ <<c, "r">> \notin held
        /\ \A d \in DOMAIN cheld : <<c, "r">> \notin cheld[d]
    BY <2>1 DEF WriteKilled, Open
  <2>3. CASE c < Len(cpc)
    <3>1. c + 1 \in DOMAIN cpc /\ c + 1 \in DOMAIN cheld /\ c + 1 > 1 /\ (c + 1) - 1 = c
      BY <1>1, <2>3, ChildDomains
    <3>2. ~ HasEnded(c + 1) => <<(c + 1) - 1, "r">> \in cheld[c + 1]
      BY <3>1 DEF LineInv, EndsKept
    <3>3. QED
      BY <2>2, <2>3, <3>1, <3>2
  <2>4. CASE ~ (c < Len(cpc))
    <3>1. c = Len(cpc) /\ c # size
      BY <1>1, <1>2, <2>2, <2>4
    <3>2. ppc \in {"scan", "pipe", "close", "wait", "eof", "failed"}
      BY DEF IInv, TypeOK
    <3>3. ppc \notin {"wait", "scan", "eof"}
      BY <3>1 DEF LineInv, ChildrenAwaited
    <3>4. ppc \in {"pipe", "close"} => <<c, "r">> \in held
      BY <1>1, <3>1 DEF IInv, ChildrenMade, HeldThere
    <3>5. QED
      BY <2>2, <2>4, <3>2, <3>3, <3>4
  <2>5. QED
    BY <2>3, <2>4
<1>8. ASSUME MetEOF(c)', c > 1
      PROVE  HasEnded(c - 1) /\ ~ Killed(c - 1) /\ chan[c - 1] = 0 /\ chan' = chan
  <2>1. c - 1 \in 1 .. Len(cpc) /\ (c - 1) + 1 = c /\ c - 1 < Len(cpc)
    BY <1>1, <1>8
  <2>2. ReadEOF(c)
    <3>1. ~ Exec(c)
      BY <1>1, <1>8 DEF Exec, MetEOF, HasEnded
    <3>2. ~ ExecCrashes(c)
      BY <1>1, <1>8 DEF ExecCrashes, MetEOF
    <3>3. ~ Read(c) /\ ~ WriteKilled(c)
      BY <1>1, <1>8 DEF Read, WriteKilled, Writes, MetEOF, HasEnded
    <3>4. ~ WriteTerminal(c) /\ ~ WritePipe(c)
      <4>1. wrote[c] \in 0 .. 2
        BY <1>1, ChildDomains
      <4>2. Sat(wrote[c] + 1) # 0
        BY <4>1 DEF Sat
      <4>3. AfterWrite(c) =>
              /\ wrote'[c] = Sat(wrote[c] + 1)
              /\ Line[c] \notin {"gen", "head", "bad"} => cpc' = cpc
        BY <1>1 DEF AfterWrite
      <4>4. QED
        BY <1>1, <1>8, <4>2, <4>3 DEF WriteTerminal, WritePipe, Writes, MetEOF, HasEnded
    <3>5. QED
      BY <3>1, <3>2, <3>3, <3>4 DEF Child
  <2>3. /\ chan[c - 1] = 0 /\ chan' = chan
        /\ \A d \in DOMAIN cheld : <<c - 1, "w">> \notin cheld[d]
    BY <1>1, <1>8, <2>2 DEF ReadEOF, Open
  <2>4. HasEnded(c - 1)
    <3>1. c - 1 \in DOMAIN cheld /\ c - 1 \in DOMAIN cpc
      BY <1>1, <2>1, ChildDomains
    <3>2. ~ HasEnded(c - 1) => <<c - 1, "w">> \in cheld[c - 1]
      BY <3>1 DEF LineInv, EndsKept
    <3>3. QED
      BY <2>3, <3>1, <3>2
  <2>5. ~ Killed(c - 1)
    BY <1>3, <1>6, <2>1
  <2>6. QED
    BY <2>3, <2>4, <2>5
<1>9. ASSUME NEW d \in 1 .. Len(cpc), Killed(d)'
      PROVE  d < size /\ (IF d < Len(cpc) THEN HasEnded(d + 1)' ELSE ppc' = "failed")
  <2>1. d < size /\ (IF d < Len(cpc) THEN HasEnded(d + 1) ELSE ppc = "failed")
    <3>1. CASE d = c
      BY <1>7, <1>9, <3>1
    <3>2. CASE d # c
      BY <1>4, <1>6, <1>9, <3>2
    <3>3. QED
      BY <3>1, <3>2
  <2>2. CASE d < Len(cpc)
    <3>1. d + 1 \in 1 .. Len(cpc)
      BY <1>1, <2>2
    <3>2. QED
      BY <1>5, <2>1, <2>2, <3>1
  <2>3. CASE ~ (d < Len(cpc))
    BY <1>1, <2>1, <2>3 DEF shell
  <2>4. QED
    BY <2>2, <2>3
<1>10. ASSUME NEW d \in 1 .. Len(cpc), MetEOF(d)', d > 1
       PROVE  HasEnded(d - 1)' /\ ~ Killed(d - 1)' /\ chan'[d - 1] = 0
  <2>1. d - 1 \in 1 .. Len(cpc)
    BY <1>1, <1>10
  <2>2. /\ HasEnded(d - 1) /\ ~ Killed(d - 1) /\ chan[d - 1] = 0
        /\ chan'[d - 1] = chan[d - 1]
    <3>1. CASE d = c
      BY <1>8, <1>10, <3>1
    <3>2. CASE d # c
      <4>1. HasEnded(d - 1) /\ ~ Killed(d - 1) /\ chan[d - 1] = 0
        BY <1>4, <1>6, <1>10, <3>2
      <4>2. d - 1 # c /\ d - 1 # c - 1
        BY <1>1, <1>3, <3>2, <4>1
      <4>3. QED
        BY <1>1, <2>1, <4>1, <4>2
    <3>3. QED
      BY <3>1, <3>2
  <2>3. d - 1 # c
    BY <1>3, <2>2
  <2>4. QED
    BY <1>4, <2>1, <2>2, <2>3
<1>11. QED
  BY <1>1, <1>9, <1>10 DEF EndsInOrder

LEMMA ChildLineInv ==
  ASSUME IInv, LineInv, NEW c \in DOMAIN cpc, Child(c)
  PROVE  LineInv'
<1>1. EndsKept' /\ ChildrenAwaited' /\ ProgramsKept' /\ UnitsKept'
  BY ChildEndsKept, ChildAwaited, ChildProgramsKept, ChildUnitsKept DEF LineInv
<1>2. EndsInOrder'
  BY ChildEndsInOrder
<1>3. QED
  BY <1>1, <1>2 DEF LineInv

(* What the shell does without touching its children.                       *)
LEMMA LineSteady ==
  ASSUME LineInv, ChildrenAwaited', ppc # "failed",
         offset' = offset \/ ppc' = "failed",
         UNCHANGED <<script, start, next, cpc, cheld, have, chan, wrote>>
  PROVE  LineInv'
<1>1. Line' = Line /\ size' = size
  BY DEF Line, Children, size
<1>2. EndsKept'
  BY DEF LineInv, EndsKept, HasEnded
<1>3. ProgramsKept'
  BY <1>1 DEF LineInv, ProgramsKept, ProgramKept, Taken
<1>4. UnitsKept'
  BY <1>1 DEF LineInv, UnitsKept, Taken
<1>5. EndsInOrder'
  BY <1>1 DEF LineInv, EndsInOrder, Killed, MetEOF, HasEnded
<1>6. QED
  BY <1>2, <1>3, <1>4, <1>5 DEF LineInv

LEMMA TakeLineInv ==
  ASSUME NEW n, Take(n)
  PROVE  LineInv'
<1>1. cpc' = << >> /\ ppc' = "pipe" /\ DOMAIN cpc' = {}
  BY NothingYet DEF Take
<1>2. ChildrenAwaited'
  BY <1>1 DEF ChildrenAwaited
<1>3. EndsKept' /\ ProgramsKept' /\ UnitsKept' /\ EndsInOrder'
  BY <1>1 DEF EndsKept, ProgramsKept, UnitsKept, EndsInOrder
<1>4. QED
  BY <1>2, <1>3 DEF LineInv

LEMMA Appended ==
  ASSUME NEW S, NEW s \in Seq(S), NEW e \in S
  PROVE  /\ Len(Append(s, e)) = Len(s) + 1
         /\ DOMAIN Append(s, e) = 1 .. (Len(s) + 1)
         /\ \A d \in 1 .. Len(s) : Append(s, e)[d] = s[d]
         /\ Append(s, e)[Len(s) + 1] = e
  BY AppendProperties, LenProperties

(* A new child has the pipe of the one before, which it is to read.         *)
LEMMA PipeForkLineInv ==
  ASSUME IInv, LineInv, PipeFork
  PROVE  LineInv'
<1>1. /\ ppc = "pipe" /\ i < size /\ i' = i + 1 /\ ppc' = "close"
      /\ held' = held \union ({i'} \X {"r", "w"})
      /\ cpc' = Append(cpc, "forked") /\ cheld' = Append(cheld, held')
      /\ have' = Append(have, IF Line[i'] \in {"gen", "bad"} THEN 1 ELSE 0)
      /\ chan' = Append(chan, 0) /\ wrote' = Append(wrote, 0)
      /\ UNCHANGED <<script, start, next, offset>>
  BY DEF PipeFork
<1>0. PICK n \in Int : n = i + 1
  <2>1. i \in Int
    BY DEF IInv, TypeOK
  <2>2. QED
    BY <2>1
<1>2. Line' = Line /\ size' = size
  BY <1>1 DEF Line, Children, size
<1>3. /\ Len(cpc) = i /\ i \in Nat /\ n \in 1 .. size /\ n > i /\ size \in Nat
      /\ DOMAIN cpc = 1 .. i
      /\ \A d \in 1 .. i : have[d] \in {0, 1} /\ wrote[d] \in 0 .. 2 /\ chan[d] \in Nat
  BY <1>0, <1>1, ChildDomains DEF IInv, ChildrenMade
<1>4. /\ Len(cpc') = n /\ DOMAIN cpc' = 1 .. n
      /\ \A d \in 1 .. i : /\ cpc'[d] = cpc[d] /\ cheld'[d] = cheld[d]
                           /\ have'[d] = have[d] /\ chan'[d] = chan[d]
                           /\ wrote'[d] = wrote[d]
      /\ cpc'[n] = "forked" /\ cheld'[n] = held'
      /\ have'[n] = (IF Line[n] \in {"gen", "bad"} THEN 1 ELSE 0)
      /\ chan'[n] = 0 /\ wrote'[n] = 0
  <2>1. /\ cpc \in Seq(ChildPC) /\ cheld \in Seq(SUBSET PipeEnds)
        /\ have \in Seq({0, 1}) /\ chan \in Seq(0 .. PipeCap) /\ wrote \in Seq(0 .. 2)
        /\ Len(cheld) = i /\ Len(have) = i /\ Len(chan) = i /\ Len(wrote) = i
    BY <1>1 DEF IInv, TypeOK, ChildrenMade, ChildPC
  <2>2. /\ Len(cpc') = n /\ DOMAIN cpc' = 1 .. n
        /\ \A d \in 1 .. i : cpc'[d] = cpc[d]
        /\ cpc'[n] = "forked"
    <3>1. "forked" \in ChildPC
      BY DEF ChildPC
    <3>2. cpc' = Append(cpc, "forked")
      BY <1>1
    <3>3. QED
      BY <1>0, <1>3, <2>1, <3>1, <3>2, Appended
  <2>3. (\A d \in 1 .. i : cheld'[d] = cheld[d]) /\ cheld'[n] = held'
    <3>1. held' \in SUBSET PipeEnds
      BY <1>1, <1>3 DEF IInv, TypeOK, PipeEnds
    <3>2. QED
      BY <1>0, <1>1, <2>1, <3>1, Appended
  <2>4. /\ \A d \in 1 .. i : have'[d] = have[d]
        /\ have'[n] = (IF Line[n] \in {"gen", "bad"} THEN 1 ELSE 0)
    <3> DEFINE h == IF Line[i'] \in {"gen", "bad"} THEN 1 ELSE 0
    <3>1. h \in {0, 1} /\ h = (IF Line[n] \in {"gen", "bad"} THEN 1 ELSE 0)
      <4>1. i' = n
        BY <1>0, <1>1
      <4>2. QED
        BY <4>1
    <3>2. have' = Append(have, h)
      BY <1>1
    <3> HIDE DEF h
    <3>3. QED
      BY <1>0, <1>3, <2>1, <3>1, <3>2, Appended
  <2>5. (\A d \in 1 .. i : chan'[d] = chan[d]) /\ chan'[n] = 0
    BY <1>0, <1>1, <1>3, <2>1
  <2>6. (\A d \in 1 .. i : wrote'[d] = wrote[d]) /\ wrote'[n] = 0
    BY <1>0, <1>1, <1>3, <2>1
  <2>7. QED
    BY <2>2, <2>3, <2>4, <2>5, <2>6
<1>5. \A d \in 1 .. i : /\ HasEnded(d)' <=> HasEnded(d)
                        /\ Killed(d)' <=> Killed(d)
                        /\ MetEOF(d)' <=> MetEOF(d)
                        /\ Taken(d)' = Taken(d)
  BY <1>2, <1>4 DEF HasEnded, Killed, MetEOF, Taken
<1>6. ~ HasEnded(n)'
  BY <1>4 DEF HasEnded
<1>7. Taken(n)' = 0
  <2>1. Line[n] \in {"cat", "head"} => have'[n] = 0
    BY <1>4
  <2>2. QED
    BY <1>2, <1>4, <2>1 DEF Taken
<1>8. EndsKept'
  <2>1. ASSUME NEW d \in 1 .. n, ~ HasEnded(d)'
        PROVE  <<d, "w">> \in cheld'[d] /\ (d > 1 => <<d - 1, "r">> \in cheld'[d])
    <3>1. CASE d = n
      <4>1. <<n, "w">> \in held'
        BY <1>0, <1>1
      <4>2. n > 1 => <<i, "r">> \in held'
        BY <1>0, <1>1, <1>3 DEF IInv, HeldThere
      <4>3. n - 1 = i
        BY <1>0, <1>3
      <4>4. cheld'[d] = held' /\ d - 1 = i
        BY <1>4, <3>1, <4>3
      <4>5. QED
        BY <3>1, <4>1, <4>2, <4>4, Zenon
    <3>2. CASE d # n
      <4>1. d \in 1 .. i
        BY <1>0, <1>3, <3>2
      <4>2. d \in DOMAIN cpc /\ ~ HasEnded(d) /\ cheld'[d] = cheld[d]
        BY <1>3, <1>4, <1>5, <2>1, <4>1
      <4>3. EndsKept
        BY DEF LineInv
      <4>4. QED
        BY <4>2, <4>3, Zenon DEF EndsKept
    <3>3. QED
      BY <3>1, <3>2
  <2>2. QED
    BY <1>4, <2>1 DEF EndsKept
<1>9. ChildrenAwaited'
  <2>1. \A d \in DOMAIN cpc : cpc[d] # "reaped"
    BY <1>1 DEF LineInv, ChildrenAwaited
  <2>2. \A d \in DOMAIN cpc' : cpc'[d] # "reaped"
    <3>1. DOMAIN cpc' = (1 .. i) \union {n}
      BY <1>0, <1>3, <1>4
    <3>2. "forked" # "reaped"
      OBVIOUS
    <3>3. QED
      BY <1>3, <1>4, <2>1, <3>1, <3>2, Zenon
  <2>3. QED
    BY <1>1, <2>2 DEF ChildrenAwaited
<1>10. ProgramsKept'
  <2> USE DEF ProgramKept
  <2>1. ProgramKept(n)'
    <3>1. CASE Line[n] \in {"gen", "bad"}
      <4>1. have'[n] = 1 /\ wrote'[n] = 0 /\ cpc'[n] = "forked" /\ Line'[n] = Line[n]
        BY <1>2, <1>4, <3>1
      <4>2. CASE Line[n] = "gen"
        BY <1>7, <4>1, <4>2
      <4>3. CASE Line[n] = "bad"
        BY <1>7, <4>1, <4>3
      <4>4. QED
        BY <3>1, <4>2, <4>3
    <3>2. CASE Line[n] \notin {"gen", "bad"}
      BY <1>2, <1>4, <1>7, <3>2
    <3>3. QED
      BY <3>1, <3>2
  <2>2. ASSUME NEW d \in 1 .. i PROVE ProgramKept(d)'
    <3>1. ProgramKept(d) /\ ppc' # "failed" /\ ppc # "failed"
      BY <1>1, <1>3 DEF LineInv, ProgramsKept
    <3>2. QED
      BY <1>1, <1>2, <1>4, <1>5, <3>1
  <2>3. \A d \in DOMAIN cpc' : ProgramKept(d)'
    <3>1. DOMAIN cpc' = (1 .. i) \union {n}
      BY <1>0, <1>3, <1>4
    <3>2. QED
      BY <2>1, <2>2, <3>1
  <2>4. QED
    BY <2>3 DEF ProgramsKept
<1>11. UnitsKept'
  <2>1. ASSUME NEW d \in 1 .. n, d < size
        PROVE  wrote'[d] = Sat(chan'[d] + IF d < n THEN Taken(d + 1)' ELSE 0)
    <3>1. CASE d = n
      BY <1>0, <1>3, <1>4, <3>1 DEF Sat
    <3>2. CASE d # n
      <4>1. d \in 1 .. i /\ d < n
        BY <1>0, <1>3, <3>2
      <4>2. wrote[d] = Sat(chan[d] + IF d < i THEN Taken(d + 1) ELSE 0)
        BY <1>3, <2>1, <4>1 DEF LineInv, UnitsKept
      <4>3. CASE d < i
        <5>1. d + 1 \in 1 .. i
          BY <1>3, <4>1, <4>3
        <5>2. QED
          BY <1>0, <1>4, <1>5, <4>1, <4>2, <4>3, <5>1
      <4>4. CASE ~ (d < i)
        <5>1. d = i
          BY <1>3, <4>1, <4>4
        <5>2. /\ wrote[d] = Sat(chan[d] + 0) /\ wrote'[d] = wrote[d] /\ chan'[d] = chan[d]
              /\ d + 1 = n /\ Taken(n)' = 0
          BY <1>0, <1>4, <1>7, <4>1, <4>2, <4>4, <5>1
        <5>3. QED
          BY <4>1, <5>2
      <4>5. QED
        BY <4>3, <4>4
    <3>3. QED
      BY <3>1, <3>2
  <2>2. QED
    BY <1>2, <1>4, <2>1 DEF UnitsKept
<1>12. EndsInOrder'
  <2>1. ASSUME NEW d \in 1 .. n, Killed(d)'
        PROVE  d < size /\ (IF d < n THEN HasEnded(d + 1)' ELSE ppc' = "failed")
    <3>1. d # n /\ d \in 1 .. i /\ Killed(d)
      <4>1. d # n
        BY <1>6, <2>1 DEF Killed
      <4>2. QED
        BY <1>0, <1>3, <1>5, <2>1, <4>1
    <3>2. d < size /\ (IF d < i THEN HasEnded(d + 1) ELSE ppc = "failed")
      BY <1>3, <3>1 DEF LineInv, EndsInOrder
    <3>3. d < i /\ d + 1 \in 1 .. i
      BY <1>1, <1>3, <3>1, <3>2
    <3>4. QED
      BY <1>0, <1>3, <1>5, <3>2, <3>3
  <2>2. ASSUME NEW d \in 1 .. n, MetEOF(d)', d > 1
        PROVE  HasEnded(d - 1)' /\ ~ Killed(d - 1)' /\ chan'[d - 1] = 0
    <3>1. d # n
      BY <1>6, <2>2 DEF MetEOF
    <3>2. d \in 1 .. i /\ d - 1 \in 1 .. i
      BY <1>0, <1>3, <2>2, <3>1
    <3>3. HasEnded(d - 1) /\ ~ Killed(d - 1) /\ chan[d - 1] = 0
      BY <1>3, <1>5, <2>2, <3>2 DEF LineInv, EndsInOrder
    <3>4. QED
      BY <1>4, <1>5, <3>2, <3>3
  <2>3. QED
    BY <1>2, <1>4, <2>1, <2>2 DEF EndsInOrder
<1>13. QED
  BY <1>8, <1>9, <1>10, <1>11, <1>12 DEF LineInv

(* One child fewer to wait for.                                             *)
LEMMA WaitLineInv ==
  ASSUME IInv, LineInv, Wait
  PROVE  LineInv'
<1>1. /\ ppc = "wait" /\ ppc' = "wait" /\ i > 0 /\ i' = i - 1
      /\ UNCHANGED <<script, start, next, offset, cheld, have, chan, wrote>>
  BY DEF Wait
<1>2. PICK c \in Children : /\ cpc[c] = "zombie"
                            /\ cpc' = [cpc EXCEPT ![c] = "reaped"]
  BY DEF Wait
<1>3. Line' = Line /\ size' = size
  BY <1>1 DEF Line, Children, size
<1>4. /\ Len(cpc) = size /\ size \in Nat /\ DOMAIN cpc = 1 .. Len(cpc)
      /\ i = Cardinality({ d \in DOMAIN cpc : cpc[d] # "reaped" })
  BY <1>1, ChildDomains DEF LineInv, ChildrenAwaited
<1>5. c \in 1 .. Len(cpc)
  BY <1>2, <1>4 DEF Children, size
<1>6. /\ DOMAIN cpc' = DOMAIN cpc /\ Len(cpc') = Len(cpc) /\ cpc'[c] = "reaped"
      /\ \A d \in 1 .. Len(cpc) : d # c => cpc'[d] = cpc[d]
  <2>1. cpc \in Seq(ChildPC)
    BY DEF IInv, TypeOK, ChildPC
  <2>2. QED
    BY <1>2, <1>4, <1>5, <2>1
<1>7. \A d \in 1 .. Len(cpc) :
        /\ HasEnded(d)' <=> HasEnded(d)
        /\ cpc'[d] \in {"forked", "run"} => cpc'[d] = cpc[d]
  BY <1>2, <1>6 DEF HasEnded
<1>8. \A d \in 1 .. Len(cpc) : /\ Killed(d)' <=> Killed(d)
                               /\ MetEOF(d)' <=> MetEOF(d)
                               /\ Taken(d)' = Taken(d)
  BY <1>1, <1>3, <1>7 DEF Killed, MetEOF, Taken
<1>9. ChildrenAwaited'
  <2> DEFINE U == { d \in DOMAIN cpc : cpc[d] # "reaped" }
  <2>1. { d \in DOMAIN cpc' : cpc'[d] # "reaped" } = U \ {c}
    BY <1>4, <1>6
  <2>2. c \in U
    BY <1>2, <1>4, <1>5
  <2>3. IsFiniteSet(1 .. Len(cpc))
    BY <1>4, FS_Interval, 1 \in Int
  <2>4. U \subseteq 1 .. Len(cpc)
    BY <1>4
  <2>5. IsFiniteSet(U)
    BY <2>3, <2>4, FS_Subset
  <2> HIDE DEF U
  <2>6. Cardinality(U \ {c}) = Cardinality(U) - 1
    BY <2>2, <2>5, FS_RemoveElement
  <2>7. i = Cardinality(U)
    BY <1>4 DEF U
  <2>8. QED
    BY <1>1, <1>3, <1>4, <1>6, <2>1, <2>6, <2>7 DEF ChildrenAwaited
<1>10. EndsKept'
  BY <1>1, <1>4, <1>6, <1>7 DEF LineInv, EndsKept
<1>11. ProgramsKept'
  <2> USE DEF ProgramKept
  <2>1. ASSUME NEW d \in 1 .. Len(cpc) PROVE ProgramKept(d)'
    <3>1. ProgramKept(d)
      BY <1>4 DEF LineInv, ProgramsKept
    <3>2. cpc'[d] \in {"forked", "run"} => cpc'[d] = cpc[d]
      BY <1>7
    <3>3. Taken(d)' = Taken(d)
      BY <1>8
    <3>4. QED
      BY <1>1, <1>3, <3>1, <3>2, <3>3
  <2>2. QED
    BY <1>4, <1>6, <2>1 DEF ProgramsKept
<1>12. UnitsKept'
  <2>1. \A d \in 1 .. Len(cpc) : d < Len(cpc) => d + 1 \in 1 .. Len(cpc)
    BY <1>4
  <2>2. QED
    BY <1>1, <1>3, <1>4, <1>6, <1>8, <2>1 DEF LineInv, UnitsKept
<1>13. EndsInOrder'
  <2>1. \A d \in 1 .. Len(cpc) : /\ d < Len(cpc) => d + 1 \in 1 .. Len(cpc)
                                 /\ d > 1 => d - 1 \in 1 .. Len(cpc)
    BY <1>4
  <2>2. QED
    BY <1>1, <1>3, <1>4, <1>6, <1>7, <1>8, <2>1 DEF LineInv, EndsInOrder
<1>14. QED
  BY <1>9, <1>10, <1>11, <1>12, <1>13 DEF LineInv

LEMMA ShellLineInv ==
  ASSUME IInv, LineInv, Shell
  PROVE  LineInv'
<1>1. CASE ScanBuffered \/ ScanRead
  BY <1>1, TakeLineInv DEF ScanBuffered, ScanRead
<1>2. CASE PipeFork
  BY <1>2, PipeForkLineInv
<1>3. CASE Wait
  BY <1>3, WaitLineInv
<1>4. CASE ScanEOF \/ PipeFails \/ ParentClose
  <2>1. /\ ppc # "failed" /\ (offset' = offset \/ ppc' = "failed")
        /\ UNCHANGED <<script, start, next, cpc, cheld, have, chan, wrote>>
    BY <1>4 DEF ScanEOF, PipeFails, ParentClose
  <2>2. size' = size
    BY <2>1 DEF size
  <2>3. ChildrenAwaited'
    <3>1. CASE ScanEOF
      BY <2>1, <2>2, <3>1 DEF ScanEOF, LineInv, ChildrenAwaited
    <3>2. CASE PipeFails
      BY <2>1, <2>2, <3>2 DEF PipeFails, LineInv, ChildrenAwaited
    <3>3. CASE ParentClose
      BY <2>1, <2>2, <3>3 DEF ParentClose, LineInv, ChildrenAwaited
    <3>4. QED
      BY <1>4, <3>1, <3>2, <3>3
  <2>4. QED
    BY <2>1, <2>3, LineSteady
<1>5. CASE WaitStart
  <2>1. /\ ppc = "pipe" /\ i = size /\ ppc' = "wait" /\ i' = i
        /\ UNCHANGED <<script, start, next, offset, cpc, cheld, have, chan, wrote>>
    BY <1>5 DEF WaitStart
  <2>2. size' = size
    BY <2>1 DEF size
  <2>3. Len(cpc) = i /\ DOMAIN cpc = 1 .. i /\ i \in Nat
    BY <2>1, ChildDomains DEF IInv, ChildrenMade
  <2>4. Cardinality(1 .. i) = i
    BY <2>3, FS_Interval, 1 \in Int
  <2>5. { d \in DOMAIN cpc : cpc[d] # "reaped" } = 1 .. i
    BY <2>1, <2>3 DEF LineInv, ChildrenAwaited
  <2>6. ChildrenAwaited'
    BY <2>1, <2>2, <2>3, <2>4, <2>5 DEF ChildrenAwaited
  <2>7. QED
    BY <2>1, <2>6, LineSteady
<1>6. CASE WaitEnd
  <2>1. /\ ppc = "wait" /\ i = 0 /\ ppc' = "scan"
        /\ UNCHANGED <<script, start, next, offset, cpc, cheld, have, chan, wrote>>
    BY <1>6 DEF WaitEnd
  <2>2. size' = size
    BY <2>1 DEF size
  <2> DEFINE U == { d \in DOMAIN cpc : cpc[d] # "reaped" }
  <2>3. Len(cpc) = size /\ Cardinality(U) = 0
    BY <2>1 DEF LineInv, ChildrenAwaited
  <2>4. IsFiniteSet(1 .. Len(cpc)) /\ U \subseteq 1 .. Len(cpc)
    BY ChildDomains, FS_Interval, 1 \in Int
  <2>5. IsFiniteSet(U)
    BY <2>4, FS_Subset
  <2>6. U = {}
    BY <2>3, <2>5, FS_EmptySet
  <2>7. ChildrenAwaited'
    BY <2>1, <2>2, <2>3, <2>6 DEF ChildrenAwaited
  <2>8. QED
    BY <2>1, <2>7, LineSteady
<1>7. QED
  BY <1>1, <1>2, <1>3, <1>4, <1>5, <1>6 DEF Shell

(***************************************************************************)
(* What the line puts on the terminal.                                     *)
(***************************************************************************)

(* A set of numbers that is not empty has a least one.                      *)
LEMMA LeastNumber ==
  ASSUME NEW S \in SUBSET Nat, S # {}
  PROVE  \E m \in S : \A n \in S : ~ (n < m)
<1>1. PICK m \in S : \A n \in S : ~ (<<n, m>> \in OpToRel(<, Nat))
  BY NatLessThanWellFounded, WFMin, Zenon
<1>2. \A n \in S : <<n, m>> \in OpToRel(<, Nat) <=> n < m
  BY Zenon DEF OpToRel
<1>3. QED
  BY <1>1, <1>2, Zenon

(* The units that go through the first n programs.                          *)
FlowsTo(f, units, n) ==
  /\ f[0] = units
  /\ \A m \in 1 .. n : f[m] = Through(f[m - 1], Line[m])

LEMMA FlowExists ==
  ASSUME NEW units, NEW n \in Nat
  PROVE  \E f : f = [m \in 0 .. n |-> IF m = 0 THEN units
                                     ELSE Through(f[m - 1], Line[m])]
<1> DEFINE Rhs(f, k) == [m \in 0 .. k |-> IF m = 0 THEN units
                                         ELSE Through(f[m - 1], Line[m])]
<1> DEFINE Without == { k \in Nat : ~ \E f : f = Rhs(f, k) }
<1>1. SUFFICES ASSUME Without # {} PROVE FALSE
  BY Zenon
<1>2. PICK k \in Without : \A j \in Without : ~ (j < k)
  <2>1. Without \in SUBSET Nat
    OBVIOUS
  <2> HIDE DEF Without
  <2>2. QED
    BY <1>1, <2>1, LeastNumber
<1>3. CASE k = 0
  <2>1. [m \in 0 .. 0 |-> units] = Rhs([m \in 0 .. 0 |-> units], 0)
    OBVIOUS
  <2>2. QED
    BY <1>2, <1>3, <2>1
<1>4. CASE k # 0
  <2>1. k \in Nat /\ k - 1 \in Nat /\ k - 1 < k
    BY <1>2, <1>4
  <2>2. PICK f : f = Rhs(f, k - 1)
    BY <1>2, <2>1
  <2> DEFINE g == [m \in 0 .. k |-> IF m < k THEN f[m]
                                    ELSE Through(f[k - 1], Line[k])]
  <2>3. ASSUME NEW m \in 0 .. k
        PROVE  g[m] = IF m = 0 THEN units ELSE Through(g[m - 1], Line[m])
    <3>1. CASE m = 0
      BY <2>1, <2>2, <3>1
    <3>2. CASE m # 0 /\ m < k
      <4>1. m \in 0 .. (k - 1) /\ m - 1 \in 0 .. k /\ m - 1 < k
        BY <2>1, <3>2
      <4>2. g[m] = f[m] /\ g[m - 1] = f[m - 1]
        BY <3>2, <4>1
      <4>3. f[m] = Through(f[m - 1], Line[m])
        BY <2>2, <3>2, <4>1
      <4>4. QED
        BY <3>2, <4>2, <4>3
    <3>3. CASE m = k
      <4>1. k - 1 \in 0 .. k /\ k \in 0 .. k
        BY <2>1
      <4>2. g[k - 1] = f[k - 1] /\ g[k] = Through(f[k - 1], Line[k])
        BY <2>1, <4>1
      <4>3. QED
        BY <1>4, <3>3, <4>2
    <3>4. QED
      BY <2>1, <3>1, <3>2, <3>3
  <2>4. g = [m \in 0 .. k |-> g[m]]
    OBVIOUS
  <2> HIDE DEF g
  <2>5. g = Rhs(g, k)
    BY <2>3, <2>4
  <2>6. QED
    BY <1>2, <2>5
<1>5. QED
  BY <1>3, <1>4

LEMMA OutputFlows ==
  ASSUME NEW units, size \in Nat
  PROVE  \E f : FlowsTo(f, units, size) /\ Output(units) = f[size]
<1> DEFINE Rhs(f) == [m \in 0 .. size |-> IF m = 0 THEN units
                                         ELSE Through(f[m - 1], Line[m])]
<1> DEFINE flow == CHOOSE f : f = Rhs(f)
<1>1. \E f : f = Rhs(f)
  BY FlowExists
<1>2. flow = Rhs(flow)
  <2> HIDE DEF Rhs
  <2>1. QED
    BY <1>1
<1>3. Output(units) = flow[size]
  BY DEF Output
<1> HIDE DEF flow
<1>4. flow[0] = units
  <2>1. 0 \in 0 .. size
    OBVIOUS
  <2>2. QED
    BY <1>2, <2>1
<1>5. \A m \in 1 .. size : flow[m] = Through(flow[m - 1], Line[m])
  <2>1. \A m \in 1 .. size : m \in 0 .. size /\ m # 0
    OBVIOUS
  <2>2. QED
    BY <1>2, <2>1
<1>6. QED
  BY <1>3, <1>4, <1>5 DEF FlowsTo

(* With as many units as the first program has taken from the script, what  *)
(* each program has written is what comes through to it, unless SIGPIPE has *)
(* ended it, and never more.                                                *)
LEMMA EachWhole ==
  ASSUME IInv, LineInv, ppc = "scan", size > 0,
         NEW f, FlowsTo(f, Taken(1), size)
  PROVE  wrote[size] = f[size]
<1>1. /\ Len(cpc) = size /\ size \in Nat /\ DOMAIN cpc = 1 .. size
      /\ \A c \in 1 .. size : /\ have[c] \in {0, 1} /\ wrote[c] \in 0 .. 2
                              /\ chan[c] \in Nat
  BY ChildDomains DEF LineInv, ChildrenAwaited
<1>2. \A c \in 1 .. size : HasEnded(c)
  BY <1>1 DEF LineInv, ChildrenAwaited, HasEnded
<1>3. \A c \in 1 .. size : Line[c] \in Programs
  <2>1. Line \in Seq(Programs) /\ size = Len(Line)
    BY LineFacts DEF IInv, TypeOK, size
  <2>2. QED
    BY <2>1, ElementOfSeq
<1> DEFINE Whole(c) ==
      /\ f[c] \in 0 .. 2
      /\ wrote[c] <= f[c]
      /\ Killed(c) \/ wrote[c] = f[c]
<1>4. ASSUME NEW c \in 1 .. size, c > 1 => Whole(c - 1)
      PROVE  Whole(c)
  <2>1. ProgramKept(c)
    BY <1>1 DEF LineInv, ProgramsKept
  <2>2. have[c] \in {0, 1} /\ wrote[c] \in 0 .. 2 /\ HasEnded(c)
    BY <1>1, <1>2
  <2>3. f[c] = Through(f[c - 1], Line[c])
    BY <1>4 DEF FlowsTo
  <2>4. ~ Killed(c) => have[c] = 0 /\ Line[c] # "yes"
    BY <2>2 DEF Killed
  <2>5. CASE Line[c] \in {"gen", "bad"}
    <3>1. f[c] = 1 /\ have[c] + wrote[c] = 1
      BY <2>1, <2>3, <2>5 DEF Through, ProgramKept
    <3>2. QED
      BY <2>2, <2>4, <3>1
  <2>6. CASE Line[c] = "yes"
    <3>1. f[c] = 2 /\ Killed(c)
      BY <2>2, <2>3, <2>6 DEF Through, Killed
    <3>2. QED
      BY <2>2, <3>1
  <2>7. CASE Line[c] = ""
    <3>1. f[c] = 0 /\ wrote[c] = 0
      BY <2>1, <2>3, <2>7 DEF Through, ProgramKept
    <3>2. QED
      BY <3>1
  <2>8. CASE Line[c] \in {"cat", "head"}
    <3>1. Taken(c) = have[c] + wrote[c] /\ Taken(c) \in Nat
      BY <2>2, <2>8 DEF Taken
    <3> DEFINE came == f[c - 1]
    <3>2. /\ came \in 0 .. 2 /\ Sat(Taken(c)) <= came
          /\ MetEOF(c) => Sat(Taken(c)) = came
      <4>1. CASE c = 1
        <5>1. came = Taken(1)
          BY <4>1 DEF FlowsTo
        <5>2. Taken(1) <= 1
          BY <2>1, <4>1 DEF ProgramKept
        <5>3. QED
          BY <3>1, <4>1, <5>1, <5>2 DEF Sat
      <4>2. CASE c # 1
        <5>1. c - 1 \in 1 .. size /\ c - 1 < size /\ c - 1 < Len(cpc) /\ (c - 1) + 1 = c
          BY <1>1, <1>4, <4>2
        <5>2. wrote[c - 1] = Sat(chan[c - 1] + Taken(c)) /\ chan[c - 1] \in Nat
          BY <1>1, <5>1 DEF LineInv, UnitsKept
        <5>3. Whole(c - 1)
          BY <1>4, <4>2
        <5>4. Sat(Taken(c)) <= wrote[c - 1]
          BY <3>1, <5>2 DEF Sat
        <5>5. MetEOF(c) => wrote[c - 1] = Sat(Taken(c)) /\ wrote[c - 1] = came
          <6>1. MetEOF(c) => ~ Killed(c - 1) /\ chan[c - 1] = 0
            BY <1>1, <1>4, <4>2 DEF LineInv, EndsInOrder
          <6>2. QED
            BY <3>1, <5>2, <5>3, <6>1
        <5>6. wrote[c - 1] \in 0 .. 2 /\ Sat(Taken(c)) \in 0 .. 2
          BY <1>1, <3>1, <5>1 DEF Sat
        <5>7. QED
          BY <5>3, <5>4, <5>5, <5>6
      <4>3. QED
        BY <4>1, <4>2
    <3> HIDE DEF came
    <3>3. CASE Line[c] = "cat"
      <4>1. f[c] = came
        BY <2>3, <3>3 DEF Through, came
      <4>2. wrote[c] <= Sat(Taken(c))
        BY <2>2, <3>1 DEF Sat
      <4>3. ~ Killed(c) => MetEOF(c) /\ Sat(Taken(c)) = wrote[c]
        BY <2>2, <2>4, <3>1, <3>3 DEF MetEOF, Sat
      <4>4. QED
        BY <2>2, <3>1, <3>2, <4>1, <4>2, <4>3 DEF Sat
    <3>4. CASE Line[c] = "head"
      <4>1. f[c] = IF came > 1 THEN 1 ELSE came
        BY <2>3, <3>4 DEF Through, came
      <4>2. have[c] + wrote[c] <= 1
        BY <2>1, <3>4 DEF ProgramKept
      <4>3. Sat(Taken(c)) = have[c] + wrote[c] /\ wrote[c] <= have[c] + wrote[c]
        BY <2>2, <3>1, <4>2 DEF Sat
      <4>4. ~ Killed(c) => have[c] = 0 /\ (wrote[c] = 0 => MetEOF(c))
        BY <2>2, <2>4, <3>4 DEF MetEOF
      <4>5. QED
        BY <2>2, <3>2, <4>1, <4>2, <4>3, <4>4
    <3>5. QED
      BY <2>8, <3>3, <3>4
  <2>9. QED
    BY <1>3, <2>5, <2>6, <2>7, <2>8 DEF Programs
<1> HIDE DEF Whole
<1>5. \A c \in 1 .. size : Whole(c)
  <2> DEFINE Not == { c \in 1 .. size : ~ Whole(c) }
  <2>1. SUFFICES ASSUME Not # {} PROVE FALSE
    BY Zenon
  <2>2. PICK c \in Not : \A b \in Not : ~ (b < c)
    <3>1. Not \in SUBSET Nat
      BY <1>1
    <3> HIDE DEF Not
    <3>2. QED
      BY <2>1, <3>1, LeastNumber
  <2>3. c \in 1 .. size /\ ~ Whole(c)
    BY <2>2
  <2>4. c > 1 => Whole(c - 1)
    <3>1. c > 1 => c - 1 \in 1 .. size /\ c - 1 < c
      BY <1>1, <2>3
    <3>2. QED
      BY <2>2, <3>1
  <2>5. QED
    BY <1>4, <2>3, <2>4
<1>6. ~ Killed(size) /\ size \in 1 .. size
  <2>1. size \in 1 .. size
    BY <1>1
  <2>2. Killed(size) => size < size
    BY <1>1, <2>1 DEF LineInv, EndsInOrder
  <2>3. QED
    BY <1>1, <2>1, <2>2
<1>7. QED
  BY <1>5, <1>6 DEF Whole

(***************************************************************************)
(* The results.                                                            *)
(***************************************************************************)

(* The invariant holds whatever the programs do.                            *)
THEOREM InvariantHolds == Spec => []IInv
<1>1. Init => IInv
  BY InitIInv
<1>2. IInv /\ [Next]_vars => IInv'
  BY NextIInv
<1>3. QED
  BY <1>1, <1>2, PTL DEF Spec

(* run_cmd leaves one descriptor open for each line that made a pipeline,   *)
(* never has more than three open for the line at hand, and pipe fails only *)
(* when OpenMax - 5 lines at least have left theirs.                        *)
THEOREM DescriptorsAccounted == Spec => []FdsAccounted
<1>1. IInv => FdsAccounted
  <2> SUFFICES ASSUME IInv PROVE FdsAccounted
    OBVIOUS
  <2>1. Cardinality(held) <= 3
    BY HeldCount DEF IInv, TypeOK
  <2>2. QED
    BY <2>1 DEF IInv, LinesRun, FdsAccounted
<1>2. QED
  BY <1>1, InvariantHolds, PTL

(* The lines are run in order; the shell goes back in its script only       *)
(* behind a line whose first command could not be executed, and meets the   *)
(* end of its input only behind the last line.                              *)
THEOREM LinesInOrder == Spec => []InputOrder
<1>1. IInv => InputOrder
  BY DEF IInv
<1>2. QED
  BY <1>1, InvariantHolds, PTL

(* Where the units of a line are, at every moment of the line.              *)
THEOREM LineInvariantHolds == Spec => []LineInv
<1>1. Init => LineInv
  <2> SUFFICES ASSUME Init PROVE LineInv
    OBVIOUS
  <2>1. cpc = << >> /\ DOMAIN cpc = {} /\ ppc = "scan" /\ Len(cpc) = 0
    BY NothingYet DEF Init
  <2>2. size = 0
    BY DEF Init, size
  <2>3. ChildrenAwaited
    BY <2>1, <2>2 DEF ChildrenAwaited
  <2>4. EndsKept /\ ProgramsKept /\ UnitsKept /\ EndsInOrder
    BY <2>1 DEF EndsKept, ProgramsKept, UnitsKept, EndsInOrder
  <2>5. QED
    BY <2>3, <2>4 DEF LineInv
<1>2. IInv /\ LineInv /\ [Next]_vars => LineInv'
  <2> SUFFICES ASSUME IInv, LineInv, [Next]_vars PROVE LineInv'
    OBVIOUS
  <2>1. CASE UNCHANGED vars
    <3>1. UNCHANGED <<script, start, next, offset, ppc, i, cpc, cheld, have, chan, wrote>>
      BY <2>1 DEF vars, shell
    <3>2. Line' = Line /\ size' = size
      BY <3>1 DEF Line, Children, size
    <3>3. EndsKept' /\ ChildrenAwaited'
      BY <3>1, <3>2 DEF LineInv, EndsKept, HasEnded, ChildrenAwaited
    <3>4. ProgramsKept'
      BY <3>1, <3>2 DEF LineInv, ProgramsKept, ProgramKept, Taken
    <3>5. UnitsKept'
      BY <3>1, <3>2 DEF LineInv, UnitsKept, Taken
    <3>6. EndsInOrder'
      BY <3>1, <3>2 DEF LineInv, EndsInOrder, Killed, MetEOF, HasEnded
    <3>7. QED
      BY <3>3, <3>4, <3>5, <3>6 DEF LineInv
  <2>2. Shell => LineInv'
    BY ShellLineInv
  <2>3. ASSUME NEW c \in DOMAIN cpc, Child(c) PROVE LineInv'
    BY <2>3, ChildLineInv
  <2>4. QED
    BY <2>1, <2>2, <2>3 DEF Next
<1>3. QED
  BY <1>1, <1>2, InvariantHolds, PTL DEF Spec

(* Back at its prompt the shell has run the pipeline to its end: what the   *)
(* last program has written is what the line makes of the units of the      *)
(* script that its first program took, whatever the length of the line, the *)
(* capacity of the pipes and the order in which the programs ran.           *)
THEOREM OutputIsWhole == Spec => []OutputWhole
<1>1. IInv /\ LineInv => OutputWhole
  <2> SUFFICES ASSUME IInv, LineInv, ppc = "scan", size > 0
               PROVE  wrote[size] \in {Output(0), Output(1)}
    BY DEF OutputWhole
  <2>1. size \in Nat /\ 1 \in DOMAIN cpc /\ have[1] \in {0, 1} /\ wrote[1] \in 0 .. 2
    BY ChildDomains DEF LineInv, ChildrenAwaited
  <2>2. Taken(1) \in {0, 1}
    <3>1. Taken(1) <= 1
      BY <2>1 DEF LineInv, ProgramsKept, ProgramKept
    <3>2. Taken(1) \in Nat
      BY <2>1 DEF Taken
    <3>3. QED
      BY <3>1, <3>2
  <2>3. PICK f : FlowsTo(f, Taken(1), size) /\ Output(Taken(1)) = f[size]
    BY <2>1, OutputFlows
  <2>4. wrote[size] = f[size]
    BY <2>3, EachWhole
  <2>5. QED
    BY <2>2, <2>3, <2>4
<1>2. QED
  BY <1>1, InvariantHolds, LineInvariantHolds, PTL
=============================================================================
