------------------------- MODULE FifoTransferProofs -------------------------
(***************************************************************************)
(* Proofs about FifoTransfer, for messages and FIFOs of any size.          *)
(***************************************************************************)
EXTENDS FifoTransfer, SequenceTheorems, TLAPS

(***************************************************************************)
(* Arithmetic of message sizes.                                            *)
(***************************************************************************)
LEMMA Sizes ==
  /\ MaxRead \in Nat /\ MaxRead > 0
  /\ MsgSz \in Nat /\ MsgSz = MaxRead + 1
  /\ ReadySz \in Nat /\ ReadySz = MaxRead + 2
  BY MaxReadAssumption DEF MsgSz, ReadySz

(* A message before message k ends where k begins, or before.               *)
LEMMA Multiples ==
  ASSUME NEW m \in Int, NEW k \in Int
  PROVE  /\ m * MaxRead \in Int
         /\ m * MsgSz = m * MaxRead + m
         /\ (m + 1) * MaxRead = m * MaxRead + MaxRead
         /\ (m - 1) * MaxRead = m * MaxRead - MaxRead
         /\ 0 * MaxRead = 0 /\ 1 * MaxRead = MaxRead
         /\ m >= 0 => m * MaxRead >= 0
         /\ m < k => m * MaxRead + MaxRead <= k * MaxRead
<1>1. m * MaxRead \in Int /\ k * MaxRead \in Int
  BY Sizes
<1>2. /\ m * MsgSz = m * MaxRead + m
      /\ (m + 1) * MaxRead = m * MaxRead + MaxRead
      /\ (m - 1) * MaxRead = m * MaxRead - MaxRead
      /\ 0 * MaxRead = 0 /\ 1 * MaxRead = MaxRead
  BY Sizes
<1>3. \A n \in Nat : n * MaxRead >= 0
  BY Sizes
<1>4. m < k => m * MaxRead + MaxRead <= k * MaxRead
  <2> SUFFICES ASSUME m < k PROVE m * MaxRead + MaxRead <= k * MaxRead
    OBVIOUS
  <2>1. k - m - 1 \in Nat
    OBVIOUS
  <2>2. (k - m - 1) * MaxRead = k * MaxRead - m * MaxRead - MaxRead
    BY Sizes
  <2>3. QED
    BY <1>1, <1>3, <2>1, <2>2, Sizes
<1>5. QED
  BY <1>1, <1>2, <1>3, <1>4

LEMMA Index ==
  ASSUME NEW k \in Nat, NEW m \in 0 .. (k - 1)
  PROVE  /\ m \in Nat /\ m * MaxRead \in Nat /\ m * MsgSz = m * MaxRead + m
         /\ k * MaxRead \in Nat /\ m * MaxRead + MaxRead <= k * MaxRead
<1>1. m \in Nat /\ m \in Int /\ k \in Int /\ m >= 0 /\ k >= 0 /\ m < k
  OBVIOUS
<1>2. /\ m * MaxRead \in Int /\ m * MaxRead >= 0
      /\ m * MsgSz = m * MaxRead + m
      /\ m * MaxRead + MaxRead <= k * MaxRead
  BY <1>1, Multiples
<1>3. k * MaxRead \in Int /\ k * MaxRead >= 0
  BY <1>1, Multiples
<1>4. QED
  BY <1>1, <1>2, <1>3

LEMMA Numbers ==
  ASSUME TypeOK
  PROVE  /\ src \in Seq(Byte) /\ Len(src) \in Nat
         /\ sent \in Nat /\ sent <= Len(src)
         /\ Len(dst) \in Nat /\ Len(pipe) \in Nat
  BY SourcesAssumption DEF TypeOK

(* What is left of the FIFO when its first size bytes have been taken.      *)
LEMMA Shorter ==
  ASSUME TypeOK, NEW size \in 0 .. Len(pipe),
         pipe' = SubSeq(pipe, size + 1, Len(pipe))
  PROVE  /\ pipe' \in Seq(Element)
         /\ Len(pipe') = Len(pipe) - size
         /\ \A n \in 1 .. (Len(pipe) - size) : pipe'[n] = pipe[n + size]
  BY DEF TypeOK

LEMMA ReadSzRange ==
  ASSUME TypeOK
  PROVE  /\ ReadSz \in 0 .. MaxRead
         /\ sent + ReadSz \in 0 .. Len(src)
         /\ ReadSz < MaxRead => sent + ReadSz = Len(src)
  BY Numbers, Sizes DEF ReadSz

LEMMA MessageIs ==
  ASSUME TypeOK
  PROVE  /\ Message \in Seq(Element)
         /\ Len(Message) = ReadSz + 1
         /\ Message[1] = ReadSz
         /\ \A n \in 1 .. ReadSz : Message[1 + n] = src[sent + n]
<1> DEFINE data == SubSeq(src, sent + 1, sent + ReadSz)
<1>1. /\ ReadSz \in 0 .. MaxRead /\ sent \in Nat
      /\ sent + ReadSz \in 0 .. Len(src) /\ src \in Seq(Byte)
  BY ReadSzRange, Numbers
<1>2. /\ data \in Seq(Byte) /\ Len(data) = ReadSz
      /\ \A n \in 1 .. ReadSz : data[n] = src[sent + n]
  <2>1. \A i \in (sent + 1) .. (sent + ReadSz) : src[i] \in Byte
    BY <1>1, Sizes
  <2>2. ReadSz \in Nat /\ sent + 1 \in Int /\ sent + ReadSz \in Int
    BY <1>1, Sizes
  <2>3. /\ data \in Seq(Byte)
        /\ Len(data) = IF sent + 1 <= sent + ReadSz
                       THEN (sent + ReadSz) - (sent + 1) + 1 ELSE 0
        /\ \A i \in 1 .. ((sent + ReadSz) - (sent + 1) + 1) :
             data[i] = src[(sent + 1) + i - 1]
    BY <2>1, <2>2, SubSeqProperties
  <2> HIDE DEF data
  <2>4. \A n \in 1 .. ReadSz : (sent + 1) + n - 1 = sent + n
    BY <1>1, <2>2
  <2>5. QED
    BY <1>1, <2>2, <2>3, <2>4
<1>3. data \in Seq(Element) /\ <<ReadSz>> \in Seq(Element)
  BY <1>1, <1>2 DEF Element
<1>4. Message = <<ReadSz>> \o data
  BY DEF Message
<1> HIDE DEF data
<1>5. QED
  BY <1>1, <1>2, <1>3, <1>4, Sizes

(***************************************************************************)
(* What the client finds.                                                  *)
(***************************************************************************)

(* The answer is the server's, for nothing else can be in front of it.      *)
LEMMA AnswerFound ==
  ASSUME IInv, CliAnswer
  PROVE  /\ spc \in {"source", "failed", "send", "done"}
         /\ Messages(ReadySz)
         /\ ReadySz \in 0 .. Len(pipe)
         /\ pipe' = SubSeq(pipe, ReadySz + 1, Len(pipe))
         /\ cpc = "answer" /\ cpc' = "create"
<1>1. cpc = "answer" /\ pipe # << >> /\ TypeOK /\ CopyOK
  BY DEF CliAnswer, ClientGoes, IInv
<1>2. spc \in {"source", "failed", "send", "done"}
  BY <1>1 DEF IInv, Meeting, Early, TypeOK, ServerPC
<1>3. Messages(ReadySz) /\ \A n \in 1 .. ReadySz : pipe[n] = Ready
  BY <1>1, <1>2 DEF IInv, PipeOK
<1>4. ReadySz \in 0 .. Len(pipe)
  <2>1. PICK k \in 0 .. Len(pipe) : Len(pipe) = ReadySz + Unread + k
    BY <1>3 DEF Messages
  <2>2. Unread \in Nat
    BY <1>1, Numbers DEF CopyOK, Unread
  <2>3. QED
    BY <1>1, <2>1, <2>2, Numbers, Sizes
<1>5. Taken(ReadySz) = ReadySz
  BY <1>1, <1>4, Numbers, Sizes DEF Taken
<1>6. SubSeq(pipe, 1, ReadySz) = ReadyMsg
  <2>1. /\ SubSeq(pipe, 1, ReadySz) \in Seq(Element)
        /\ Len(SubSeq(pipe, 1, ReadySz)) = ReadySz
        /\ \A n \in 1 .. ReadySz : SubSeq(pipe, 1, ReadySz)[n] = Ready
    BY <1>1, <1>3, <1>4, Sizes DEF TypeOK
  <2>2. SubSeq(pipe, 1, ReadySz) = [n \in 1 .. ReadySz |-> Ready]
    BY <2>1, Sizes
  <2>3. QED
    BY <2>2 DEF ReadyMsg
<1>7. QED
  BY <1>1, <1>2, <1>3, <1>4, <1>5, <1>6 DEF CliAnswer, ClientGoes

(* What the first message in the FIFO is.                                   *)
First == IF Unread < MaxRead THEN Unread ELSE MaxRead

LEMMA MessageFound ==
  ASSUME IInv, cpc = "receive", pipe # << >>
  PROVE  /\ spc \in {"send", "done"}
         /\ Unread \in Nat /\ First \in 1 .. MaxRead /\ First <= Unread
         /\ Taken(MsgSz) = First + 1 /\ First + 1 <= Len(pipe)
         /\ pipe[1] = First
         /\ \A n \in 1 .. First : pipe[1 + n] = src[Len(dst) + n]
         /\ First < MaxRead => Unread = First /\ sent = Len(src)
<1>1. TypeOK /\ CopyOK /\ Meeting
  BY DEF IInv
<1>2. spc \in {"source", "failed", "send", "done"}
  BY <1>1 DEF Meeting, Early, TypeOK, ServerPC
<1>3. Messages(0)
  BY <1>2 DEF IInv, PipeOK
<1>4. Unread \in Nat /\ Len(pipe) \in Nat /\ Len(pipe) > 0
  BY <1>1, Numbers DEF CopyOK, Unread, TypeOK
<1>5. PICK k \in 0 .. Len(pipe) :
        /\ Len(pipe) = 0 + Unread + k
        /\ Unread <= k * MaxRead /\ k * MaxRead < Unread + MaxRead
        /\ spc # "done" => Unread = k * MaxRead
        /\ \A m \in 0 .. (k - 1) :
             MessageAt(0 + m * MsgSz, LenOf(m), Len(dst) + m * MaxRead)
  BY <1>3 DEF Messages
<1>6. k >= 1
  <2>1. k = 0 => k * MaxRead = 0
    BY Multiples
  <2>2. QED
    BY <1>4, <1>5, <2>1
<1>7. k * MaxRead >= MaxRead
  <2>1. /\ 0 < k => 0 * MaxRead + MaxRead <= k * MaxRead
        /\ 0 * MaxRead = 0
    BY Multiples
  <2>2. QED
    BY <1>6, <2>1, Sizes
<1>8. Unread > 0
  BY <1>4, <1>5, <1>7, Multiples, Sizes
<1>9. Unread < MaxRead => k = 1 /\ spc = "done"
  <2> SUFFICES ASSUME Unread < MaxRead PROVE k = 1 /\ spc = "done"
    OBVIOUS
  <2>1. 1 < k => MaxRead + MaxRead <= k * MaxRead
    BY Multiples
  <2>2. k * MaxRead \in Int
    BY Multiples
  <2>3. QED
    BY <1>4, <1>5, <1>6, <1>7, <2>1, <2>2, Sizes
<1>10. MessageAt(0, First, Len(dst))
  <2>1. 0 * MsgSz = 0 /\ 0 * MaxRead = 0
    BY Sizes
  <2>2. LenOf(0) = First
    BY <1>4, <2>1, Sizes DEF LenOf, First
  <2>3. MessageAt(0 + 0 * MsgSz, LenOf(0), Len(dst) + 0 * MaxRead)
    BY <1>5, <1>6
  <2>4. QED
    BY <1>1, <2>1, <2>2, <2>3, Numbers
<1>11. First \in 1 .. MaxRead /\ First <= Unread
  BY <1>4, <1>8, Sizes DEF First
<1>12. Taken(MsgSz) = First + 1 /\ First + 1 <= Len(pipe)
  BY <1>4, <1>5, <1>6, <1>9, Sizes DEF Taken, First
<1>13. pipe[1] = First /\ \A n \in 1 .. First : pipe[1 + n] = src[Len(dst) + n]
  BY <1>10, <1>11 DEF MessageAt
<1>14. spc \in {"send", "done"}
  <2>1. spc \in {"source", "failed"} => Unread = 0
    BY <1>1 DEF Meeting, Unread
  <2>2. QED
    BY <1>2, <1>8, <2>1
<1>15. First < MaxRead => Unread = First /\ sent = Len(src)
  BY <1>1, <1>4, <1>9, Sizes DEF First, Meeting
<1>16. QED
  BY <1>4, <1>11, <1>12, <1>13, <1>14, <1>15

(* The client appends exactly the data of that message.                     *)
LEMMA ReceiveCopies ==
  ASSUME IInv, CliReceive
  PROVE  /\ sm_data' \in [1 .. MsgSz -> Element]
         /\ dst' \in Seq(Byte) /\ Len(dst') = Len(dst) + First
         /\ \A n \in 1 .. Len(dst') : dst'[n] = src[n]
         /\ pipe' = SubSeq(pipe, First + 2, Len(pipe))
         /\ cpc' = IF First = MaxRead THEN "receive" ELSE "close"
<1>1. TypeOK /\ CopyOK
  BY DEF IInv
<1>2. /\ cpc = "receive" /\ pipe # << >>
      /\ sm_data' = [n \in 1 .. MsgSz |->
                       IF n <= Taken(MsgSz) THEN pipe[n] ELSE sm_data[n]]
      /\ pipe' = SubSeq(pipe, Taken(MsgSz) + 1, Len(pipe))
  BY DEF CliReceive, Read
<1>3. /\ First \in 1 .. MaxRead /\ First <= Unread
      /\ Taken(MsgSz) = First + 1 /\ First + 1 <= Len(pipe)
      /\ pipe[1] = First
      /\ \A n \in 1 .. First : pipe[1 + n] = src[Len(dst) + n]
  BY <1>2, MessageFound
<1>4. sm_data' \in [1 .. MsgSz -> Element]
  BY <1>1, <1>2, <1>3, Sizes DEF TypeOK
<1>5. sm_data'[1] = First
  BY <1>2, <1>3, Sizes
<1>6. dst' = dst \o SubSeq(sm_data', 2, 1 + First)
  BY <1>5 DEF CliReceive
<1>7. /\ Len(dst) \in Nat /\ Len(dst) + First <= Len(src)
      /\ src \in Seq(Byte) /\ dst \in Seq(Byte)
  BY <1>1, <1>3, Numbers, Sizes DEF Unread, TypeOK
<1>8. /\ SubSeq(sm_data', 2, 1 + First) \in Seq(Byte)
      /\ Len(SubSeq(sm_data', 2, 1 + First)) = First
      /\ \A n \in 1 .. First :
           SubSeq(sm_data', 2, 1 + First)[n] = src[Len(dst) + n]
  <2>1. sm_data' \in Seq(Element) /\ Len(sm_data') = MsgSz
    BY <1>4, Sizes
  <2>2. \A n \in 1 .. First : sm_data'[1 + n] = src[Len(dst) + n]
    BY <1>2, <1>3, Sizes
  <2>3. \A n \in 1 .. First : src[Len(dst) + n] \in Byte
    BY <1>3, <1>7, Sizes
  <2>4. /\ Len(SubSeq(sm_data', 2, 1 + First)) = First
        /\ SubSeq(sm_data', 2, 1 + First) \in Seq(Element)
        /\ \A n \in 1 .. First : SubSeq(sm_data', 2, 1 + First)[n] = sm_data'[1 + n]
    BY <1>3, <2>1, Sizes
  <2>5. SubSeq(sm_data', 2, 1 + First) \in Seq(Byte)
    <3>1. \A i \in 2 .. (1 + First) :
            i - 1 \in 1 .. First /\ sm_data'[i] = sm_data'[1 + (i - 1)]
      BY <1>3, Sizes
    <3>2. \A i \in 2 .. (1 + First) : sm_data'[i] \in Byte
      BY <2>2, <2>3, <3>1
    <3>3. 2 \in Int /\ 1 + First \in Int
      BY <1>3
    <3>4. QED
      BY <3>2, <3>3, SubSeqProperties
  <2>6. QED
    BY <2>2, <2>4, <2>5
<1>9. /\ dst' \in Seq(Byte) /\ Len(dst') = Len(dst) + First
      /\ \A n \in 1 .. Len(dst') : dst'[n] = src[n]
  <2>1. \A n \in 1 .. Len(dst) : dst[n] = src[n]
    BY <1>1 DEF CopyOK
  <2>2. dst' \in Seq(Byte) /\ Len(dst') = Len(dst) + First
    BY <1>3, <1>6, <1>7, <1>8, Sizes
  <2>3. ASSUME NEW n \in 1 .. Len(dst') PROVE dst'[n] = src[n]
    <3>1. CASE n <= Len(dst)
      BY <1>3, <1>6, <1>7, <1>8, <2>1, <2>2, <3>1, Sizes
    <3>2. CASE n > Len(dst)
      <4>1. n - Len(dst) \in 1 .. First
        BY <1>3, <1>7, <2>2, <3>2, Sizes
      <4>2. dst'[n] = SubSeq(sm_data', 2, 1 + First)[n - Len(dst)]
        BY <1>3, <1>6, <1>7, <1>8, <2>2, <3>2, <4>1, Sizes
      <4>3. QED
        BY <1>7, <1>8, <4>1, <4>2
    <3>3. QED
      BY <1>7, <2>2, <3>1, <3>2, <1>3, Sizes
  <2>4. QED
    BY <2>2, <2>3
<1>10. pipe' = SubSeq(pipe, First + 2, Len(pipe))
  BY <1>2, <1>3, Sizes
<1>11. cpc' = IF First = MaxRead THEN "receive" ELSE "close"
  BY <1>5 DEF CliReceive, ClientGoes
<1>12. QED
  BY <1>4, <1>9, <1>10, <1>11

(***************************************************************************)
(* The steps that change the FIFO.                                         *)
(***************************************************************************)
(* A message more behind full ones.                                         *)
LEMMA SendKeeps ==
  ASSUME IInv, SrvSend, NEW start \in Nat, Messages(start)
  PROVE  Messages(start)'
<1>1. TypeOK /\ CopyOK
  BY DEF IInv
<1>2. /\ spc = "send" /\ ReadSz # 0 /\ spc' = AfterMessage
      /\ pipe' = pipe \o Message /\ sent' = sent + ReadSz
      /\ UNCHANGED <<src, dst>>
  BY DEF SrvSend, ServerGoes
<1>3. /\ ReadSz \in 1 .. MaxRead /\ Unread \in Nat /\ Len(pipe) \in Nat
      /\ Len(dst) \in Nat /\ sent \in Nat /\ sent = Len(dst) + Unread
  BY <1>1, <1>2, Numbers, ReadSzRange, Sizes DEF CopyOK, Unread
<1>4. Unread' = Unread + ReadSz
  BY <1>2, <1>3, Sizes DEF Unread
<1>5. /\ Len(pipe') = Len(pipe) + ReadSz + 1
      /\ \A n \in 1 .. Len(pipe) : pipe'[n] = pipe[n]
      /\ pipe'[Len(pipe) + 1] = ReadSz
      /\ \A n \in 1 .. ReadSz : pipe'[Len(pipe) + 1 + n] = src[sent + n]
  <2>1. pipe \in Seq(Element)
    BY <1>1 DEF TypeOK
  <2>2. /\ Len(pipe') = Len(pipe) + (ReadSz + 1)
        /\ \A n \in 1 .. Len(pipe) : pipe'[n] = pipe[n]
        /\ \A n \in 1 .. (ReadSz + 1) : pipe'[Len(pipe) + n] = Message[n]
    <3>1. Message \in Seq(Element) /\ Len(Message) = ReadSz + 1
      BY <1>1, MessageIs
    <3>2. /\ Len(pipe \o Message) = Len(pipe) + Len(Message)
          /\ \A n \in 1 .. Len(pipe) : (pipe \o Message)[n] = pipe[n]
          /\ \A n \in 1 .. Len(Message) : (pipe \o Message)[Len(pipe) + n] = Message[n]
      BY <2>1, <3>1
    <3>3. QED
      BY <1>2, <3>1, <3>2
  <2>3. \A n \in 1 .. ReadSz :
          1 + n \in 1 .. (ReadSz + 1) /\ Len(pipe) + (1 + n) = Len(pipe) + 1 + n
    BY <1>3, Sizes
  <2>4. 1 \in 1 .. (ReadSz + 1)
    BY <1>3
  <2>5. Message[1] = ReadSz /\ \A n \in 1 .. ReadSz : Message[1 + n] = src[sent + n]
    BY <1>1, MessageIs
  <2>6. pipe'[Len(pipe) + 1] = ReadSz
    BY <2>2, <2>4, <2>5
  <2>7. \A n \in 1 .. ReadSz : pipe'[Len(pipe) + 1 + n] = src[sent + n]
    BY <2>2, <2>3, <2>5
  <2>8. QED
    BY <1>3, <2>2, <2>6, <2>7
<1>6. PICK k \in 0 .. Len(pipe) :
        /\ Len(pipe) = start + Unread + k
        /\ Unread = k * MaxRead
        /\ \A m \in 0 .. (k - 1) :
             MessageAt(start + m * MsgSz, LenOf(m), Len(dst) + m * MaxRead)
  BY <1>2 DEF Messages
<1>7. /\ k \in Nat /\ (k + 1) * MaxRead = k * MaxRead + MaxRead
      /\ k * MsgSz = k * MaxRead + k
  BY <1>3, <1>6, Multiples
<1>8. /\ Len(pipe') = start + Unread' + (k + 1)
      /\ k + 1 \in 0 .. Len(pipe')
  BY <1>3, <1>4, <1>5, <1>6, <1>7, Sizes
<1>9. /\ Unread' <= (k + 1) * MaxRead
      /\ (k + 1) * MaxRead < Unread' + MaxRead
  BY <1>3, <1>4, <1>6, <1>7, Sizes
<1>10. spc' # "done" => Unread' = (k + 1) * MaxRead
  BY <1>2, <1>3, <1>4, <1>6, <1>7, Sizes DEF AfterMessage
<1>11. ASSUME NEW m \in 0 .. (k - 1)
       PROVE  MessageAt(start + m * MsgSz, LenOf(m), Len(dst) + m * MaxRead)'
  <2>1. /\ m \in Nat /\ m * MaxRead \in Nat /\ m * MsgSz = m * MaxRead + m
        /\ k * MaxRead \in Nat /\ m * MaxRead + MaxRead <= k * MaxRead
    BY <1>7, Index
  <2>2. LenOf(m) = MaxRead /\ LenOf(m)' = MaxRead
    BY <1>3, <1>4, <1>6, <2>1, Sizes DEF LenOf
  <2>3. /\ start + m * MsgSz + 1 \in 1 .. Len(pipe)
        /\ \A n \in 1 .. MaxRead : start + m * MsgSz + 1 + n \in 1 .. Len(pipe)
    <3>1. \A p, q \in Nat : p + MaxRead <= q =>
            \A n \in 0 .. MaxRead : start + (p + m) + 1 + n \in 1 .. (start + q + k)
      BY <1>7, <2>1, Sizes
    <3>2. \A n \in 0 .. MaxRead :
            start + (m * MaxRead + m) + 1 + n \in 1 .. (start + k * MaxRead + k)
      BY <2>1, <3>1
    <3>3. \A n \in 0 .. MaxRead : start + m * MsgSz + 1 + n \in 1 .. Len(pipe)
      BY <1>6, <2>1, <3>2
    <3>4. 0 \in 0 .. MaxRead /\ \A n \in 1 .. MaxRead : n \in 0 .. MaxRead
      BY Sizes
    <3>5. start + m * MsgSz + 1 + 0 = start + m * MsgSz + 1
      <4>1. \A p \in Nat : start + p + 1 + 0 = start + p + 1
        OBVIOUS
      <4>2. m * MsgSz \in Nat
        BY <2>1
      <4>3. QED
        BY <4>1, <4>2
    <3>6. start + m * MsgSz + 1 \in 1 .. Len(pipe)
      BY <3>3, <3>4, <3>5
    <3>7. QED
      BY <3>3, <3>4, <3>6
  <2>4. MessageAt(start + m * MsgSz, MaxRead, Len(dst) + m * MaxRead)
    BY <1>6, <2>2
  <2>5. QED
    BY <1>2, <1>5, <2>2, <2>3, <2>4 DEF MessageAt
<1>12. MessageAt(start + k * MsgSz, LenOf(k), Len(dst) + k * MaxRead)'
  <2>1. LenOf(k)' = ReadSz
    BY <1>3, <1>4, <1>6, <1>7, Sizes DEF LenOf
  <2>2. start + k * MsgSz = Len(pipe) /\ Len(dst) + k * MaxRead = sent
    BY <1>3, <1>6, <1>7, Sizes
  <2>3. QED
    BY <1>2, <1>5, <2>1, <2>2 DEF MessageAt
<1>13. \A m \in 0 .. ((k + 1) - 1) :
         MessageAt(start + m * MsgSz, LenOf(m), Len(dst) + m * MaxRead)'
  <2>1. \A m \in 0 .. ((k + 1) - 1) : m \in 0 .. (k - 1) \/ m = k
    BY <1>7
  <2>2. QED
    BY <1>11, <1>12, <2>1
<1>14. QED
  BY <1>8, <1>9, <1>10, <1>13 DEF Messages

(* Messages behind the answer, once it has been taken.                      *)
LEMMA AnswerKeeps ==
  ASSUME IInv, CliAnswer
  PROVE  Messages(0)'
<1>1. TypeOK /\ CopyOK
  BY DEF IInv
<1>2. Unread \in Nat /\ Len(pipe) \in Nat /\ UNCHANGED <<src, dst, sent, spc>>
  BY <1>1, Numbers DEF CopyOK, Unread, CliAnswer, ClientGoes, files
<1>3. /\ Len(pipe') = Len(pipe) - ReadySz
      /\ \A n \in 1 .. (Len(pipe) - ReadySz) : pipe'[n] = pipe[n + ReadySz]
  BY <1>1, AnswerFound, Shorter
<1>4. PICK k \in 0 .. Len(pipe) :
        /\ Len(pipe) = ReadySz + Unread + k
        /\ Unread <= k * MaxRead /\ k * MaxRead < Unread + MaxRead
        /\ spc # "done" => Unread = k * MaxRead
        /\ \A m \in 0 .. (k - 1) :
             MessageAt(ReadySz + m * MsgSz, LenOf(m), Len(dst) + m * MaxRead)
  BY AnswerFound DEF Messages
<1>5. Unread' = Unread /\ Len(pipe') = 0 + Unread' + k /\ k \in 0 .. Len(pipe')
  BY <1>2, <1>3, <1>4, Sizes DEF Unread
<1>6. ASSUME NEW m \in 0 .. (k - 1)
      PROVE  MessageAt(0 + m * MsgSz, LenOf(m), Len(dst) + m * MaxRead)'
  <2>1. /\ m \in Nat /\ m * MaxRead \in Nat /\ m * MsgSz = m * MaxRead + m
        /\ m * MaxRead + MaxRead <= k * MaxRead
    <3>1. k \in Nat
      BY <1>2, <1>4
    <3>2. QED
      BY <3>1, Index
  <2>2. LenOf(m)' = LenOf(m)
    BY <1>5 DEF LenOf
  <2>3. LenOf(m) \in Int /\ m * MaxRead + LenOf(m) <= Unread /\ LenOf(m) >= 1
    BY <1>2, <1>4, <2>1, Sizes DEF LenOf
  <2>4. /\ 0 + m * MsgSz + 1 \in 1 .. (Len(pipe) - ReadySz)
        /\ \A n \in 1 .. LenOf(m) :
             0 + m * MsgSz + 1 + n \in 1 .. (Len(pipe) - ReadySz)
    BY <1>2, <1>4, <2>1, <2>3, Sizes
  <2>5. /\ 0 + m * MsgSz + 1 + ReadySz = ReadySz + m * MsgSz + 1
        /\ \A n \in 1 .. LenOf(m) :
             0 + m * MsgSz + 1 + n + ReadySz = ReadySz + m * MsgSz + 1 + n
    BY <2>1, <2>3, Sizes
  <2>6. MessageAt(ReadySz + m * MsgSz, LenOf(m), Len(dst) + m * MaxRead)
    BY <1>4
  <2>7. pipe'[0 + m * MsgSz + 1] = LenOf(m)
    BY <1>3, <2>4, <2>5, <2>6 DEF MessageAt
  <2>8. \A n \in 1 .. LenOf(m) :
          pipe'[0 + m * MsgSz + 1 + n] = src[Len(dst) + m * MaxRead + n]
    BY <1>3, <2>4, <2>5, <2>6 DEF MessageAt
  <2>9. QED
    BY <1>2, <2>2, <2>7, <2>8 DEF MessageAt
<1>7. QED
  BY <1>2, <1>4, <1>5, <1>6 DEF Messages

(* Messages behind a full one, once it has been taken.                      *)
LEMMA ReceiveKeeps ==
  ASSUME IInv, CliReceive, cpc' = "receive"
  PROVE  Messages(0)'
<1>1. TypeOK /\ CopyOK
  BY DEF IInv
<1>2. cpc = "receive" /\ pipe # << >> /\ UNCHANGED <<src, sent, spc>>
  BY DEF CliReceive, Read, ClientGoes
<1>3. First = MaxRead /\ Len(dst') = Len(dst) + MaxRead
  BY ReceiveCopies
<1>4. /\ spc \in {"send", "done"} /\ Unread \in Nat /\ MaxRead <= Unread
      /\ MsgSz \in 0 .. Len(pipe)
  BY <1>1, <1>2, <1>3, MessageFound, Numbers, Sizes
<1>5. /\ Len(pipe') = Len(pipe) - MsgSz
      /\ \A n \in 1 .. (Len(pipe) - MsgSz) : pipe'[n] = pipe[n + MsgSz]
  <2>1. First + 2 = MsgSz + 1
    BY <1>3, Sizes
  <2>2. pipe' = SubSeq(pipe, MsgSz + 1, Len(pipe))
    BY <2>1, ReceiveCopies
  <2>3. QED
    BY <1>1, <1>4, <2>2, Shorter
<1>6. PICK k \in 0 .. Len(pipe) :
        /\ Len(pipe) = 0 + Unread + k
        /\ Unread <= k * MaxRead /\ k * MaxRead < Unread + MaxRead
        /\ spc # "done" => Unread = k * MaxRead
        /\ \A m \in 0 .. (k - 1) :
             MessageAt(0 + m * MsgSz, LenOf(m), Len(dst) + m * MaxRead)
  <2>1. Messages(0)
    BY <1>2, <1>4 DEF IInv, PipeOK
  <2>2. QED
    BY <2>1 DEF Messages
<1>7. Unread' = Unread - MaxRead
  BY <1>1, <1>2, <1>3, Numbers, Sizes DEF Unread
<1>8. /\ k \in Nat /\ k >= 1 /\ k * MaxRead \in Int
      /\ (k - 1) * MaxRead = k * MaxRead - MaxRead
  <2>1. k \in Nat /\ k * MaxRead \in Int /\ (k - 1) * MaxRead = k * MaxRead - MaxRead
    BY <1>1, <1>6, Numbers, Multiples
  <2>2. k = 0 => k * MaxRead = 0
    BY Multiples
  <2>3. QED
    BY <1>4, <1>6, <2>1, <2>2, Sizes
<1>9. /\ Len(pipe') = 0 + Unread' + (k - 1) /\ k - 1 \in 0 .. Len(pipe')
      /\ Unread' <= (k - 1) * MaxRead /\ (k - 1) * MaxRead < Unread' + MaxRead
      /\ spc' # "done" => Unread' = (k - 1) * MaxRead
  BY <1>1, <1>2, <1>4, <1>5, <1>6, <1>7, <1>8, Numbers, Sizes
<1>10. ASSUME NEW m \in 0 .. ((k - 1) - 1)
       PROVE  MessageAt(0 + m * MsgSz, LenOf(m), Len(dst) + m * MaxRead)'
  <2>1. /\ m \in Nat /\ m * MaxRead \in Nat /\ m * MsgSz = m * MaxRead + m
        /\ m + 1 \in 0 .. (k - 1)
        /\ (m + 1) * MaxRead = m * MaxRead + MaxRead
        /\ (m + 1) * MsgSz = (m + 1) * MaxRead + (m + 1)
        /\ (m + 1) * MaxRead \in Nat
        /\ (m + 1) * MaxRead + MaxRead <= k * MaxRead
    <3>1. m \in 0 .. (k - 1) /\ m + 1 \in 0 .. (k - 1) /\ m \in Int
      BY <1>8
    <3>2. m \in Nat /\ m * MaxRead \in Nat /\ m * MsgSz = m * MaxRead + m
      BY <1>8, <3>1, Index
    <3>3. /\ (m + 1) * MaxRead \in Nat
          /\ (m + 1) * MsgSz = (m + 1) * MaxRead + (m + 1)
          /\ (m + 1) * MaxRead + MaxRead <= k * MaxRead
      BY <1>8, <3>1, Index
    <3>4. (m + 1) * MaxRead = m * MaxRead + MaxRead
      BY <3>1, Multiples
    <3>5. QED
      BY <3>1, <3>2, <3>3, <3>4
  <2>2. LenOf(m)' = LenOf(m + 1)
    BY <1>4, <1>7, <2>1, Sizes DEF LenOf
  <2>3. /\ LenOf(m + 1) \in Int /\ LenOf(m + 1) >= 1
        /\ (m + 1) * MaxRead + LenOf(m + 1) <= Unread
    BY <1>4, <1>6, <1>8, <2>1, Sizes DEF LenOf
  <2>4. /\ 0 + m * MsgSz + 1 \in 1 .. (Len(pipe) - MsgSz)
        /\ \A n \in 1 .. LenOf(m + 1) :
             0 + m * MsgSz + 1 + n \in 1 .. (Len(pipe) - MsgSz)
    BY <1>4, <1>6, <1>8, <2>1, <2>3, Sizes
  <2>5. /\ 0 + m * MsgSz + 1 + MsgSz = 0 + (m + 1) * MsgSz + 1
        /\ \A n \in 1 .. LenOf(m + 1) :
             /\ 0 + m * MsgSz + 1 + n + MsgSz = 0 + (m + 1) * MsgSz + 1 + n
             /\ Len(dst') + m * MaxRead + n = Len(dst) + (m + 1) * MaxRead + n
    BY <1>1, <1>3, <2>1, <2>3, Numbers, Sizes
  <2>6. MessageAt(0 + (m + 1) * MsgSz, LenOf(m + 1), Len(dst) + (m + 1) * MaxRead)
    BY <1>6, <2>1
  <2>7. pipe'[0 + m * MsgSz + 1] = LenOf(m + 1)
    BY <1>5, <2>4, <2>5, <2>6 DEF MessageAt
  <2>8. \A n \in 1 .. LenOf(m + 1) :
          pipe'[0 + m * MsgSz + 1 + n] = src[Len(dst') + m * MaxRead + n]
    BY <1>5, <2>4, <2>5, <2>6 DEF MessageAt
  <2>9. QED
    BY <1>2, <2>2, <2>7, <2>8 DEF MessageAt
<1>11. QED
  BY <1>9, <1>10 DEF Messages

(***************************************************************************)
(* The invariant.                                                          *)
(***************************************************************************)
LEMMA InitIInv == Init => IInv
<1> SUFFICES ASSUME Init PROVE IInv
  OBVIOUS
<1>1. TypeOK
  <2>1. [n \in 1 .. MsgSz |-> Ready] \in [1 .. MsgSz -> Element]
    BY DEF Element
  <2>2. src \in Seq(Byte) /\ Len(src) \in Nat
    BY SourcesAssumption DEF Init
  <2>3. ReadySz >= 0 /\ Cap \in Nat
    BY Sizes, CapAssumption
  <2>4. /\ << >> \in Seq(Byte) /\ << >> \in Seq(Element) /\ Len(<< >>) = 0
        /\ 0 \in 0 .. Len(src) /\ 0 <= Cap
    BY <2>2, <2>3, Sizes, CapAssumption
  <2>5. /\ src \in Sources /\ dst \in Seq(Byte) /\ exists \in BOOLEAN
        /\ request \in BOOLEAN /\ sm_data \in [1 .. MsgSz -> Element]
    BY <2>1, <2>4 DEF Init
  <2>6. sent \in 0 .. Len(src) /\ pipe \in Seq(Element) /\ Len(pipe) <= Cap
    BY <2>4 DEF Init
  <2>7. spc \in ServerPC /\ cpc \in ClientPC
    BY DEF Init, ServerPC, ClientPC
  <2>8. QED
    BY <2>5, <2>6, <2>7 DEF TypeOK
<1>2. Meeting
  BY DEF Init, Meeting, Early
<1>3. CopyOK
  BY DEF Init, CopyOK
<1>4. PipeOK
  BY DEF Init, PipeOK
<1>5. QED
  BY <1>1, <1>2, <1>3, <1>4 DEF IInv

LEMMA TypeStep ==
  ASSUME IInv, Next
  PROVE  TypeOK'
<1>1. TypeOK
  BY DEF IInv
<1>2. CASE SrvReady
  <2>1. ReadyMsg \in Seq(Element) /\ Len(ReadyMsg) = ReadySz
    <3>1. ReadyMsg \in [1 .. ReadySz -> Element]
      BY DEF ReadyMsg, Element
    <3>2. QED
      BY <3>1, Sizes
  <2>2. pipe' \in Seq(Element) /\ Len(pipe') = Len(pipe) + ReadySz
    <3>1. pipe \in Seq(Element) /\ pipe' = pipe \o ReadyMsg
      BY <1>1, <1>2 DEF SrvReady, TypeOK
    <3>2. /\ pipe \o ReadyMsg \in Seq(Element)
          /\ Len(pipe \o ReadyMsg) = Len(pipe) + Len(ReadyMsg)
      BY <2>1, <3>1, ConcatProperties
    <3>3. QED
      BY <2>1, <3>1, <3>2
  <2>3. QED
    BY <1>1, <1>2, <2>2 DEF SrvReady, TypeOK, ServerGoes, files, ServerPC
<1>3. CASE SrvSend
  <2>1. Message \in Seq(Element) /\ Len(Message) = ReadSz + 1
    BY <1>1, MessageIs
  <2>2. ReadSz \in Int /\ sent' \in 0 .. Len(src)
    BY <1>1, <1>3, ReadSzRange DEF SrvSend
  <2>3. pipe' \in Seq(Element) /\ Len(pipe') = Len(pipe) + (ReadSz + 1)
    <3>1. pipe \in Seq(Element) /\ pipe' = pipe \o Message
      BY <1>1, <1>3 DEF SrvSend, TypeOK
    <3>2. QED
      BY <2>1, <3>1
  <2>4. Len(pipe') <= Cap
    <3>1. Len(pipe) + ReadSz + 1 <= Cap
      BY <1>3 DEF SrvSend
    <3>2. QED
      BY <1>1, <2>2, <2>3, <3>1, CapAssumption, Numbers
  <2>5. spc' \in ServerPC
    BY <1>3 DEF SrvSend, ServerGoes, AfterMessage, ServerPC
  <2>6. QED
    BY <1>1, <1>3, <2>2, <2>3, <2>4, <2>5 DEF SrvSend, TypeOK, ServerGoes
<1>4. CASE SrvKilled
  <2>1. sent' \in 0 .. Len(src)
    BY <1>1, <1>4, ReadSzRange DEF SrvKilled
  <2>2. QED
    BY <1>1, <1>4, <2>1 DEF SrvKilled, TypeOK, ServerGoes, ServerPC
<1>5. CASE CliAnswer
  <2>1. pipe' \in Seq(Element) /\ Len(pipe') = Len(pipe) - ReadySz
    BY <1>1, <1>5, AnswerFound, Shorter
  <2>2. Len(pipe') <= Cap
    BY <1>1, <2>1, Sizes, CapAssumption, Numbers DEF TypeOK
  <2>3. cpc' \in ClientPC
    BY <1>5, AnswerFound DEF ClientPC
  <2>4. QED
    BY <1>1, <1>5, <2>1, <2>2, <2>3 DEF CliAnswer, TypeOK, ClientGoes, files
<1>6. CASE CliReceive
  <2>1. /\ sm_data' \in [1 .. MsgSz -> Element] /\ dst' \in Seq(Byte)
        /\ pipe' = SubSeq(pipe, First + 2, Len(pipe))
        /\ cpc' = IF First = MaxRead THEN "receive" ELSE "close"
    BY <1>6, ReceiveCopies
  <2>2. First + 1 \in 0 .. Len(pipe) /\ First + 2 = (First + 1) + 1
    <3>1. cpc = "receive" /\ pipe # << >>
      BY <1>6 DEF CliReceive, Read
    <3>2. First \in 1 .. MaxRead /\ First + 1 <= Len(pipe)
      BY <3>1, MessageFound
    <3>3. QED
      BY <1>1, <3>2, Sizes, Numbers
  <2>3. pipe' \in Seq(Element) /\ Len(pipe') = Len(pipe) - (First + 1)
    BY <1>1, <2>1, <2>2, Shorter
  <2>4. Len(pipe') <= Cap
    BY <1>1, <2>2, <2>3, CapAssumption, Numbers DEF TypeOK
  <2>5. cpc' \in ClientPC
    BY <2>1 DEF ClientPC
  <2>6. QED
    BY <1>1, <1>6, <2>1, <2>3, <2>4, <2>5 DEF CliReceive, TypeOK, ClientGoes
<1>7. CASE \/ SrvMkfifo \/ SrvOpen \/ SrvRequest \/ SrvOpenClient \/ SrvSource \/ SrvEOF
           \/ CliStart \/ CliOpenServer \/ CliRequest \/ CliOpen \/ CliCreate \/ CliClose
  BY <1>1, <1>7
     DEF TypeOK, ServerGoes, ClientGoes, files, ServerPC, ClientPC, SrvMkfifo,
         SrvOpen, SrvRequest, SrvOpenClient, SrvSource, SrvEOF, CliStart,
         CliOpenServer, CliRequest, CliOpen, CliCreate, CliClose
<1>8. QED
  BY <1>2, <1>3, <1>4, <1>5, <1>6, <1>7 DEF Next, Server, Client

LEMMA MeetingStep ==
  ASSUME IInv, Next
  PROVE  Meeting'
<1>1. TypeOK /\ Meeting /\ CopyOK
  BY DEF IInv
<1>2. CASE SrvSend
  <2>1. AfterMessage = "done" => sent' = Len(src)
    BY <1>1, <1>2, ReadSzRange, Sizes DEF SrvSend, AfterMessage
  <2>2. QED
    BY <1>1, <1>2, <2>1
       DEF SrvSend, ServerGoes, AfterMessage, Meeting, Early, ClientGone
<1>3. CASE SrvEOF
  <2>1. sent = Len(src)
    BY <1>1, <1>3, ReadSzRange, Numbers, Sizes DEF SrvEOF
  <2>2. QED
    BY <1>1, <1>3, <2>1 DEF SrvEOF, ServerGoes, Meeting, Early, files
<1>4. CASE CliAnswer
  BY <1>1, <1>4, AnswerFound DEF CliAnswer, ClientGoes, Meeting, Early, files
<1>5. CASE CliReceive
  <2>1. spc \in {"send", "done"} /\ cpc' \in {"receive", "close"}
    <3>1. cpc = "receive" /\ pipe # << >>
      BY <1>5 DEF CliReceive, Read
    <3>2. QED
      BY <1>5, <3>1, MessageFound, ReceiveCopies
  <2>2. QED
    BY <1>1, <1>5, <2>1 DEF CliReceive, ClientGoes, Meeting, Early
<1>6. CASE CliClose \/ CliCreate
  BY <1>1, <1>6 DEF CliClose, CliCreate, ClientGoes, Meeting, Early, files
<1>7. CASE CliStart \/ CliOpenServer \/ CliRequest \/ CliOpen
  BY <1>1, <1>7
     DEF CliStart, CliOpenServer, CliRequest, CliOpen, ClientGoes, Meeting,
         Early, files, TypeOK, ServerPC
<1>8. CASE SrvMkfifo \/ SrvOpen \/ SrvRequest \/ SrvOpenClient
  BY <1>1, <1>8
     DEF SrvMkfifo, SrvOpen, SrvRequest, SrvOpenClient, ServerGoes, Meeting,
         Early, files
<1>9. CASE SrvReady \/ SrvSource \/ SrvKilled
  BY <1>1, <1>9
     DEF SrvReady, SrvSource, SrvKilled, ServerGoes, Meeting, Early, files,
         ClientGone
<1>10. QED
  BY <1>2, <1>3, <1>4, <1>5, <1>6, <1>7, <1>8, <1>9 DEF Next, Server, Client

LEMMA CopyStep ==
  ASSUME IInv, Next
  PROVE  CopyOK'
<1>1. TypeOK /\ Meeting /\ CopyOK
  BY DEF IInv
<1>2. CASE SrvSend \/ SrvKilled
  <2>1. sent' \in Nat /\ sent <= sent'
    BY <1>1, <1>2, ReadSzRange, Numbers DEF SrvSend, SrvKilled
  <2>2. Len(dst) <= sent'
    BY <1>1, <2>1, Numbers DEF CopyOK
  <2>3. UNCHANGED <<src, dst, cpc>>
    BY <1>2 DEF SrvSend, SrvKilled, ServerGoes
  <2>4. QED
    BY <1>1, <2>2, <2>3 DEF CopyOK
<1>3. CASE CliReceive
  <2>1. /\ Len(dst') = Len(dst) + First
        /\ \A n \in 1 .. Len(dst') : dst'[n] = src[n]
        /\ cpc' = IF First = MaxRead THEN "receive" ELSE "close"
    BY <1>3, ReceiveCopies
  <2>2. /\ First \in 1 .. MaxRead /\ First <= Unread
        /\ First < MaxRead => Unread = First /\ sent = Len(src)
    <3>1. cpc = "receive" /\ pipe # << >>
      BY <1>3 DEF CliReceive, Read
    <3>2. QED
      BY <3>1, MessageFound
  <2>3. Len(dst') <= sent
    BY <1>1, <2>1, <2>2, Numbers, Sizes DEF Unread
  <2>4. cpc' = "close" => Len(dst') = Len(src)
    BY <1>1, <2>1, <2>2, Numbers, Sizes DEF Unread
  <2>5. cpc' \in {"receive", "close"} /\ UNCHANGED <<src, sent>>
    BY <1>3, <2>1 DEF CliReceive
  <2>6. QED
    BY <2>1, <2>3, <2>4, <2>5 DEF CopyOK
<1>4. CASE CliAnswer
  BY <1>1, <1>4, AnswerFound DEF CliAnswer, CopyOK, files
<1>5. CASE \/ SrvMkfifo \/ SrvOpen \/ SrvRequest \/ SrvOpenClient \/ SrvReady
           \/ SrvSource \/ SrvEOF
           \/ CliStart \/ CliOpenServer \/ CliRequest \/ CliOpen \/ CliCreate \/ CliClose
  BY <1>1, <1>5
     DEF CopyOK, ServerGoes, ClientGoes, files, SrvMkfifo, SrvOpen, SrvRequest,
         SrvOpenClient, SrvReady, SrvSource, SrvEOF, CliStart, CliOpenServer,
         CliRequest, CliOpen, CliCreate, CliClose
<1>6. QED
  BY <1>2, <1>3, <1>4, <1>5 DEF Next, Server, Client

(* Steps that leave the FIFO and the files alone, and the server not ended  *)
(* or ended as before, leave the messages alone too.                        *)
LEMMA MessagesStay ==
  ASSUME UNCHANGED <<src, dst, sent, pipe>>, spc = "done" => spc' = "done",
         NEW start, Messages(start)
  PROVE  Messages(start)'
<1>1. Unread' = Unread /\ \A m : LenOf(m)' = LenOf(m)
  BY DEF Unread, LenOf
<1>2. \A at, len, from : MessageAt(at, len, from) => MessageAt(at, len, from)'
  BY DEF MessageAt
<1>3. PICK k \in 0 .. Len(pipe) :
        /\ Len(pipe) = start + Unread + k
        /\ Unread <= k * MaxRead /\ k * MaxRead < Unread + MaxRead
        /\ spc # "done" => Unread = k * MaxRead
        /\ \A m \in 0 .. (k - 1) :
             MessageAt(start + m * MsgSz, LenOf(m), Len(dst) + m * MaxRead)
  BY DEF Messages
<1>4. ASSUME NEW m \in 0 .. (k - 1)
      PROVE  MessageAt(start + m * MsgSz, LenOf(m), Len(dst) + m * MaxRead)'
  <2>1. MessageAt(start + m * MsgSz, LenOf(m), Len(dst) + m * MaxRead)
    BY <1>3
  <2>2. QED
    BY <1>1, <2>1 DEF MessageAt
<1>5. spc' # "done" => spc # "done"
  OBVIOUS
<1>6. QED
  BY <1>1, <1>3, <1>4, <1>5 DEF Messages

LEMMA PipeStep ==
  ASSUME IInv, Next
  PROVE  PipeOK'
<1>1. TypeOK /\ Meeting /\ CopyOK /\ PipeOK
  BY DEF IInv
<1>2. CASE SrvReady
  <2>1. /\ spc = "ready" /\ spc' = "source" /\ cpc' = cpc
        /\ pipe = << >> /\ sent = 0 /\ dst = << >> /\ cpc \in {"open", "answer"}
        /\ pipe' = << >> \o ReadyMsg /\ UNCHANGED <<src, dst, sent>>
    BY <1>1, <1>2 DEF SrvReady, ServerGoes, Meeting, files
  <2>2. /\ Len(pipe') = ReadySz
        /\ \A n \in 1 .. ReadySz : pipe'[n] = Ready
    <3>1. ReadyMsg \in [1 .. ReadySz -> Element]
      BY DEF ReadyMsg, Element
    <3>2. ReadyMsg \in Seq(Element) /\ Len(ReadyMsg) = ReadySz
      BY <3>1, Sizes
    <3>3. << >> \o ReadyMsg = ReadyMsg
      BY <3>2, ConcatEmptySeq
    <3>4. QED
      BY <2>1, <3>2, <3>3 DEF ReadyMsg
  <2>3. Unread' = 0
    <3>1. sent' = 0 /\ dst' = << >>
      BY <2>1
    <3>2. Len(dst') = 0
      BY <3>1
    <3>3. Unread' = sent' - Len(dst')
      BY DEF Unread
    <3>4. QED
      BY <3>1, <3>2, <3>3
  <2>4. Messages(ReadySz)'
    <3>1. 0 \in 0 .. Len(pipe') /\ Len(pipe') = ReadySz + Unread' + 0
      BY <2>2, <2>3, Sizes
    <3>2. /\ 0 * MaxRead = 0 /\ Unread' <= 0 * MaxRead
          /\ 0 * MaxRead < Unread' + MaxRead /\ Unread' = 0 * MaxRead
      BY <2>3, Sizes
    <3>3. 0 .. (0 - 1) = {}
      OBVIOUS
    <3>4. QED
      BY <3>1, <3>2, <3>3 DEF Messages
  <2>5. QED
    BY <2>1, <2>2, <2>4 DEF PipeOK
<1>3. CASE SrvSend
  <2>1. spc = "send" /\ UNCHANGED cpc
    BY <1>3 DEF SrvSend, ServerGoes
  <2>2. cpc \in {"open", "answer"} =>
          Messages(ReadySz)' /\ \A n \in 1 .. ReadySz : pipe'[n] = Ready
    <3> SUFFICES ASSUME cpc \in {"open", "answer"}
                 PROVE  Messages(ReadySz)' /\ \A n \in 1 .. ReadySz : pipe'[n] = Ready
      OBVIOUS
    <3>1. Messages(ReadySz) /\ \A n \in 1 .. ReadySz : pipe[n] = Ready
      BY <1>1, <2>1 DEF PipeOK
    <3>2. Messages(ReadySz)'
      BY <1>3, <3>1, SendKeeps, Sizes
    <3>3. ReadySz <= Len(pipe)
      <4>1. PICK k \in 0 .. Len(pipe) : Len(pipe) = ReadySz + Unread + k
        BY <3>1 DEF Messages
      <4>2. Unread \in Nat
        BY <1>1, Numbers DEF CopyOK, Unread
      <4>3. QED
        BY <1>1, <4>1, <4>2, Numbers, Sizes
    <3>4. \A n \in 1 .. Len(pipe) : pipe'[n] = pipe[n]
      <4>1. pipe \in Seq(Element) /\ Message \in Seq(Element)
        BY <1>1, MessageIs DEF TypeOK
      <4>2. pipe' = pipe \o Message
        BY <1>3 DEF SrvSend
      <4>3. QED
        BY <4>1, <4>2
    <3>5. QED
      BY <1>1, <3>1, <3>2, <3>3, <3>4, Sizes, Numbers
  <2>3. cpc \in {"create", "receive"} => Messages(0)'
    BY <1>1, <1>3, <2>1, SendKeeps DEF PipeOK
  <2>4. QED
    BY <2>1, <2>2, <2>3 DEF PipeOK
<1>4. CASE SrvKilled
  BY <1>4 DEF SrvKilled, ServerGoes, PipeOK
<1>5. CASE CliAnswer
  <2>1. cpc' = "create" /\ Messages(0)'
    BY <1>5, AnswerFound, AnswerKeeps
  <2>2. QED
    BY <2>1 DEF PipeOK
<1>6. CASE CliReceive
  <2>1. cpc' = "receive" => Messages(0)'
    BY <1>6, ReceiveKeeps
  <2>2. cpc' \in {"receive", "close"}
    BY <1>6, ReceiveCopies
  <2>3. QED
    BY <2>1, <2>2 DEF PipeOK
<1>7. CASE SrvMkfifo \/ SrvOpen \/ SrvRequest \/ SrvOpenClient
  BY <1>7
     DEF SrvMkfifo, SrvOpen, SrvRequest, SrvOpenClient, ServerGoes, PipeOK
<1>8. CASE \/ SrvSource \/ SrvEOF
           \/ CliStart \/ CliOpenServer \/ CliRequest \/ CliOpen \/ CliCreate \/ CliClose
  <2>1. /\ UNCHANGED <<src, dst, sent, pipe>>
        /\ spc = "done" => spc' = "done"
    BY <1>8
       DEF ServerGoes, ClientGoes, files, SrvSource, SrvEOF, CliStart,
           CliOpenServer, CliRequest, CliOpen, CliCreate, CliClose
  <2>2. \A start : Messages(start) => Messages(start)'
    BY <2>1, MessagesStay
  <2>3. spc' \in {"source", "failed", "send", "done"} =>
          /\ spc \in {"source", "failed", "send", "done"}
          /\ cpc' \in {"open", "answer"} => cpc \in {"open", "answer"}
          /\ cpc' \in {"create", "receive"} => cpc \in {"create", "receive"}
    BY <1>1, <1>8
       DEF Meeting, ServerGoes, ClientGoes, SrvSource, SrvEOF, CliStart,
           CliOpenServer, CliRequest, CliOpen, CliCreate, CliClose
  <2>4. QED
    BY <1>1, <2>1, <2>2, <2>3 DEF PipeOK
<1>9. QED
  BY <1>2, <1>3, <1>4, <1>5, <1>6, <1>7, <1>8 DEF Next, Server, Client

LEMMA NextIInv == IInv /\ [Next]_vars => IInv'
<1> SUFFICES ASSUME IInv, [Next]_vars PROVE IInv'
  OBVIOUS
<1>1. CASE Next
  BY <1>1, TypeStep, MeetingStep, CopyStep, PipeStep DEF IInv
<1>2. CASE UNCHANGED vars
  <2>1. TypeOK' /\ Meeting' /\ CopyOK'
    BY <1>2 DEF vars, IInv, TypeOK, Meeting, CopyOK
  <2>2. \A start : Messages(start) => Messages(start)'
    BY <1>2, MessagesStay DEF vars
  <2>3. PipeOK'
    BY <1>2, <2>2 DEF vars, IInv, PipeOK
  <2>4. QED
    BY <2>1, <2>3 DEF IInv
<1>3. QED
  BY <1>1, <1>2

(* In every reachable state the FIFO holds whole messages, whose data carry *)
(* on where the copy ends, and only the last may be short.                  *)
THEOREM InvariantHolds == Spec => []IInv
<1>1. QED
  BY InitIInv, NextIInv, PTL DEF Spec

(* The variables keep their types: no FIFO holds more than Cap bytes.        *)
THEOREM TypesHold == Spec => []TypeOK
<1>1. IInv => TypeOK
  BY DEF IInv
<1>2. QED
  BY <1>1, InvariantHolds, PTL

(***************************************************************************)
(* What follows from it.                                                   *)
(***************************************************************************)
LEMMA Division ==
  ASSUME NEW i \in Int, NEW d \in Int, d > 0, i >= 0
  PROVE  /\ i \div d \in Int /\ i \div d >= 0
         /\ i % d \in 0 .. (d - 1)
         /\ i = (i \div d) * d + (i % d)
  OBVIOUS

LEMMA DivMod ==
  ASSUME NEW i \in Nat
  PROVE  /\ i \div MsgSz \in Nat /\ i % MsgSz \in 0 .. MaxRead
         /\ i = ((i \div MsgSz) * MsgSz) + (i % MsgSz)
<1>1. MsgSz \in Int /\ MsgSz > 0 /\ MsgSz - 1 = MaxRead /\ i \in Int /\ i >= 0
  BY Sizes
<1>2. QED
  BY <1>1, Division

LEMMA InStepFollows ==
  ASSUME IInv, cpc = "receive", spc # "killed", NEW n \in 1 .. Len(pipe)
  PROVE  LET before == (n - 1) \div MsgSz
             left == Len(pipe) - before * MsgSz - 1
         IN IF (n - 1) % MsgSz = 0
            THEN pipe[n] = IF left < MaxRead THEN left ELSE MaxRead
            ELSE pipe[n] = src[Len(dst) + n - before - 1]
<1> DEFINE before == (n - 1) \div MsgSz
<1> DEFINE rest == (n - 1) % MsgSz
<1> DEFINE left == Len(pipe) - before * MsgSz - 1
<1>1. TypeOK /\ CopyOK /\ Meeting
  BY DEF IInv
<1>2. Unread \in Nat /\ Len(pipe) \in Nat /\ Len(dst) \in Nat /\ n \in Nat /\ n - 1 \in Nat
  BY <1>1, Numbers DEF CopyOK, Unread
<1>3. Messages(0)
  BY <1>1 DEF IInv, PipeOK, Meeting, Early, TypeOK, ServerPC
<1>4. PICK k \in 0 .. Len(pipe) :
        /\ Len(pipe) = 0 + Unread + k
        /\ Unread <= k * MaxRead /\ k * MaxRead < Unread + MaxRead
        /\ \A m \in 0 .. (k - 1) :
             MessageAt(0 + m * MsgSz, LenOf(m), Len(dst) + m * MaxRead)
  BY <1>3 DEF Messages
<1>5. before \in Nat /\ rest \in 0 .. MaxRead /\ n - 1 = before * MsgSz + rest
  BY <1>2, DivMod
<1> HIDE DEF before, rest
<1>6. /\ before * MsgSz = before * MaxRead + before /\ before * MaxRead \in Nat
      /\ k \in Nat /\ k * MaxRead \in Nat
  <2>1. before \in Int /\ k \in Int /\ before >= 0 /\ k >= 0
    BY <1>2, <1>4, <1>5
  <2>2. /\ before * MsgSz = before * MaxRead + before
        /\ before * MaxRead \in Int /\ before * MaxRead >= 0
        /\ k * MaxRead \in Int /\ k * MaxRead >= 0
    BY <2>1, Multiples
  <2>3. QED
    BY <2>1, <2>2
<1>7. before < k
  <2>1. k <= before => k * MaxRead <= before * MaxRead
    <3>1. k < before => k * MaxRead + MaxRead <= before * MaxRead
      BY <1>5, <1>6, Multiples
    <3>2. QED
      BY <1>5, <1>6, <3>1, Sizes
  <2>2. n - 1 = before * MaxRead + before + rest /\ n <= Unread + k
    BY <1>2, <1>4, <1>5, <1>6
  <2>3. k <= before => FALSE
    BY <1>2, <1>4, <1>5, <1>6, <2>1, <2>2, Sizes
  <2>4. QED
    BY <1>5, <1>6, <2>3
<1>8. before < k - 1 => before * MaxRead + MaxRead < Unread
  <2>1. before < k - 1 => before * MaxRead + MaxRead <= (k - 1) * MaxRead
    BY <1>5, <1>6, Multiples
  <2>2. (k - 1) * MaxRead = k * MaxRead - MaxRead
    BY <1>6, Multiples
  <2>3. QED
    BY <1>2, <1>4, <1>6, <2>1, <2>2, Sizes
<1>9. /\ left \in Int
      /\ left = (Unread - before * MaxRead) + (k - 1 - before)
  BY <1>2, <1>4, <1>5, <1>6
<1>10. MessageAt(0 + before * MsgSz, LenOf(before), Len(dst) + before * MaxRead)
  <2>1. before \in 0 .. (k - 1)
    BY <1>5, <1>6, <1>7
  <2>2. QED
    BY <1>4, <2>1
<1>11. 0 + before * MsgSz + 1 + rest = n /\ 0 + before * MsgSz + 1 = n - rest
  <2>1. \A p \in Nat : n - 1 = p + rest => 0 + p + 1 + rest = n /\ 0 + p + 1 = n - rest
    BY <1>2, <1>5
  <2>2. before * MsgSz \in Nat
    BY <1>5, <1>6
  <2>3. QED
    BY <1>5, <2>1, <2>2
<1>12. LenOf(before) = IF left < MaxRead THEN left ELSE MaxRead
  <2>1. CASE before = k - 1
    BY <1>2, <1>6, <1>9, <2>1 DEF LenOf
  <2>2. CASE before < k - 1
    BY <1>2, <1>5, <1>6, <1>8, <1>9, <2>2, Sizes DEF LenOf
  <2>3. QED
    BY <1>5, <1>6, <1>7, <2>1, <2>2
<1>13. CASE rest = 0
  <2>1. pipe[n] = LenOf(before)
    BY <1>2, <1>10, <1>11, <1>13 DEF MessageAt
  <2>2. QED
    BY <1>12, <1>13, <2>1 DEF before, rest
<1>14. CASE rest # 0
  <2>1. rest \in 1 .. LenOf(before)
    <3>1. n - 1 = before * MaxRead + before + rest /\ n <= Unread + k
      BY <1>2, <1>4, <1>5, <1>6
    <3>2. CASE before = k - 1
      BY <1>2, <1>5, <1>6, <1>14, <3>1, <3>2, Sizes DEF LenOf
    <3>3. CASE before < k - 1
      BY <1>2, <1>5, <1>6, <1>8, <1>14, <3>3, Sizes DEF LenOf
    <3>4. QED
      BY <1>5, <1>6, <1>7, <3>2, <3>3
  <2>2. pipe[0 + before * MsgSz + 1 + rest] = src[Len(dst) + before * MaxRead + rest]
    BY <1>10, <2>1 DEF MessageAt
  <2>3. Len(dst) + before * MaxRead + rest = Len(dst) + n - before - 1
    BY <1>2, <1>5, <1>6
  <2>4. pipe[n] = src[Len(dst) + n - before - 1]
    BY <1>11, <2>2, <2>3
  <2>5. QED
    BY <1>14, <2>4 DEF before, rest
<1>15. QED
  BY <1>13, <1>14

(* The client stays in step with the messages of the server, for messages   *)
(* and FIFOs of every size: read() in its loop always takes a whole message *)
(* and its length byte is one.                                              *)
THEOREM StaysInStep == Spec => []InStep
<1>1. IInv => InStep
  <2> SUFFICES ASSUME IInv PROVE InStep
    OBVIOUS
  <2>1. TypeOK
    BY DEF IInv
  <2>2. QED
    BY <2>1, InStepFollows DEF InStep
<1>2. QED
  BY <1>1, InvariantHolds, PTL

LEMMA StepRefines ==
  ASSUME IInv, [Next]_vars
  PROVE  [Transfer!Next]_(Transfer!vars)
<1>1. TypeOK /\ CopyOK
  BY DEF IInv
<1>2. CASE CliReceive
  <2>1. cpc = "receive" /\ pipe # << >> /\ UNCHANGED src
    BY <1>2 DEF CliReceive, Read
  <2>2. /\ dst' \in Seq(Byte) /\ Len(dst') = Len(dst) + First
        /\ \A n \in 1 .. Len(dst') : dst'[n] = src[n]
        /\ cpc' # "done"
    BY <1>2, ReceiveCopies
  <2>3. First \in 1 .. MaxRead /\ First <= Unread
    BY <2>1, MessageFound
  <2>4. Len(dst') \in (Len(dst) + 1) .. Len(src)
    BY <1>1, <2>2, <2>3, Numbers, Sizes DEF Unread
  <2>5. dst' = SubSeq(src, 1, Len(dst'))
    <3>1. src \in Seq(Byte) /\ Len(dst') \in 0 .. Len(src)
      BY <1>1, <2>4, Numbers
    <3>2. /\ SubSeq(src, 1, Len(dst')) \in Seq(Byte)
          /\ Len(SubSeq(src, 1, Len(dst'))) = Len(dst')
          /\ \A n \in 1 .. Len(dst') : SubSeq(src, 1, Len(dst'))[n] = src[n]
      BY <3>1
    <3>3. QED
      BY <2>2, <3>2, SeqEqual
  <2>6. Transfer!Deliver
    BY <2>1, <2>2, <2>4, <2>5 DEF Transfer!Deliver
  <2>7. QED
    BY <2>6 DEF Transfer!Next
<1>3. CASE CliClose
  <2>1. cpc = "close" /\ cpc' = "done" /\ UNCHANGED <<src, dst>>
    BY <1>3 DEF CliClose, ClientGoes, files
  <2>2. Len(src) - Len(dst) <= 0
    BY <1>1, <2>1, Numbers DEF CopyOK
  <2>3. Transfer!Close
    BY <2>1, <2>2 DEF Transfer!Close
  <2>4. QED
    BY <2>3 DEF Transfer!Next
<1>4. CASE Next /\ ~ CliReceive /\ ~ CliClose
  <2>1. UNCHANGED <<src, dst>> /\ (cpc' = "done") = (cpc = "done")
    BY <1>4
       DEF Next, Server, Client, ServerGoes, ClientGoes, files, SrvMkfifo,
           SrvOpen, SrvRequest, SrvOpenClient, SrvReady, SrvSource, SrvSend,
           SrvEOF, SrvKilled, CliStart, CliOpenServer, CliRequest, CliOpen,
           CliAnswer, CliCreate
  <2>2. QED
    BY <2>1 DEF Transfer!vars
<1>5. CASE UNCHANGED vars
  BY <1>5 DEF vars, Transfer!vars
<1>6. QED
  BY <1>2, <1>3, <1>4, <1>5

(* The transfer over the FIFO implements FileTransfer without loss, for     *)
(* messages and FIFOs of every size and every source.                       *)
THEOREM Refinement == Spec => TransferSpec
<1>1. Init => Transfer!Init
  BY DEF Init, Transfer!Init
<1>2. IInv /\ [Next]_vars => [Transfer!Next]_(Transfer!vars)
  BY StepRefines
<1>3. QED
  BY <1>1, <1>2, InvariantHolds, PTL DEF Spec, Transfer!Spec, TransferSpec
=============================================================================
