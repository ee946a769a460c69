-------------------------- MODULE MapsServiceProofs --------------------------
(***************************************************************************)
(* Proofs about MapsService, for any addresses, any kinds of mappings and  *)
(* any number of changes.                                                  *)
(***************************************************************************)
EXTENDS MapsService, WellFoundedInduction, TLAPS

(* A set of numbers that is not empty has a least one.                      *)
LEMMA Least ==
  ASSUME NEW T, T \subseteq Nat, T # {}
  PROVE  \E x \in T : \A y \in T : x <= y
<1>1. PICK x \in T : \A y \in T : ~ (<<y, x>> \in OpToRel(<, Nat))
  BY NatLessThanWellFounded, WFMin, Zenon
<1>2. \A y \in T : <<y, x>> \in OpToRel(<, Nat) <=> y < x
  BY Zenon DEF OpToRel
<1>3. \A y \in T : ~ (y < x)
  BY <1>1, <1>2, Zenon
<1>4. QED
  BY <1>3

(* There is one mapping at an address.                                      *)
LEMMA HeldFacts ==
  ASSUME mapped \in [Addrs -> Kinds \union {Nothing}]
  PROVE  /\ Held \subseteq Lines
         /\ \A l, m \in Held : l.address = m.address => l = m
         /\ \A l \in Lines : l.address \in Nat
<1>1. \A l \in Lines : l.address \in Nat
  BY AddrsAssumption DEF Lines
<1>2. \A l \in Held : \E a \in Addrs :
        l = [address |-> a, kind |-> mapped[a]] /\ mapped[a] \in Kinds
  BY DEF Held
<1>3. Held \subseteq Lines
  BY <1>2 DEF Lines
<1>4. \A l, m \in Held : l.address = m.address => l = m
  BY <1>2
<1>5. QED
  BY <1>1, <1>3, <1>4

(* getline returns the lowest of the mappings above those already read.     *)
LEMMA NextLineIsLowest ==
  ASSUME mapped \in [Addrs -> Kinds \union {Nothing}],
         NEW s, Above(s) # {}
  PROVE  /\ NextLine(s) \in Above(s)
         /\ \A m \in Above(s) : NextLine(s).address <= m.address
<1> DEFINE T == { l.address : l \in Above(s) }
<1>1. Above(s) \subseteq Held /\ Held \subseteq Lines
  BY HeldFacts DEF Above
<1>2. T \subseteq Nat /\ T # {}
  BY <1>1, HeldFacts
<1>3. PICK x \in T : \A y \in T : x <= y
  BY <1>2, Least
<1>4. PICK l \in Above(s) : l.address = x
  OBVIOUS
<1>5. \A m \in Above(s) : l.address <= m.address
  BY <1>3, <1>4
<1>6. QED
  BY <1>5 DEF NextLine

(* A line above those read goes to the end of an ascending sample.          *)
LEMMA AppendAscends ==
  ASSUME mapped \in [Addrs -> Kinds \union {Nothing}],
         NEW s \in Seq(Lines), Ascends(s), NEW l \in Above(s)
  PROVE  /\ Append(s, l) \in Seq(Lines)
         /\ Ascends(Append(s, l))
         /\ ContentOf(Append(s, l)) = ContentOf(s) \union {l}
<1>1. l \in Lines /\ l \in Held /\ \A n \in DOMAIN s : l.address > s[n].address
  BY HeldFacts DEF Above
<1>2. /\ Len(s) \in Nat /\ DOMAIN s = 1 .. Len(s)
      /\ DOMAIN Append(s, l) = 1 .. (Len(s) + 1)
      /\ \A n \in 1 .. Len(s) : Append(s, l)[n] = s[n]
      /\ Append(s, l)[Len(s) + 1] = l
      /\ Append(s, l) \in Seq(Lines)
  BY <1>1
<1> DEFINE t == Append(s, l)
<1> HIDE DEF t
<1>3. /\ DOMAIN t = 1 .. (Len(s) + 1) /\ t[Len(s) + 1] = l
      /\ \A n \in 1 .. Len(s) : t[n] = s[n]
  BY <1>2 DEF t
<1>4. Ascends(t)
  <2> SUFFICES ASSUME NEW m \in DOMAIN t, NEW n \in DOMAIN t, m < n
               PROVE  t[m].address < t[n].address
    BY DEF Ascends
  <2>1. m \in 1 .. Len(s)
    BY <1>2, <1>3
  <2>2. CASE n = Len(s) + 1
    BY <1>1, <1>2, <1>3, <2>1, <2>2, HeldFacts
  <2>3. CASE n # Len(s) + 1
    <3>1. n \in 1 .. Len(s)
      BY <1>2, <1>3, <2>3
    <3>2. QED
      BY <1>2, <1>3, <2>1, <3>1 DEF Ascends
  <2>4. QED
    BY <2>2, <2>3
<1>5. ContentOf(t) = ContentOf(s) \union {l}
  <2>1. \A n \in DOMAIN t : t[n] \in ContentOf(s) \union {l}
    <3> SUFFICES ASSUME NEW n \in DOMAIN t PROVE t[n] \in ContentOf(s) \union {l}
      OBVIOUS
    <3>1. n \in 1 .. Len(s) \/ n = Len(s) + 1
      BY <1>2, <1>3
    <3>2. QED
      BY <1>2, <1>3, <3>1 DEF ContentOf
  <2>2. l \in ContentOf(t)
    <3>1. Len(s) + 1 \in DOMAIN t
      BY <1>2, <1>3
    <3>2. QED
      BY <1>3, <3>1 DEF ContentOf
  <2>3. ContentOf(s) \subseteq ContentOf(t)
    <3>1. \A n \in 1 .. Len(s) : n \in DOMAIN t
      BY <1>2, <1>3
    <3>2. QED
      BY <1>2, <1>3, <3>1 DEF ContentOf
  <2>4. QED
    BY <2>1, <2>2, <2>3 DEF ContentOf
<1>6. QED
  BY <1>2, <1>4, <1>5 DEF t

(* Reading on skips nothing that is mapped.                                 *)
LEMMA NextLineCovers ==
  ASSUME mapped \in [Addrs -> Kinds \union {Nothing}],
         NEW s \in Seq(Lines), Ascends(s), Above(s) # {},
         NEW lines, lines \subseteq Held, Covers(s, lines)
  PROVE  Covers(Append(s, NextLine(s)), lines)
<1> DEFINE l == NextLine(s)
<1> DEFINE t == Append(s, l)
<1>1. l \in Above(s) /\ \A m \in Above(s) : l.address <= m.address
  BY NextLineIsLowest
<1> HIDE DEF l
<1>2. /\ t \in Seq(Lines) /\ ContentOf(t) = ContentOf(s) \union {l}
  BY <1>1, AppendAscends
<1> HIDE DEF t
<1>3. SUFFICES ASSUME NEW x \in lines, NEW n \in DOMAIN t,
                      x.address <= t[n].address
               PROVE  x \in ContentOf(t)
  BY DEF Covers, t, l
<1>4. x \in Held /\ l \in Held /\ x.address \in Nat /\ l.address \in Nat
  BY <1>1, HeldFacts DEF Above
<1>5. CASE x \in Above(s)
  <2>1. l.address <= x.address
    BY <1>1, <1>5
  <2>2. t[n] \in ContentOf(s) \union {l}
    BY <1>2 DEF ContentOf
  <2>3. CASE t[n] = l
    <3>1. x = l
      BY <1>3, <1>4, <2>1, <2>3, HeldFacts
    <3>2. QED
      BY <1>2, <3>1
  <2>4. CASE t[n] \in ContentOf(s)
    <3>1. PICK k \in DOMAIN s : t[n] = s[k]
      BY <2>4 DEF ContentOf
    <3>2. x.address > s[k].address /\ s[k].address \in Nat
      BY <1>5, <3>1, HeldFacts DEF Above
    <3>3. QED
      BY <1>3, <1>4, <3>1, <3>2
  <2>5. QED
    BY <2>2, <2>3, <2>4
<1>6. CASE x \notin Above(s)
  <2>1. PICK k \in DOMAIN s : ~ (x.address > s[k].address)
    BY <1>4, <1>6 DEF Above
  <2>2. s[k].address \in Nat
    BY HeldFacts
  <2>3. x \in ContentOf(s)
    BY <1>4, <2>1, <2>2 DEF Covers
  <2>4. QED
    BY <1>2, <2>3
<1>7. QED
  BY <1>5, <1>6

(* Reading on in unchanged mappings stays an initial part of them.          *)
LEMMA NextLineInitial ==
  ASSUME mapped \in [Addrs -> Kinds \union {Nothing}],
         NEW s \in Seq(Lines), Ascends(s), Above(s) # {}, InitialPart(s)
  PROVE  /\ ContentOf(Append(s, NextLine(s))) \subseteq Held
         /\ Covers(Append(s, NextLine(s)), Held)
<1>1. NextLine(s) \in Above(s) /\ NextLine(s) \in Held
  BY NextLineIsLowest DEF Above
<1>2. ContentOf(Append(s, NextLine(s))) = ContentOf(s) \union {NextLine(s)}
  BY <1>1, AppendAscends
<1>3. Covers(Append(s, NextLine(s)), Held)
  BY NextLineCovers DEF InitialPart
<1>4. QED
  BY <1>1, <1>2, <1>3 DEF InitialPart

LEMMA NothingRead ==
  /\ << >> \in Seq(Lines) /\ Len(<< >>) = 0
  /\ Ascends(<< >>) /\ ContentOf(<< >>) = {}
  /\ \A lines : Covers(<< >>, lines)
BY DEF Ascends, ContentOf, Covers

LEMMA InitIInv == Init => IInv
<1> SUFFICES ASSUME Init PROVE IInv
  OBVIOUS
<1>1. TypeOK
  <2>1. PML_Cur \in Seq(Lines) /\ PML_Next \in Seq(Lines)
    BY NothingRead, Zenon DEF Init
  <2>2. /\ maps_file \in BOOLEAN
        /\ maps_file <=> pc \in {"parse_cur", "parse_next", "diff", "swap"}
    BY DEF Init
  <2>3. /\ mapped \in [Addrs -> Kinds \union {Nothing}]
        /\ changes \in 0 .. MaxChanges /\ quiet \in 0 .. 2
        /\ num_lns_cur \in Nat /\ num_lns_next \in Nat
    BY ChangesAssumption DEF Init
  <2>4. /\ pc = "config" /\ state = "runs"
        /\ log_fd \in BOOLEAN /\ torn \in BOOLEAN
        /\ log = {} /\ whole = {} /\ some = {}
    BY DEF Init
  <2>5. QED
    BY <2>1, <2>2, <2>3, <2>4 DEF TypeOK
<1>2. Ascends(PML_Cur) /\ Ascends(PML_Next)
  BY NothingRead DEF Init
<1>3. Counted /\ Watched /\ ReadSoFar /\ QuietSamples /\ DiffLogged
  BY DEF Init, Counted, Watched, ReadSoFar, QuietSamples, DiffLogged
<1>4. QED
  BY <1>1, <1>2, <1>3 DEF IInv

(***************************************************************************)
(* Each action keeps the invariant.  The process changes its mappings: a   *)
(* sample is no longer known to be part of them, and fewer lines have been *)
(* there all the time.                                                     *)
(***************************************************************************)
LEMMA ChangeKeeps ==
  ASSUME IInv, Change
  PROVE  IInv'
<1>1. /\ mapped' \in [Addrs -> Kinds \union {Nothing}]
      /\ changes' \in 0 .. MaxChanges /\ quiet' = 0 /\ whole' \subseteq whole
      /\ whole' \subseteq Held'
      /\ some' = IF maps_file THEN some \union Held' ELSE some
      /\ UNCHANGED <<state, pc, log_fd, maps_file, samples, log, torn>>
  BY ChangesAssumption DEF Change, IInv, TypeOK
<1>2. Held' \subseteq Lines
  BY <1>1 DEF Held, Lines
<1>3. TypeOK'
  BY <1>1, <1>2 DEF IInv, TypeOK, samples
<1>4. Ascends(PML_Cur)' /\ Ascends(PML_Next)' /\ Counted'
  BY <1>1 DEF IInv, samples, Ascends, Counted
<1>5. Watched'
  BY <1>1 DEF IInv, Watched
<1>6. ReadSoFar'
  <2>1. Covers(PML_Next, whole) => Covers(PML_Next', whole')
    BY <1>1 DEF Covers, samples
  <2>2. PML_Next' = PML_Next /\ pc' = pc /\ torn' = torn /\ some \subseteq some'
    BY <1>1 DEF samples
  <2>3. QED
    BY <1>1, <2>1, <2>2 DEF IInv, ReadSoFar
<1>7. QuietSamples'
  BY <1>1 DEF QuietSamples
<1>8. DiffLogged'
  BY <1>1 DEF IInv, DiffLogged, samples, Logged, Compared
<1>9. QED
  BY <1>3, <1>4, <1>5, <1>6, <1>7, <1>8 DEF IInv

LEMMA ExitKeeps ==
  ASSUME IInv, Exit
  PROVE  IInv'
<1>1. /\ UNCHANGED <<mapped, changes, pc, log_fd, maps_file, samples, log, whole,
                     some, quiet>>
      /\ state' \in {"zombie", "gone"} /\ torn' = maps_file /\ torn' \in BOOLEAN
  BY DEF Exit, IInv, TypeOK
<1>2. Held' = Held
  BY <1>1 DEF Held
<1>3. TypeOK'
  BY <1>1 DEF IInv, TypeOK, samples
<1>4. Ascends(PML_Cur)' /\ Ascends(PML_Next)' /\ Counted'
  BY <1>1 DEF IInv, samples, Ascends, Counted
<1>5. Watched'
  BY <1>1, <1>2 DEF IInv, Watched
<1>6. ReadSoFar'
  <2>1. PML_Next' = PML_Next /\ pc' = pc /\ whole' = whole /\ some' = some
    BY <1>1 DEF samples
  <2>2. pc \in {"parse_next", "diff", "swap"} => torn'
    BY <1>1 DEF IInv, TypeOK
  <2>3. QED
    BY <2>1, <2>2 DEF IInv, ReadSoFar
<1>7. QuietSamples'
  BY <1>1, <1>2 DEF IInv, QuietSamples, InitialPart, samples
<1>8. DiffLogged'
  BY <1>1 DEF IInv, DiffLogged, samples, Logged, Compared
<1>9. QED
  BY <1>3, <1>4, <1>5, <1>6, <1>7, <1>8 DEF IInv

LEMMA ConfigureKeeps ==
  ASSUME IInv, Configure
  PROVE  IInv'
<1>1. /\ UNCHANGED <<process, maps_file, samples, log, seen>>
      /\ pc = "config" /\ pc' \in {"open_cur", "exit"} /\ log_fd' \in BOOLEAN
  BY DEF Configure, start_log
<1>2. Held' = Held
  BY <1>1 DEF Held, process
<1>3. TypeOK'
  BY <1>1 DEF IInv, TypeOK, process, samples, seen
<1>4. Ascends(PML_Cur)' /\ Ascends(PML_Next)' /\ Counted'
  BY <1>1 DEF IInv, samples, Ascends, Counted
<1>5. Watched'
  BY <1>1, <1>2 DEF IInv, Watched, process, seen
<1>6. ReadSoFar' /\ DiffLogged'
  BY <1>1 DEF ReadSoFar, DiffLogged
<1>7. QuietSamples'
  BY <1>1, <1>2 DEF IInv, QuietSamples, InitialPart, samples, seen
<1>8. QED
  BY <1>3, <1>4, <1>5, <1>6, <1>7 DEF IInv

(* Each read starts with an empty sample and watches the lines it can meet. *)
LEMMA OpenKeeps ==
  ASSUME IInv,
         NEW from, NEW to,
         <<from, to>> \in {<<"open_cur", "parse_cur">>, <<"open_next", "parse_next">>},
         OpenMapsFile(from, to)
  PROVE  IInv'
<1>1. /\ UNCHANGED <<process, log_fd, samples, log>>
      /\ pc = from /\ from \in {"open_cur", "open_next"}
      /\ \/ pc' = "exit" /\ UNCHANGED <<maps_file, whole, some, torn, quiet>>
         \/ /\ pc' = to /\ maps_file' = TRUE /\ whole' = Held /\ some' = Held
            /\ torn' \in BOOLEAN /\ (torn' <=> state # "runs")
            /\ quiet' = IF quiet < 2 THEN quiet + 1 ELSE 2
  BY DEF OpenMapsFile, WithoutFile
<1>2. Held' = Held /\ Held \subseteq Lines
  BY <1>1, HeldFacts DEF Held, process, IInv, TypeOK
<1>3. TypeOK'
  <2>1. quiet \in 0 .. 2 /\ torn \in BOOLEAN
    BY DEF IInv, TypeOK
  <2>2. quiet' \in 0 .. 2
    BY <1>1, <2>1
  <2>3. torn' \in BOOLEAN
    BY <1>1, <2>1
  <2>4. whole' \subseteq Lines /\ some' \subseteq Lines
    BY <1>1, <1>2 DEF IInv, TypeOK
  <2>5. ~ maps_file
    BY <1>1 DEF IInv, TypeOK
  <2>6. /\ maps_file' \in BOOLEAN
        /\ maps_file' <=> pc' \in {"parse_cur", "parse_next", "diff", "swap"}
    <3>1. CASE pc' = "exit" /\ maps_file' = maps_file
      <4>1. pc' \notin {"parse_cur", "parse_next", "diff", "swap"}
        BY <3>1
      <4>2. maps_file' \in BOOLEAN /\ ~ maps_file'
        BY <2>5, <3>1, Zenon DEF IInv, TypeOK
      <4>3. QED
        BY <4>1, <4>2, Zenon
    <3>2. CASE pc' = to /\ maps_file' = TRUE
      <4>1. to \in {"parse_cur", "parse_next"}
        OBVIOUS
      <4>2. pc' \in {"parse_cur", "parse_next", "diff", "swap"}
        BY <3>2, <4>1
      <4>3. QED
        BY <3>2, <4>2, Zenon
    <3>3. QED
      BY <1>1, <3>1, <3>2
  <2>7. pc' \in {"exit", "parse_cur", "parse_next"}
    BY <1>1
  <2>8. QED
    BY <1>1, <2>2, <2>3, <2>4, <2>6, <2>7 DEF IInv, TypeOK, process, samples
<1>4. Ascends(PML_Cur)' /\ Ascends(PML_Next)'
  BY <1>1 DEF IInv, samples, Ascends
<1>5. Counted'
  BY <1>1 DEF IInv, Counted, samples
<1>6. Watched'
  BY <1>1, <1>2 DEF IInv, TypeOK, Watched, process
<1>7. PML_Next = << >> /\ PML_Next' = << >>
  BY <1>1 DEF IInv, Counted, samples
<1>8. ReadSoFar'
  BY <1>1, <1>7, NothingRead DEF ReadSoFar
<1>9. QuietSamples'
  <2>1. InitialPart(PML_Next)'
    BY <1>7, NothingRead DEF InitialPart
  <2>2. ASSUME quiet' = 2 \/ (quiet' = 1 /\ pc' \in {"parse_cur", "open_next"})
        PROVE  InitialPart(PML_Cur)
    <3>1. CASE pc = "open_cur"
      BY <3>1, NothingRead DEF IInv, Counted, InitialPart
    <3>2. CASE pc = "open_next"
      <4>1. quiet >= 1
        BY <1>1, <2>2, <3>2 DEF IInv, TypeOK
      <4>2. QED
        BY <3>2, <4>1 DEF IInv, TypeOK, QuietSamples
    <3>3. QED
      BY <1>1, <3>1, <3>2
  <2>3. InitialPart(PML_Cur) => InitialPart(PML_Cur)'
    BY <1>1, <1>2 DEF InitialPart, samples
  <2>4. QED
    BY <2>1, <2>2, <2>3 DEF QuietSamples
<1>10. DiffLogged'
  BY <1>1 DEF DiffLogged
<1>11. QED
  BY <1>3, <1>4, <1>5, <1>6, <1>8, <1>9, <1>10 DEF IInv

LEMMA ParseFirstLineKeeps ==
  ASSUME IInv, ParseFirstLine
  PROVE  IInv'
<1>1. /\ UNCHANGED <<process, pc, log_fd, maps_file, num_lns_cur, PML_Next,
                     num_lns_next, log, seen>>
      /\ pc = "parse_cur" /\ Above(PML_Cur) # {}
      /\ PML_Cur' = Append(PML_Cur, NextLine(PML_Cur))
  BY DEF ParseFirstLine, HasLine
<1>2. /\ mapped \in [Addrs -> Kinds \union {Nothing}]
      /\ PML_Cur \in Seq(Lines) /\ Ascends(PML_Cur)
  BY DEF IInv, TypeOK
<1>3. Held' = Held
  BY <1>1 DEF Held, process
<1>4. PML_Cur' \in Seq(Lines) /\ Ascends(PML_Cur')
  BY <1>1, <1>2, NextLineIsLowest, AppendAscends
<1>5. TypeOK'
  BY <1>1, <1>4 DEF IInv, TypeOK, process, seen
<1>6. Ascends(PML_Cur)' /\ Ascends(PML_Next)'
  BY <1>1, <1>4 DEF IInv, Ascends
<1>7. Counted' /\ ReadSoFar' /\ DiffLogged'
  BY <1>1 DEF IInv, Counted, ReadSoFar, DiffLogged
<1>8. Watched'
  BY <1>1, <1>3 DEF IInv, Watched, process, seen
<1>9. QuietSamples'
  <2>1. quiet' = quiet /\ PML_Next' = PML_Next
    BY <1>1 DEF seen
  <2>2. InitialPart(PML_Next) => InitialPart(PML_Next)'
    BY <1>3, <2>1 DEF InitialPart
  <2>3. InitialPart(PML_Cur) => InitialPart(PML_Cur)'
    BY <1>1, <1>2, <1>3, NextLineInitial DEF InitialPart
  <2>4. QED
    BY <1>1, <2>1, <2>2, <2>3 DEF IInv, QuietSamples
<1>10. QED
  BY <1>5, <1>6, <1>7, <1>8, <1>9 DEF IInv

LEMMA ParseFirstEndKeeps ==
  ASSUME IInv, ParseFirstEnd
  PROVE  IInv'
<1>1. /\ UNCHANGED <<process, log_fd, PML_Cur, PML_Next, num_lns_next, log, quiet>>
      /\ pc = "parse_cur" /\ pc' = "open_next"
      /\ num_lns_cur' = Len(PML_Cur) /\ maps_file' = FALSE
      /\ whole' = {} /\ some' = {} /\ torn' = FALSE
  BY DEF ParseFirstEnd
<1>2. Held' = Held
  BY <1>1 DEF Held, process
<1>3. TypeOK'
  <2>1. num_lns_cur' \in Nat
    BY <1>1 DEF IInv, TypeOK
  <2>2. /\ maps_file' \in BOOLEAN
        /\ maps_file' <=> pc' \in {"parse_cur", "parse_next", "diff", "swap"}
    BY <1>1
  <2>3. QED
    BY <1>1, <2>1, <2>2 DEF IInv, TypeOK, process
<1>4. Ascends(PML_Cur)' /\ Ascends(PML_Next)' /\ Counted'
  BY <1>1 DEF IInv, Ascends, Counted
<1>5. Watched' /\ ReadSoFar' /\ DiffLogged'
  BY <1>1 DEF Watched, ReadSoFar, DiffLogged
<1>6. QuietSamples'
  BY <1>1, <1>2 DEF IInv, QuietSamples, InitialPart
<1>7. QED
  BY <1>3, <1>4, <1>5, <1>6 DEF IInv

LEMMA ParseLineKeeps ==
  ASSUME IInv, ParseLine
  PROVE  IInv'
<1>1. /\ UNCHANGED <<process, pc, log_fd, maps_file, PML_Cur, num_lns_cur,
                     num_lns_next, log, seen>>
      /\ pc = "parse_next" /\ Above(PML_Next) # {}
      /\ PML_Next' = Append(PML_Next, NextLine(PML_Next))
  BY DEF ParseLine, HasLine, WithLine
<1>2. /\ mapped \in [Addrs -> Kinds \union {Nothing}]
      /\ PML_Next \in Seq(Lines) /\ Ascends(PML_Next)
  BY DEF IInv, TypeOK
<1>3. Held' = Held
  BY <1>1 DEF Held, process
<1>4. NextLine(PML_Next) \in Above(PML_Next) /\ NextLine(PML_Next) \in Held
  BY <1>1, <1>2, NextLineIsLowest DEF Above
<1>5. /\ PML_Next' \in Seq(Lines) /\ Ascends(PML_Next')
      /\ ContentOf(PML_Next') = ContentOf(PML_Next) \union {NextLine(PML_Next)}
  BY <1>1, <1>2, <1>4, AppendAscends
<1>6. TypeOK'
  BY <1>1, <1>5 DEF IInv, TypeOK, process, seen
<1>7. Ascends(PML_Cur)' /\ Ascends(PML_Next)'
  BY <1>1, <1>5 DEF IInv, Ascends
<1>8. Counted' /\ DiffLogged'
  BY <1>1 DEF IInv, Counted, DiffLogged
<1>9. Watched'
  BY <1>1, <1>3 DEF IInv, Watched, process, seen
<1>10. ReadSoFar'
  <2>1. maps_file /\ Held \subseteq some /\ whole \subseteq Held
    BY <1>1 DEF IInv, TypeOK, Watched
  <2>2. ContentOf(PML_Next') \subseteq some
    BY <1>1, <1>4, <1>5, <2>1 DEF IInv, ReadSoFar
  <2>3. Covers(PML_Next', whole)
    BY <1>1, <1>2, <2>1, NextLineCovers DEF IInv, ReadSoFar
  <2>4. whole' = whole /\ some' = some
    BY <1>1 DEF seen
  <2>5. QED
    BY <1>1, <2>2, <2>3, <2>4 DEF ReadSoFar
<1>11. QuietSamples'
  <2>1. quiet' = quiet /\ PML_Cur' = PML_Cur
    BY <1>1 DEF seen
  <2>2. InitialPart(PML_Cur) => InitialPart(PML_Cur)'
    BY <1>3, <2>1 DEF InitialPart
  <2>3. InitialPart(PML_Next) => InitialPart(PML_Next)'
    BY <1>1, <1>2, <1>3, NextLineInitial DEF InitialPart
  <2>4. QED
    BY <1>1, <2>1, <2>2, <2>3 DEF IInv, QuietSamples
<1>12. QED
  BY <1>6, <1>7, <1>8, <1>9, <1>10, <1>11 DEF IInv

(* The file ends when nothing is mapped above what was read, or when the    *)
(* process has ended.                                                       *)
LEMMA ParseEndKeeps ==
  ASSUME IInv, ParseEnd
  PROVE  IInv'
<1>1. /\ UNCHANGED <<process, log_fd, maps_file, PML_Cur, num_lns_cur, PML_Next,
                     log, seen>>
      /\ pc = "parse_next" /\ pc' = "diff"
      /\ state # "runs" \/ Above(PML_Next) = {}
      /\ num_lns_next' = Len(PML_Next)
  BY DEF ParseEnd, HasLine
<1>2. Held' = Held
  BY <1>1 DEF Held, process
<1>3. TypeOK'
  <2>1. num_lns_next' \in Nat
    BY <1>1 DEF IInv, TypeOK
  <2>2. QED
    BY <1>1, <2>1 DEF IInv, TypeOK, process, seen
<1>4. Ascends(PML_Cur)' /\ Ascends(PML_Next)' /\ Counted' /\ DiffLogged'
  BY <1>1 DEF IInv, Ascends, Counted, DiffLogged
<1>5. Watched'
  BY <1>1, <1>2 DEF IInv, Watched, process, seen
<1>6. ReadSoFar'
  <2>1. maps_file /\ whole \subseteq Held /\ (state # "runs" => torn)
    BY <1>1 DEF IInv, TypeOK, Watched
  <2>2. torn \/ whole \subseteq ContentOf(PML_Next)
    <3> SUFFICES ASSUME Above(PML_Next) = {}, NEW x \in whole
                 PROVE  x \in ContentOf(PML_Next)
      BY <1>1, <2>1
    <3>1. x \in Held /\ x \in Lines
      BY <2>1, HeldFacts DEF IInv, TypeOK
    <3>2. PICK n \in DOMAIN PML_Next : ~ (x.address > PML_Next[n].address)
      BY <3>1 DEF Above
    <3>3. PML_Next[n] \in Lines
      BY DEF IInv, TypeOK
    <3>4. x.address <= PML_Next[n].address
      BY <3>1, <3>2, <3>3, HeldFacts DEF IInv, TypeOK
    <3>5. QED
      BY <1>1, <3>4 DEF IInv, ReadSoFar, Covers
  <2>3. UNCHANGED <<PML_Next, whole, some, torn>>
    BY <1>1 DEF seen
  <2>4. QED
    BY <1>1, <2>2, <2>3 DEF IInv, ReadSoFar
<1>7. QuietSamples'
  BY <1>1, <1>2 DEF IInv, QuietSamples, InitialPart, seen
<1>8. QED
  BY <1>3, <1>4, <1>5, <1>6, <1>7 DEF IInv

LEMMA DiffKeeps ==
  ASSUME IInv, PML_diff
  PROVE  IInv'
<1>1. /\ UNCHANGED <<process, log_fd, maps_file, samples, seen>>
      /\ pc = "diff" /\ pc' = "swap"
      /\ log' = Logged({ <<PML_Cur[n], PML_Next[n]>> :
                           n \in { m \in Compared :
                                    Differ(PML_Cur[m], PML_Next[m]) } })
  BY DEF PML_diff
<1>2. Held' = Held
  BY <1>1 DEF Held, process
<1>3. log' \subseteq Lines \X Lines
  <2>1. \A n \in Compared : PML_Cur[n] \in Lines /\ PML_Next[n] \in Lines
    BY <1>1 DEF IInv, TypeOK, Counted, Compared
  <2>2. QED
    BY <1>1, <2>1 DEF Logged
<1>4. TypeOK'
  BY <1>1, <1>3 DEF IInv, TypeOK, process, samples, seen
<1>5. Ascends(PML_Cur)' /\ Ascends(PML_Next)' /\ Counted'
  BY <1>1 DEF IInv, samples, Ascends, Counted
<1>6. Watched'
  BY <1>1, <1>2 DEF IInv, Watched, process, seen
<1>7. ReadSoFar'
  BY <1>1 DEF IInv, ReadSoFar, samples, seen
<1>8. QuietSamples'
  BY <1>1, <1>2 DEF IInv, QuietSamples, InitialPart, samples, seen
<1>9. DiffLogged'
  BY <1>1 DEF DiffLogged, samples, Logged, Compared
<1>10. QED
  BY <1>4, <1>5, <1>6, <1>7, <1>8, <1>9 DEF IInv

LEMMA SwapKeeps ==
  ASSUME IInv, Swap
  PROVE  IInv'
<1>1. /\ UNCHANGED <<process, log_fd, quiet>>
      /\ pc = "swap" /\ pc' = "open_next" /\ maps_file' = FALSE
      /\ PML_Cur' = PML_Next /\ PML_Next' = << >>
      /\ num_lns_cur' = num_lns_next /\ num_lns_next' = 0
      /\ log' = {} /\ whole' = {} /\ some' = {} /\ torn' = FALSE
  BY DEF Swap, PML_swap, fclose
<1>2. Held' = Held
  BY <1>1 DEF Held, process
<1>3. TypeOK'
  <2>1. PML_Cur' \in Seq(Lines) /\ PML_Next' \in Seq(Lines)
    BY <1>1, NothingRead, Zenon DEF IInv, TypeOK
  <2>2. /\ maps_file' \in BOOLEAN
        /\ maps_file' <=> pc' \in {"parse_cur", "parse_next", "diff", "swap"}
    BY <1>1
  <2>3. QED
    BY <1>1, <2>1, <2>2 DEF IInv, TypeOK, process
<1>4. Ascends(PML_Cur)' /\ Ascends(PML_Next)'
  BY <1>1, NothingRead DEF IInv, Ascends
<1>5. Counted' /\ Watched' /\ ReadSoFar' /\ DiffLogged'
  BY <1>1 DEF IInv, Counted, Watched, ReadSoFar, DiffLogged
<1>6. QuietSamples'
  <2>1. InitialPart(PML_Next)'
    BY <1>1, NothingRead DEF InitialPart
  <2>2. quiet' >= 1 => InitialPart(PML_Next)
    BY <1>1 DEF IInv, QuietSamples
  <2>3. InitialPart(PML_Next) => InitialPart(PML_Cur)'
    BY <1>1, <1>2 DEF InitialPart
  <2>4. QED
    BY <2>1, <2>2, <2>3 DEF QuietSamples
<1>7. QED
  BY <1>3, <1>4, <1>5, <1>6 DEF IInv

LEMMA NextIInv == IInv /\ [Next]_vars => IInv'
<1> SUFFICES ASSUME IInv, [Next]_vars PROVE IInv'
  OBVIOUS
<1>1. CASE OpenMapsFile("open_cur", "parse_cur")
  BY <1>1, OpenKeeps
<1>2. CASE OpenMapsFile("open_next", "parse_next")
  BY <1>2, OpenKeeps
<1>3. CASE UNCHANGED vars
  <2>1. Held' = Held
    BY <1>3 DEF vars, process, Held
  <2>2. TypeOK' /\ Ascends(PML_Cur)' /\ Ascends(PML_Next)' /\ Counted'
    BY <1>3 DEF IInv, TypeOK, Ascends, Counted, vars, process, samples, seen
  <2>3. Watched' /\ ReadSoFar'
    BY <1>3, <2>1 DEF IInv, Watched, ReadSoFar, vars, process, samples, seen
  <2>4. QuietSamples'
    BY <1>3, <2>1 DEF IInv, QuietSamples, InitialPart, vars, samples, seen
  <2>5. DiffLogged'
    BY <1>3 DEF IInv, DiffLogged, Logged, Compared, vars, samples
  <2>6. QED
    BY <2>2, <2>3, <2>4, <2>5 DEF IInv
<1>4. QED
  BY <1>1, <1>2, <1>3, ChangeKeeps, ExitKeeps, ConfigureKeeps,
     ParseFirstLineKeeps, ParseFirstEndKeeps, ParseLineKeeps, ParseEndKeeps,
     DiffKeeps, SwapKeeps
     DEF Next, Service

(* The service's bookkeeping is right in every reachable state.             *)
THEOREM InvariantHolds == Spec => []IInv
<1>1. QED
  BY InitIInv, NextIInv, PTL DEF Spec

(* A new sample has only lines that were mapped at some time while it was   *)
(* read, and every line that was mapped all the time, unless the process    *)
(* ended meanwhile.                                                         *)
THEOREM SamplesAreHonest == Spec => []SampleHonest
<1>1. IInv => SampleHonest
  BY DEF IInv, ReadSoFar, SampleHonest
<1>2. QED
  BY <1>1, InvariantHolds, PTL

(* Two lines that are not the same, but for a path that only one of them    *)
(* has, differ.                                                             *)
LEMMA DifferentLinesDiffer ==
  ASSUME NEW l \in Lines, NEW m \in Lines, l # m, ~ PathOnly(l, m)
  PROVE  Differ(l, m)
<1>1. /\ l = [address |-> l.address, kind |-> l.kind] /\ l.kind \in Kinds
      /\ m = [address |-> m.address, kind |-> m.kind] /\ m.kind \in Kinds
  BY DEF Lines
<1>2. /\ l.kind = [perms |-> l.kind.perms, path |-> l.kind.path]
      /\ m.kind = [perms |-> m.kind.perms, path |-> m.kind.path]
  BY <1>1, KindsAssumption, Zenon
<1>3. CASE l.address = m.address /\ l.kind.perms = m.kind.perms
  <2>1. NoPath \notin {l.kind.path, m.kind.path}
    BY <1>3 DEF PathOnly
  <2>2. l.kind.path # m.kind.path
    <3> SUFFICES ASSUME l.kind.path = m.kind.path PROVE FALSE
      OBVIOUS
    <3>1. l.kind = m.kind
      BY <1>2, <1>3, Zenon
    <3>2. l = m
      BY <1>1, <1>3, <3>1, Zenon
    <3>3. QED
      BY <3>2
  <2>3. QED
    BY <2>1, <2>2 DEF Differ
<1>4. CASE ~ (l.address = m.address /\ l.kind.perms = m.kind.perms)
  BY <1>4 DEF Differ
<1>5. QED
  BY <1>3, <1>4

(* With a log, a mapping that came or went between two samples is logged    *)
(* wherever the comparison by place can show it.                            *)
THEOREM ChangesAreLogged == Spec => []ChangesLogged
<1>1. ASSUME IInv PROVE ChangesLogged
  <2> SUFFICES ASSUME pc = "swap", log_fd
               PROVE  /\ \A n \in DOMAIN PML_Cur :
                           /\ PML_Cur[n] \notin some
                           /\ Comparable(PML_Cur, PML_Next, n)
                           => \E pair \in log : pair[1] = PML_Cur[n]
                      /\ \A n \in DOMAIN PML_Next :
                           /\ PML_Next[n] \in whole
                           /\ PML_Next[n] \notin ContentOf(PML_Cur)
                           /\ Comparable(PML_Next, PML_Cur, n)
                           => \E pair \in log : pair[2] = PML_Next[n]
    BY DEF ChangesLogged
  <2>1. /\ PML_Cur \in Seq(Lines) /\ PML_Next \in Seq(Lines)
        /\ num_lns_cur = Len(PML_Cur) /\ num_lns_next = Len(PML_Next)
        /\ ContentOf(PML_Next) \subseteq some
    BY <1>1 DEF IInv, TypeOK, Counted, ReadSoFar
  <2>2. log = { <<PML_Cur[n], PML_Next[n]>> :
                  n \in { m \in Compared : Differ(PML_Cur[m], PML_Next[m]) } }
    BY <1>1 DEF IInv, DiffLogged, Logged
  <2>3. ASSUME NEW n \in DOMAIN PML_Cur, n \in DOMAIN PML_Next,
               PML_Cur[n] # PML_Next[n], ~ PathOnly(PML_Cur[n], PML_Next[n])
        PROVE  <<PML_Cur[n], PML_Next[n]>> \in log
    <3>1. n \in Compared
      BY <2>1, <2>3 DEF Compared
    <3>2. Differ(PML_Cur[n], PML_Next[n])
      BY <2>1, <2>3, DifferentLinesDiffer
    <3>3. QED
      BY <2>2, <3>1, <3>2
  <2>4. ASSUME NEW n \in DOMAIN PML_Cur,
               PML_Cur[n] \notin some, Comparable(PML_Cur, PML_Next, n)
        PROVE  \E pair \in log : pair[1] = PML_Cur[n]
    <3>1. n \in DOMAIN PML_Next /\ ~ PathOnly(PML_Cur[n], PML_Next[n])
      BY <2>4 DEF Comparable
    <3>2. PML_Next[n] \in some
      BY <2>1, <3>1 DEF ContentOf
    <3>3. <<PML_Cur[n], PML_Next[n]>> \in log
      BY <2>3, <2>4, <3>1, <3>2
    <3>4. QED
      BY <3>3
  <2>5. ASSUME NEW n \in DOMAIN PML_Next,
               PML_Next[n] \notin ContentOf(PML_Cur),
               Comparable(PML_Next, PML_Cur, n)
        PROVE  \E pair \in log : pair[2] = PML_Next[n]
    <3>1. n \in DOMAIN PML_Cur /\ ~ PathOnly(PML_Cur[n], PML_Next[n])
      BY <2>5 DEF Comparable, PathOnly
    <3>2. PML_Cur[n] # PML_Next[n]
      BY <2>5, <3>1 DEF ContentOf
    <3>3. <<PML_Cur[n], PML_Next[n]>> \in log
      BY <2>3, <2>5, <3>1, <3>2
    <3>4. QED
      BY <3>3
  <2>6. QED
    BY <2>4, <2>5
<1>2. QED
  BY <1>1, InvariantHolds, PTL

(* Two ascending samples of the same mappings agree as far as both go: at   *)
(* the first place where they differ, the lower of the two lines would be   *)
(* missing in the other sample.                                             *)
LEMMA NoGap ==
  ASSUME mapped \in [Addrs -> Kinds \union {Nothing}],
         NEW s \in Seq(Lines), NEW t \in Seq(Lines),
         Ascends(s), Ascends(t), InitialPart(s), InitialPart(t),
         NEW n \in Nat, n \in DOMAIN s, n \in DOMAIN t,
         \A m \in Nat : m < n /\ m \in DOMAIN s => s[m] = t[m]
  PROVE  ~ (s[n].address < t[n].address)
<1> SUFFICES ASSUME s[n].address < t[n].address PROVE FALSE
  OBVIOUS
<1>1. s[n] \in Held /\ s[n].address \in Nat /\ t[n].address \in Nat
  BY HeldFacts DEF InitialPart, ContentOf
<1>2. s[n] \in ContentOf(t)
  BY <1>1 DEF InitialPart, Covers
<1>3. PICK m \in DOMAIN t : s[n] = t[m]
  BY <1>2 DEF ContentOf
<1>4. m \in Nat /\ t[m].address \in Nat
  BY HeldFacts
<1>5. m < n
  <2>1. CASE m = n
    BY <1>1, <1>3, <2>1
  <2>2. CASE m > n
    <3>1. t[n].address < t[m].address
      BY <1>4, <2>2 DEF Ascends
    <3>2. QED
      BY <1>1, <1>3, <1>4, <3>1
  <2>3. QED
    BY <1>4, <2>1, <2>2
<1>6. m \in DOMAIN s
  BY <1>4, <1>5
<1>7. s[m] = s[n]
  BY <1>3, <1>4, <1>5, <1>6
<1>8. s[m].address < s[n].address
  BY <1>5, <1>6 DEF Ascends
<1>9. QED
  BY <1>1, <1>7, <1>8

LEMMA SamplesAgree ==
  ASSUME mapped \in [Addrs -> Kinds \union {Nothing}],
         NEW s \in Seq(Lines), NEW t \in Seq(Lines),
         Ascends(s), Ascends(t), InitialPart(s), InitialPart(t)
  PROVE  \A n \in DOMAIN s : n \in DOMAIN t => s[n] = t[n]
<1> DEFINE T == { n \in DOMAIN s : n \in DOMAIN t /\ s[n] # t[n] }
<1>1. SUFFICES ASSUME T # {} PROVE FALSE
  OBVIOUS
<1>2. T \subseteq Nat
  OBVIOUS
<1>3. PICK n \in T : \A m \in T : n <= m
  BY <1>1, <1>2, Least
<1>4. /\ n \in Nat /\ n \in DOMAIN s /\ n \in DOMAIN t /\ s[n] # t[n]
  BY <1>2
<1>5. ASSUME NEW m \in Nat, m < n, m \in DOMAIN s \/ m \in DOMAIN t
      PROVE  s[m] = t[m]
  <2>1. m \in DOMAIN s /\ m \in DOMAIN t
    BY <1>4, <1>5
  <2>2. m \notin T
    BY <1>3, <1>4, <1>5
  <2>3. QED
    BY <2>1, <2>2
<1>6. ~ (s[n].address < t[n].address)
  BY <1>4, <1>5, NoGap
<1>7. ~ (t[n].address < s[n].address)
  BY <1>4, <1>5, NoGap
<1>8. s[n] \in Held /\ t[n] \in Held
  BY <1>4 DEF InitialPart, ContentOf
<1>9. s[n].address = t[n].address
  BY <1>6, <1>7, <1>8, HeldFacts
<1>10. QED
  BY <1>4, <1>8, <1>9, HeldFacts

(* Nothing is logged of a process that did not change its mappings since    *)
(* the older of the two samples was begun.                                  *)
THEOREM QuietIsNotLogged == Spec => []QuietNotLogged
<1>1. ASSUME IInv PROVE QuietNotLogged
  <2> SUFFICES ASSUME pc = "swap", quiet = 2
               PROVE  log = {}
    BY DEF QuietNotLogged
  <2>1. /\ mapped \in [Addrs -> Kinds \union {Nothing}]
        /\ PML_Cur \in Seq(Lines) /\ PML_Next \in Seq(Lines)
        /\ num_lns_cur = Len(PML_Cur) /\ num_lns_next = Len(PML_Next)
        /\ Ascends(PML_Cur) /\ Ascends(PML_Next)
        /\ InitialPart(PML_Cur) /\ InitialPart(PML_Next)
    BY <1>1 DEF IInv, TypeOK, Counted, QuietSamples
  <2>2. \A n \in Compared : PML_Cur[n] = PML_Next[n]
    <3>1. \A n \in Compared : n \in DOMAIN PML_Cur /\ n \in DOMAIN PML_Next
      BY <2>1 DEF Compared
    <3>2. QED
      BY <2>1, <3>1, SamplesAgree
  <2>3. \A n \in Compared : ~ Differ(PML_Cur[n], PML_Next[n])
    BY <2>2 DEF Differ
  <2>4. QED
    BY <1>1, <2>3 DEF IInv, DiffLogged, Logged
<1>2. QED
  BY <1>1, InvariantHolds, PTL
=============================================================================
