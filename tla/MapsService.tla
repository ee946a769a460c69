---------------------------- MODULE MapsService -----------------------------
(***************************************************************************)
(* task6/sys-service: every ten seconds the service reads the mappings of  *)
(* a process from /proc/PID/maps, compares them line by line with those of *)
(* the last sample, logs each pair of lines that differ, and keeps the new *)
(* sample instead of the old one.                                          *)
(*                                                                         *)
(* The process runs on while its mappings are read.  The kernel answers in *)
(* the order of addresses and goes on above the last one given out; of a   *)
(* process that has ended it gives nothing more.  A line is an address and *)
(* what lies there: the fields that are always present, as one value, and  *)
(* the path, which an anonymous mapping lacks.                             *)
(***************************************************************************)
EXTENDS Integers, Sequences, FiniteSets

CONSTANTS
  Addrs,       \* where mappings may begin
  Kinds,       \* what may lie there: records with the fields perms and path
  NoPath,      \* the path of an anonymous mapping, NULL
  Nothing,     \* no mapping
  MaxChanges   \* bound: changes of the mappings

ASSUME AddrsAssumption == Addrs \subseteq Nat \ {0} /\ IsFiniteSet(Addrs)
ASSUME KindsAssumption == \A k \in Kinds : k = [perms |-> k.perms, path |-> k.path]
ASSUME NothingAssumption == Nothing \notin Kinds
ASSUME ChangesAssumption == MaxChanges \in Nat

VARIABLES
  mapped,        \* what lies at each address of the process
  state,         \* the process runs, has ended, or is forgotten
  changes,       \* how often its mappings have changed
  pc,            \* where the service is
  log_fd,        \* the log can be written
  maps_file,     \* the file is open
  PML_Cur, num_lns_cur,     \* the last sample
  PML_Next, num_lns_next,   \* the new one
  log,           \* the pairs of lines the comparison just made has logged
  whole, some,   \* history: the lines mapped all the time while the sample
                 \* was read, and those mapped at some time
  torn,          \* history: the process ended while it was read
  quiet          \* history: samples begun since the last change, up to two

process == <<mapped, state, changes>>
samples == <<PML_Cur, num_lns_cur, PML_Next, num_lns_next>>
seen == <<whole, some, torn, quiet>>
vars == <<process, pc, log_fd, maps_file, samples, log, seen>>

Lines == [address : Addrs, kind : Kinds]
Held == { [address |-> a, kind |-> mapped[a]] :
            a \in { b \in Addrs : mapped[b] # Nothing } }
ContentOf(s) == { s[n] : n \in DOMAIN s }

Init ==
  /\ mapped \in [Addrs -> Kinds \union {Nothing}]
  /\ state = "runs"
  /\ changes = 0
  /\ pc = "config"
  /\ log_fd = FALSE
  /\ maps_file = FALSE
  /\ PML_Cur = << >> /\ num_lns_cur = 0
  /\ PML_Next = << >> /\ num_lns_next = 0
  /\ log = {}
  /\ whole = {} /\ some = {} /\ torn = FALSE /\ quiet = 0

(***************************************************************************)
(* The tracked process.                                                    *)
(***************************************************************************)
Change ==
  /\ state = "runs"
  /\ changes < MaxChanges
  /\ changes' = changes + 1
  /\ \E a \in Addrs, k \in Kinds \union {Nothing} :
       /\ mapped[a] # k
       /\ mapped' = [mapped EXCEPT ![a] = k]
  /\ whole' = whole \intersect Held'
  /\ some' = IF maps_file THEN some \union Held' ELSE some
  /\ quiet' = 0
  /\ UNCHANGED <<state, pc, log_fd, maps_file, samples, log, torn>>

(* It ends, with an entry in /proc until its parent has asked for it.       *)
Exit ==
  /\ \/ state = "runs" /\ state' = "zombie"
     \/ state = "zombie" /\ state' = "gone"
  /\ torn' = maps_file
  /\ UNCHANGED <<mapped, changes, pc, log_fd, maps_file, samples, log, whole,
                 some, quiet>>

(***************************************************************************)
(* configure_service: whether start_log got its file is not looked at; to  *)
(* work as a daemon may fail later.  Without the option the log goes to    *)
(* descriptor 0, for ss_log.c has a log_fd of its own.                     *)
(***************************************************************************)
start_log == BOOLEAN

Configure ==
  /\ pc = "config"
  /\ pc' \in {"open_cur", "exit"}
  /\ log_fd' \in start_log
  /\ UNCHANGED <<process, maps_file, samples, log, seen>>

(***************************************************************************)
(* start_service                                                           *)
(***************************************************************************)
(* Mutant: the service tries again.                                         *)
WithoutFileAgain(from) == from

WithoutFile(from) == "exit"

OpenMapsFile(from, to) ==
  /\ pc = from
  /\ IF state = "gone"
     THEN /\ pc' = WithoutFile(from)
          /\ UNCHANGED <<maps_file, whole, some, torn, quiet>>
     ELSE /\ pc' = to
          /\ maps_file' = TRUE
          /\ whole' = Held
          /\ some' = Held
          /\ torn' = (state # "runs")
          /\ quiet' = IF quiet < 2 THEN quiet + 1 ELSE 2
  /\ UNCHANGED <<process, log_fd, samples, log>>

(* What getline can still return of a file of which s has been read.        *)
Above(s) == { l \in Held : \A n \in DOMAIN s : l.address > s[n].address }

NextLine(s) ==
  CHOOSE l \in Above(s) : \A m \in Above(s) : l.address <= m.address

HasLine(s) == state = "runs" /\ Above(s) # {}

(* parse_maps, into PML_Cur the first time.                                 *)
ParseFirstLine ==
  /\ pc = "parse_cur"
  /\ HasLine(PML_Cur)
  /\ PML_Cur' = Append(PML_Cur, NextLine(PML_Cur))
  /\ UNCHANGED <<process, pc, log_fd, maps_file, num_lns_cur, PML_Next,
                 num_lns_next, log, seen>>

ParseFirstEnd ==
  /\ pc = "parse_cur"
  /\ ~ HasLine(PML_Cur)
  /\ num_lns_cur' = Len(PML_Cur)
  /\ maps_file' = FALSE
  /\ pc' = "open_next"
  /\ whole' = {} /\ some' = {} /\ torn' = FALSE
  /\ UNCHANGED <<process, log_fd, PML_Cur, PML_Next, num_lns_next, log, quiet>>

(* Mutant: the number of lines is not counted up.                           *)
WithLineOver(s, l) == <<l>>

WithLine(s, l) == Append(s, l)

ParseLine ==
  /\ pc = "parse_next"
  /\ HasLine(PML_Next)
  /\ PML_Next' = WithLine(PML_Next, NextLine(PML_Next))
  /\ UNCHANGED <<process, pc, log_fd, maps_file, PML_Cur, num_lns_cur,
                 num_lns_next, log, seen>>

ParseEnd ==
  /\ pc = "parse_next"
  /\ ~ HasLine(PML_Next)
  /\ num_lns_next' = Len(PML_Next)
  /\ pc' = "diff"
  /\ UNCHANGED <<process, log_fd, maps_file, PML_Cur, num_lns_cur, PML_Next,
                 log, seen>>

(* Two lines differ in a field that both have.                              *)
Differ(l, m) ==
  \/ l.address # m.address
  \/ l.kind.perms # m.kind.perms
  \/ NoPath \notin {l.kind.path, m.kind.path} /\ l.kind.path # m.kind.path

(* Mutant: the last line is not compared.                                   *)
ComparedShort == { n \in 1 .. num_lns_cur : n < num_lns_next }

Compared == { n \in 1 .. num_lns_cur : n <= num_lns_next }

(* create_log does not look at what write returns.                          *)
Logged(pairs) == IF log_fd THEN pairs ELSE {}

PML_diff ==
  /\ pc = "diff"
  /\ pc' = "swap"
  /\ log' = Logged({ <<PML_Cur[n], PML_Next[n]>> :
                       n \in { m \in Compared :
                                Differ(PML_Cur[m], PML_Next[m]) } })
  /\ UNCHANGED <<process, log_fd, maps_file, samples, seen>>

(* The arrays change places, the old one is freed.                          *)
(* Mutant: the old sample stays.                                            *)
PML_swapBack ==
  /\ PML_Cur' = PML_Cur
  /\ PML_Next' = << >>
  /\ num_lns_cur' = num_lns_cur
  /\ num_lns_next' = 0

PML_swap ==
  /\ PML_Cur' = PML_Next
  /\ PML_Next' = << >>
  /\ num_lns_cur' = num_lns_next
  /\ num_lns_next' = 0

fclose == FALSE

Swap ==
  /\ pc = "swap"
  /\ pc' = "open_next"
  /\ PML_swap
  /\ maps_file' = fclose
  /\ log' = {} /\ whole' = {} /\ some' = {} /\ torn' = FALSE
  /\ UNCHANGED <<process, log_fd, quiet>>

(***************************************************************************)
(* The specification: the service is scheduled again and again, and its    *)
(* sleep of ten seconds ends; nothing is asked of the process.             *)
(***************************************************************************)
Service ==
  \/ Configure
  \/ OpenMapsFile("open_cur", "parse_cur")
  \/ ParseFirstLine \/ ParseFirstEnd
  \/ OpenMapsFile("open_next", "parse_next")
  \/ ParseLine \/ ParseEnd \/ PML_diff \/ Swap

Next == Change \/ Exit \/ Service

Spec == Init /\ [][Next]_vars

FairSpec == Spec /\ WF_vars(Service)

(***************************************************************************)
(* Properties.                                                             *)
(***************************************************************************)

(* The types of the variables; the file is open while it is read.           *)
TypeOK ==
  /\ mapped \in [Addrs -> Kinds \union {Nothing}]
  /\ state \in {"runs", "zombie", "gone"}
  /\ changes \in 0 .. MaxChanges
  /\ pc \in {"config", "open_cur", "parse_cur", "open_next", "parse_next",
             "diff", "swap", "exit"}
  /\ log_fd \in BOOLEAN
  /\ maps_file \in BOOLEAN
  /\ maps_file <=> pc \in {"parse_cur", "parse_next", "diff", "swap"}
  /\ PML_Cur \in Seq(Lines) /\ PML_Next \in Seq(Lines)
  /\ num_lns_cur \in Nat /\ num_lns_next \in Nat
  /\ log \subseteq Lines \X Lines
  /\ whole \subseteq Lines /\ some \subseteq Lines
  /\ torn \in BOOLEAN
  /\ quiet \in 0 .. 2

(* A sample is not taken at one moment, but it is honest: each line was     *)
(* mapped at some time while it was read, and what was mapped all the time  *)
(* is in it, unless the process ended meanwhile.                            *)
SampleHonest ==
  /\ TypeOK
  /\ pc = "diff" =>
       /\ ContentOf(PML_Next) \subseteq some
       /\ torn \/ whole \subseteq ContentOf(PML_Next)

(* README.md, task 6: mappings are monitored and changes recorded.  With a  *)
(* log, a mapping that went before the new sample is logged as an old line, *)
(* and one that came before it as a new line, unless the other sample has   *)
(* no line at its place, or one that differs in having a path or not.       *)
PathOnly(l, m) ==
  /\ l.address = m.address
  /\ l.kind.perms = m.kind.perms
  /\ NoPath \in {l.kind.path, m.kind.path}

Comparable(s, t, n) == n \in DOMAIN t /\ ~ PathOnly(s[n], t[n])

ChangesLogged ==
  pc = "swap" /\ log_fd =>
    /\ \A n \in DOMAIN PML_Cur :
         PML_Cur[n] \notin some /\ Comparable(PML_Cur, PML_Next, n) =>
           \E pair \in log : pair[1] = PML_Cur[n]
    /\ \A n \in DOMAIN PML_Next :
         /\ PML_Next[n] \in whole
         /\ PML_Next[n] \notin ContentOf(PML_Cur)
         /\ Comparable(PML_Next, PML_Cur, n)
         => \E pair \in log : pair[2] = PML_Next[n]

(* Nothing is logged of a process whose mappings have not changed since the *)
(* older of two samples was begun, even if it ends while the newer is read. *)
QuietNotLogged == pc = "swap" /\ quiet = 2 => log = {}

(***************************************************************************)
(* The inductive invariant.  A sample ascends; what is read of it is, as   *)
(* far as it goes, the mappings that nobody has touched meanwhile.         *)
(***************************************************************************)
Ascends(s) == \A m, n \in DOMAIN s : m < n => s[m].address < s[n].address

(* s has all the lines of the set up to its own last one.                   *)
Covers(s, lines) ==
  \A l \in lines, n \in DOMAIN s : l.address <= s[n].address => l \in ContentOf(s)

InitialPart(s) == ContentOf(s) \subseteq Held /\ Covers(s, Held)

Counted ==
  /\ pc \in {"open_next", "parse_next", "diff", "swap"} => num_lns_cur = Len(PML_Cur)
  /\ pc \in {"diff", "swap"} => num_lns_next = Len(PML_Next)
  /\ pc \in {"config", "open_cur"} => PML_Cur = << >>
  /\ pc \in {"config", "open_cur", "parse_cur", "open_next"} => PML_Next = << >>

Watched ==
  /\ whole \subseteq Held
  /\ maps_file => Held \subseteq some /\ (state # "runs" => torn)

ReadSoFar ==
  pc \in {"parse_next", "diff", "swap"} =>
    /\ ContentOf(PML_Next) \subseteq some
    /\ Covers(PML_Next, whole)
    /\ pc # "parse_next" => torn \/ whole \subseteq ContentOf(PML_Next)

QuietSamples ==
  /\ quiet >= 1 => InitialPart(PML_Next)
  /\ quiet = 2 \/ (quiet = 1 /\ pc \in {"parse_cur", "open_next"}) =>
       InitialPart(PML_Cur)

DiffLogged ==
  pc = "swap" =>
    log = Logged({ <<PML_Cur[n], PML_Next[n]>> :
                     n \in { m \in Compared : Differ(PML_Cur[m], PML_Next[m]) } })

IInv ==
  /\ TypeOK
  /\ Ascends(PML_Cur) /\ Ascends(PML_Next)
  /\ Counted
  /\ Watched
  /\ ReadSoFar
  /\ QuietSamples
  /\ DiffLogged

(* The service ends when the process it tracks is forgotten.                *)
EndsWithProcess == state = "gone" ~> pc = "exit"
=============================================================================
